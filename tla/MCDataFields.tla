---------------------------- MODULE MCDataFields ----------------------------
(***************************************************************************)
(* A small instance of DataFields: a path of a response body seen without  *)
(* status and content type ("null") and with them ("json"), and a header.  *)
(***************************************************************************)
EXTENDS DataFields, TLC

CONSTANTS pii, i1

MCKey == {"null", "json", "header"}
BodyKey == {"null", "json"}
MCNullKey == [k \in Key |-> IF k = "json" THEN "null" ELSE k]
MCTraces == {{"null"}, {"json", "header"}}
BodyTraces == {{"null"}, {"json"}}
\* A field whose class the detection has found before.
Identified == {[id |-> i1, key |-> "json", classes |-> {pii},
                identified |-> {pii}, false |-> {}]}
NoRows == {}
MCSeverity == [c \in Class |-> 1]
\* No property of the run of decisions is about the risk score.
NoSeverity == [c \in Class |-> 0]
=============================================================================
