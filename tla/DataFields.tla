----------------------------- MODULE DataFields -----------------------------
(***************************************************************************)
(* The data fields of one endpoint and its risk score. Analyzers read the  *)
(* rows, work out in memory what a trace adds and write whole rows back;   *)
(* the detection job, requests of users and the cleanup after a config was *)
(* saved do the same, each from the rows it read itself.                   *)
(*                                                                         *)
(* A row carries the three lists of class names; its types, dates, array   *)
(* fields and trace hashes are left out. That they make an analyzer write  *)
(* a row it found back, or not, is a choice.                               *)
(***************************************************************************)
EXTENDS Naturals, FiniteSets, FiniteSetsExt

CONSTANTS
    Analyzer,  \* analyzer processes
    Job,       \* runs of the detection job over this endpoint
    Request,   \* requests of users
    Save,      \* config saves with data classes to clean up
    Id,        \* uuids of rows
    Key,       \* statusCode_contentType_dataSection.dataPath
    NullKey,   \* key -> the key with neither status code nor content type
    Traces,    \* the sets of keys that traces have fields for
    Class,     \* class names
    Severity,  \* class -> its risk score
    Limit,     \* TOTAL_DATA_FIELDS_LIMIT
    Earlier,   \* the rows at the start
    None       \* the uuid of a row that is not in the table yet

Actor == Analyzer \cup Job \cup Request \cup Save

RiskScore == 0..3

ASSUME SetsAssumption == IsFiniteSet(Key) /\ None \notin Id /\ Limit \in Nat
ASSUME ActorAssumption ==
    /\ Analyzer \cap (Job \cup Request \cup Save) = {}
    /\ Job \cap (Request \cup Save) = {}
    /\ Request \cap Save = {}
\* A trace has one status code and one content type.
ASSUME KeyAssumption ==
    /\ NullKey \in [Key -> Key] /\ \A k \in Key : NullKey[NullKey[k]] = NullKey[k]
    /\ Traces \subseteq SUBSET Key
    /\ \A K \in Traces : \A k, l \in K : NullKey[k] = NullKey[l] => k = l
ASSUME ClassAssumption == Severity \in [Class -> RiskScore]

VARIABLES
    rows,     \* data_field
    risk,     \* riskScore of the endpoint
    config,   \* the classes of the config
    cached,   \* the sets of classes a lookup may return
    pc,       \* actor -> where it is
    held,     \* actor -> the rows in its memory
    todo,     \* actor -> uuids of the rows a detection has not looked at
    known,    \* actor -> the classes it looked up, or found in the rows it read
    prev,     \* actor -> the risk score it read
    next,     \* actor -> the risk score it worked out
    behind,   \* history: actor -> rows that others wrote since it read them
    outdated, \* history: rows that an actor wrote from outdated knowledge
    ruledOut, \* history: <<row, class>> that a user declared a false positive
    removed,  \* history: rows that users deleted
    dropped,  \* history: classes that were cleaned up
    named     \* history: <<row, class>> that a request wrote though the config
              \* does not have the class

memory  == <<held, todo, known, prev, next>>
history == <<behind, outdated, ruledOut, removed, dropped, named>>
vars == <<rows, risk, config, cached, pc, memory, history>>

Row == [id : Id \cup {None}, key : Key, classes : SUBSET Class,
        identified : SUBSET Class, false : SUBSET Class]

Ids(R)     == {r.id : r \in R}
Unique(R)  == \A r, s \in R : r.id = s.id \/ r.key = s.key => r = s

ASSUME EarlierAssumption ==
    /\ Earlier \subseteq Row /\ Unique(Earlier) /\ None \notin Ids(Earlier)
    /\ Cardinality(Earlier) <= Limit
    /\ \A r \in Earlier : r.classes \cap r.false = {}

Fresh      == Id \ (Ids(rows) \cup removed \cup UNION {Ids(held[x]) : x \in Actor})
Holding    == {"classes", "commit", "detect", "write", "delete"}
Goto(x, p) == pc' = [pc EXCEPT ![x] = p]
At(x, p)   == pc[x] = p

\* getRiskScore: the highest severity; a class that is not known counts for none.
Highest(D)   == Max({0} \cup {Severity[c] : c \in D})
ClassesOf(R) == UNION {r.classes : r \in R}
RiskOf(R, C) == Highest(C \cap ClassesOf(R))

TypeOK ==
    /\ rows \subseteq Row
    /\ Unique(rows)
    /\ None \notin Ids(rows)
    /\ risk \in RiskScore
    /\ config \subseteq Class
    /\ cached \subseteq SUBSET Class /\ config \in cached
    /\ pc \in [Actor -> {"idle", "fields", "classes", "commit", "failed", "detect",
                         "write", "delete", "risk", "set", "done"}]
    /\ held \in [Actor -> SUBSET Row]
    /\ todo \in [Actor -> SUBSET Id]
    /\ known \in [Actor -> SUBSET Class]
    /\ prev \in [Actor -> RiskScore] /\ next \in [Actor -> RiskScore]
    /\ behind \in [Actor -> SUBSET Id]
    /\ outdated \subseteq Id
    /\ ruledOut \subseteq Id \X Class
    /\ removed \subseteq Id
    /\ dropped \subseteq Class
    /\ named \subseteq Id \X Class

Init ==
    /\ rows = Earlier
    /\ risk = RiskOf(Earlier, Class)
    /\ config = Class
    /\ cached = {Class}
    /\ pc = [x \in Actor |-> "idle"]
    /\ held = [x \in Actor |-> {}]
    /\ todo = [x \in Actor |-> {}]
    /\ known = [x \in Actor |-> {}]
    /\ prev = [x \in Actor |-> 0]
    /\ next = [x \in Actor |-> 0]
    /\ behind = [x \in Actor |-> {}]
    /\ outdated = {}
    /\ ruledOut = {}
    /\ removed = {}
    /\ dropped = {}
    /\ named = {}

(***************************************************************************)
(* Reading and writing rows                                                *)
(***************************************************************************)

\* The rows become R by a step of x that relies on the classes C. A row that
\* is written rests on outdated knowledge if another wrote it since x read
\* it, if it is new and others wrote since then, and if the config changed.
Table(x, R, C) ==
    LET touched == Ids(R \ rows)
        changed == touched \cup Ids(rows \ R)
    IN /\ rows' = R
       /\ behind' = [y \in Actor |->
                        IF pc'[y] \notin Holding THEN {}
                        ELSE IF y = x THEN behind[y] ELSE behind[y] \cup changed]
       /\ outdated' = outdated
            \cup (touched \cap behind[x])
            \cup (IF behind[x] # {} THEN touched \ Ids(rows) ELSE {})
            \cup (IF C # config THEN touched ELSE {})

\* What x had in memory is gone when it returns.
Forget(x) ==
    /\ held' = [held EXCEPT ![x] = {}]
    /\ todo' = [todo EXCEPT ![x] = {}]
    /\ known' = [known EXCEPT ![x] = {}]
    /\ prev' = [prev EXCEPT ![x] = 0]
    /\ next' = [next EXCEPT ![x] = 0]

\* x reads the rows that it goes on with.
Take(x, R) ==
    /\ held' = [held EXCEPT ![x] = R]
    /\ behind' = [behind EXCEPT ![x] = {}]

\* EntityManager.save of a row that was read: found by its uuid and written
\* as a whole, inserted if it is gone. The unique key may be taken by then.
Saved(r)    == {q \in rows : q.id # r.id} \cup {r}
KeyFree(r)  == \A q \in rows : q.key = r.key => q.id = r.id

(***************************************************************************)
(* Analyzers                                                               *)
(***************************************************************************)

ReadEndpoint(a) ==
    /\ a \in Analyzer
    /\ At(a, "idle")
    /\ prev' = [prev EXCEPT ![a] = risk]
    /\ Goto(a, "fields")
    /\ UNCHANGED <<rows, risk, config, cached, held, todo, known, next, history>>

\* handleDataField: the row of the key, or else the one of its null key.
FieldOf(k) ==
    IF \E r \in rows : r.key = k THEN {r \in rows : r.key = k}
                                 ELSE {r \in rows : r.key = NullKey[k]}

\* Mutant: the limit bounds what one trace adds.
RoomPerTrace(missing) == Min({Cardinality(missing), Limit})

\* How many of the missing fields are added.
Room(missing) ==
    Min({Cardinality(missing),
         IF Cardinality(rows) < Limit THEN Limit - Cardinality(rows) ELSE 0})

New(k) == [id |-> None, key |-> k, classes |-> {}, identified |-> {},
           false |-> {}]

\* A row found under its null key takes the key of the trace.
Found(K) == UNION {{[r EXCEPT !.key = k] : r \in FieldOf(k)} : k \in K}

\* findDataFieldsToSave: new rows as far as there is room, and rows found: all
\* that take a new key, others if a date, a type or the trace hash ask for it.
\* They follow from the rows read; the classes matter for the score only.
ReadFields(a) ==
    /\ a \in Analyzer
    /\ At(a, "fields")
    /\ Goto(a, "classes")
    /\ \E K \in Traces :
        LET missing == {k \in K : FieldOf(k) = {}}
        IN \E N \in SUBSET missing, U \in SUBSET Found(K) :
            /\ Cardinality(N) = Room(missing)
            /\ Found(K) \ rows \subseteq U
            /\ Take(a, U \cup {New(k) : k \in N})
    /\ known' = [known EXCEPT ![a] = ClassesOf(rows)]
    /\ UNCHANGED <<rows, risk, config, cached, todo, prev, next, outdated,
                   ruledOut, removed, dropped, named>>

\* getCombinedDataClassesCached, and the score of the rows that were read.
LookUp(a) ==
    /\ a \in Analyzer
    /\ At(a, "classes")
    /\ Goto(a, "commit")
    /\ \E C \in cached : next' = [next EXCEPT ![a] = Highest(C \cap known[a])]
    /\ known' = [known EXCEPT ![a] = {}]
    /\ UNCHANGED <<rows, risk, config, cached, held, todo, prev, history>>

\* INSERT .. ON CONFLICT (the unique key): a row with the key is overwritten.
UpsertByKey(W) ==
    {r \in rows : \A w \in W : w.key # r.key}
      \cup {IF \E r \in rows : r.key = w.key
            THEN [w EXCEPT !.id = (CHOOSE r \in rows : r.key = w.key).id]
            ELSE w : w \in W}

\* INSERT .. ON CONFLICT (uuid): a row with the uuid is overwritten.
UpsertById(W) == {r \in rows : \A w \in W : w.id # r.id} \cup W

\* 23505 of the first statement: a row to be inserted is there under another
\* key. The transaction is rolled back and tried by uuid.
SecondTry(W) ==
    \E w \in W : (\A r \in rows : r.key # w.key) /\ w.id \in Ids(rows)

\* 23505 of the second statement.
KeyTaken(W) == \E w \in W, r \in rows : r.key = w.key /\ r.id \notin Ids(W)

\* Inserted rows get their uuids from the database.
Numberings(R) ==
    LET new == {r \in R : r.id = None}
    IN {f \in [new -> Fresh] : \A r, s \in new : f[r] = f[s] => r = s}

Numbered(R) ==
    LET f == CHOOSE f \in Numberings(R) : TRUE
    IN {IF r.id = None THEN [r EXCEPT !.id = f[r]] ELSE r : r \in R}

\* Mutant: the risk score is written only when it rises.
RiskRises(a) == next[a] > prev[a]

\* shouldUpdateEndpoint, but for the date.
RiskChanged(a) == next[a] # prev[a]

\* Mutant: the first violation of a unique key ends the analysis.
FirstFails(W) == SecondTry(W)

Fails(W) == SecondTry(W) /\ KeyTaken(W)

\* The transaction commits. The risk score is written if it is not the one
\* read, or if the date lastActive asks for it.
Commit(a) ==
    /\ a \in Analyzer
    /\ At(a, "commit")
    /\ ~Fails(held[a])
    /\ Goto(a, "idle")
    /\ LET R == IF SecondTry(held[a]) THEN UpsertById(held[a])
                                      ELSE UpsertByKey(held[a])
       IN Numberings(R) # {} /\ Table(a, Numbered(R), config)
    /\ \/ risk' = next[a]
       \/ ~RiskChanged(a) /\ UNCHANGED risk
    /\ Forget(a)
    /\ UNCHANGED <<config, cached, ruledOut, removed, dropped, named>>

\* Both statements fail: the error ends the analysis, the trace is lost.
FailCommit(a) ==
    /\ a \in Analyzer
    /\ At(a, "commit")
    /\ Fails(held[a])
    /\ Goto(a, "failed")
    /\ Forget(a)
    /\ UNCHANGED <<rows, risk, config, cached, history>>

NextTrace(a) ==
    /\ a \in Analyzer
    /\ At(a, "failed")
    /\ Goto(a, "idle")
    /\ UNCHANGED <<rows, risk, config, cached, memory, history>>

(***************************************************************************)
(* The detection job                                                       *)
(***************************************************************************)

\* The endpoints are read, and the classes before the rows of each of them.
StartDetection(j) ==
    /\ j \in Job
    /\ At(j, "idle")
    /\ prev' = [prev EXCEPT ![j] = risk]
    /\ \E C \in cached : known' = [known EXCEPT ![j] = C]
    /\ Goto(j, "fields")
    /\ UNCHANGED <<rows, risk, config, cached, held, todo, next, history>>

ReadForDetection(j) ==
    /\ j \in Job
    /\ At(j, "fields")
    /\ Goto(j, "detect")
    /\ Take(j, rows)
    /\ todo' = [todo EXCEPT ![j] = Ids(rows)]
    /\ UNCHANGED <<rows, risk, config, cached, known, prev, next, outdated,
                   ruledOut, removed, dropped, named>>

\* Less than MIN_ANALYZE_TRACES traces are in redis.
TooFewTraces(j) ==
    /\ j \in Job
    /\ At(j, "fields")
    /\ Goto(j, "done")
    /\ Forget(j)
    /\ UNCHANGED <<rows, risk, config, cached, history>>

\* Mutant: classes that are no longer known are detected too.
FindsAnything(j) == Class

\* The classes that are found in most traces, those that are not valid left out.
Finds(j) == known[j]

\* Mutant: what the user declared a false positive is added again.
AddedAnyway(r, D) == D \ r.classes

\* getUniqueDataClasses.
AddedTo(r, D) == D \ (r.classes \cup r.false)

\* One row with enough traces gets the classes found and is saved. A row with
\* too few traces or no new class is not written. An error ends the detection.
Detect(j) ==
    /\ j \in Job
    /\ At(j, "detect")
    /\ \E r \in held[j], D \in SUBSET Finds(j) :
        LET A == AddedTo(r, D)
            s == [r EXCEPT !.classes = @ \cup A, !.identified = @ \cup A]
        IN /\ r.id \in todo[j]
           /\ \/ /\ A = {} \/ KeyFree(s)
                 /\ Goto(j, "detect")
                 /\ Table(j, IF A = {} THEN rows ELSE Saved(s), known[j])
                 /\ todo' = [todo EXCEPT ![j] = @ \ {r.id}]
                 /\ held' = [held EXCEPT ![j] = (@ \ {r}) \cup {s}]
                 /\ UNCHANGED <<known, prev, next>>
              \/ /\ A # {} /\ ~KeyFree(s)
                 /\ Goto(j, "done")
                 /\ Forget(j)
                 /\ UNCHANGED <<rows, behind, outdated>>
    /\ UNCHANGED <<risk, config, cached, ruledOut, removed, dropped, named>>

\* After the last row the risk score is worked out from the rows in memory.
EndDetection(j) ==
    /\ j \in Job
    /\ At(j, "detect")
    /\ todo[j] = {}
    /\ LET score == RiskOf(held[j], known[j])
       IN risk' = IF score # prev[j] THEN score ELSE risk
    /\ Goto(j, "done")
    /\ Forget(j)
    /\ UNCHANGED <<rows, config, cached, history>>

(***************************************************************************)
(* Requests of users                                                       *)
(***************************************************************************)

\* updateDataClasses and deleteDataField read the row. The classes that a user
\* names are stored as they come, the config is not asked.
ReadRow(u) ==
    /\ u \in Request
    /\ At(u, "idle")
    /\ \/ /\ \E r \in rows, S \in SUBSET Class :
              Take(u, {[r EXCEPT !.classes = S, !.false = r.identified \ S]})
          /\ Goto(u, "write")
       \/ /\ \E r \in rows : Take(u, {r})
          /\ Goto(u, "delete")
    /\ UNCHANGED <<rows, risk, config, cached, todo, known, prev, next, outdated,
                   ruledOut, removed, dropped, named>>

\* The unique key may have been taken since: the request fails.
SaveRow(u) ==
    /\ u \in Request
    /\ At(u, "write")
    /\ \E r \in held[u] :
        IF KeyFree(r)
        THEN /\ Goto(u, "risk")
             /\ Table(u, Saved(r), config)
             /\ ruledOut' = {p \in ruledOut : p[1] # r.id}
                               \cup {<<r.id, c>> : c \in r.false}
             /\ named' = {p \in named : p[1] # r.id}
                            \cup {<<r.id, c>> : c \in r.classes \ config}
        ELSE Goto(u, "done") /\ UNCHANGED <<rows, behind, outdated, ruledOut, named>>
    /\ Forget(u)
    /\ UNCHANGED <<risk, config, cached, removed, dropped>>

DeleteRow(u) ==
    /\ u \in Request
    /\ At(u, "delete")
    /\ Goto(u, "risk")
    /\ Table(u, {r \in rows : r.id \notin Ids(held[u])}, config)
    /\ removed' = removed \cup Ids(held[u])
    /\ Forget(u)
    /\ UNCHANGED <<risk, config, cached, ruledOut, dropped, named>>

\* updateEndpointRiskScore reads the rows again and then writes.
ReadRisk(u) ==
    /\ u \in Request
    /\ At(u, "risk")
    /\ \E C \in cached : next' = [next EXCEPT ![u] = RiskOf(rows, C)]
    /\ Goto(u, "set")
    /\ UNCHANGED <<rows, risk, config, cached, held, todo, known, prev, history>>

SetRisk(u) ==
    /\ u \in Request
    /\ At(u, "set")
    /\ risk' = next[u]
    /\ Goto(u, "done")
    /\ Forget(u)
    /\ UNCHANGED <<rows, config, cached, history>>

\* bulkDeleteDataFieldsHandler: the rows go, and then, in a statement of its
\* own, the risk score, which is 0 in the memory of the request.
DeleteAll(u) ==
    /\ u \in Request
    /\ At(u, "idle")
    /\ Goto(u, "set")
    /\ Table(u, {}, config)
    /\ removed' = removed \cup Ids(rows)
    /\ UNCHANGED <<risk, config, cached, memory, ruledOut, dropped, named>>

\* clearAllSensitiveDataHandler: one transaction.
ClearAll(u) ==
    /\ u \in Request
    /\ At(u, "idle")
    /\ Goto(u, "done")
    /\ Table(u, {[r EXCEPT !.classes = {}, !.identified = {}, !.false = {}] :
                    r \in rows}, config)
    /\ risk' = 0
    /\ ruledOut' = {} /\ named' = {}
    /\ UNCHANGED <<config, cached, memory, removed, dropped>>

(***************************************************************************)
(* Config saves                                                            *)
(***************************************************************************)

\* The config is in the table, the cache still has the classes of before.
SaveConfig(s) ==
    /\ s \in Save
    /\ At(s, "idle")
    /\ \E D \in (SUBSET config) \ {{}} :
        /\ config' = config \ D
        /\ known' = [known EXCEPT ![s] = D]
    /\ cached' = cached \cup {config'}
    /\ Goto(s, "fields")
    /\ UNCHANGED <<rows, risk, held, todo, prev, next, history>>

\* cleanupStoredDataClasses reads the rows that have a dropped class, only the
\* lists of them.
ReadDropped(s) ==
    /\ s \in Save
    /\ At(s, "fields")
    /\ LET D == known[s]
       IN Take(s, {[r EXCEPT !.classes = @ \ D, !.identified = @ \ D,
                             !.false = @ \ D] :
                     r \in {q \in rows : q.classes \cap D # {}}})
    /\ Goto(s, "write")
    /\ UNCHANGED <<rows, risk, config, cached, todo, known, prev, next,
                   outdated, ruledOut, removed, dropped, named>>

\* A row that is gone cannot be inserted from its lists: the cleanup fails and
\* the cache is not cleared. A lookup that read the config before it changed
\* may still store the classes of then after the cache is cleared.
CleanUp(s) ==
    /\ s \in Save
    /\ At(s, "write")
    /\ Goto(s, "done")
    /\ IF Ids(held[s]) \subseteq Ids(rows)
       THEN /\ Table(s, {r \in rows : r.id \notin Ids(held[s])}
                 \cup {[w EXCEPT !.key = (CHOOSE r \in rows : r.id = w.id).key] :
                         w \in held[s]}, config)
            /\ ruledOut' = {p \in ruledOut : p[2] \notin known[s]}
            /\ named' = {p \in named : p[1] \in Ids(held[s]) => p[2] \notin known[s]}
            /\ dropped' = dropped \cup known[s]
            /\ cached' \in {{config}, cached}
       ELSE UNCHANGED <<rows, behind, outdated, ruledOut, named, dropped, cached>>
    /\ Forget(s)
    /\ UNCHANGED <<risk, config, removed>>

\* The classes of before the change expire after 30 seconds, also those that a
\* lookup in flight stored.
Expire ==
    /\ cached # {config}
    /\ cached' = {config}
    /\ UNCHANGED <<rows, risk, config, pc, memory, history>>

AnalyzerStep(a) ==
    \/ ReadEndpoint(a) \/ ReadFields(a) \/ LookUp(a)
    \/ Commit(a) \/ FailCommit(a) \/ NextTrace(a)
JobStep(j) ==
    \/ StartDetection(j) \/ TooFewTraces(j) \/ ReadForDetection(j)
    \/ Detect(j) \/ EndDetection(j)
RequestStep(u) == SaveRow(u) \/ DeleteRow(u) \/ ReadRisk(u) \/ SetRisk(u)
SaveStep(s) == ReadDropped(s) \/ CleanUp(s)

Next ==
    \/ \E a \in Analyzer : AnalyzerStep(a)
    \/ \E j \in Job : JobStep(j)
    \/ \E u \in Request :
          RequestStep(u) \/ ReadRow(u) \/ DeleteAll(u) \/ ClearAll(u)
    \/ \E s \in Save : SaveStep(s) \/ SaveConfig(s)
    \/ Expire

Spec == Init /\ [][Next]_vars

\* Traces keep coming and every process goes on; users and jobs need not start.
FairSpec ==
    /\ Spec
    /\ \A a \in Analyzer : WF_vars(AnalyzerStep(a))
    /\ \A j \in Job : WF_vars(Detect(j) \/ EndDetection(j))
    /\ \A u \in Request : WF_vars(RequestStep(u))
    /\ \A s \in Save : WF_vars(SaveStep(s))
    /\ WF_vars(Expire)

(***************************************************************************)
(* Properties                                                              *)
(***************************************************************************)

\* What users decide about a row holds: a class they declared a false positive
\* does not return, and a row they deleted does not, unless an actor wrote the
\* row over what others had written since it read it, or with classes from
\* before the config changed.
RuledOutStaysOut ==
    \A r \in rows : r.id \notin outdated =>
        \A c \in r.classes : <<r.id, c>> \notin ruledOut
RemovedStaysRemoved == Ids(rows) \cap removed \subseteq outdated
DecisionsHold == RuledOutStaysOut /\ RemovedStaysRemoved

\* Once a config save has cleaned a dropped class up, no row has it: it comes
\* back only with a row written from outdated knowledge, or into a row that a
\* user named it for in a request, which no config has to know.
NamedOnly(r, D) == \A c \in r.classes \cap D : <<r.id, c>> \in named
DroppedStaysDropped == \A r \in rows : r.id \notin outdated => NamedOnly(r, dropped)

\* An endpoint has more rows than the limit only if analyzers added some
\* where others had written since they counted.
LimitKept == Cardinality({r \in rows : r.id \notin outdated}) <= Limit

\* The analysis of a trace fails on the unique keys only if others wrote rows
\* since the analyzer read them.
FailureNeedsOverlap ==
    [][\A a \in Analyzer : pc'[a] = "failed" => behind[a] # {} \/ pc[a] = "failed"]_vars

\* When the data fields have come to rest, the analyzers bring the risk score in
\* line with them, whatever was written from outdated knowledge before.
RiskConverges == <>[][rows' = rows]_rows => <>[](risk = RiskOf(rows, config))
=============================================================================
