--------------------------- MODULE AlertLifecycle ---------------------------
(***************************************************************************)
(* Alerts from their creation by analyzers to their resolution by users.   *)
(* An analyzer that notices something asks whether an unresolved alert     *)
(* says so already, and inserts one later, in the transaction of its       *)
(* analysis. A user's request reads the status of alerts, checks that the  *)
(* change is allowed, and writes in a second statement, by uuid.           *)
(*                                                                         *)
(* A subject is an endpoint, a type and a description. A row is named by   *)
(* the detection that inserted it.                                         *)
(***************************************************************************)
EXTENDS Naturals, FiniteSets

CONSTANTS
    Detection,  \* detections by analyzers
    Subject,
    SubjectOf,  \* detection -> its subject
    Request,    \* requests of users
    None        \* no message

ASSUME SubjectAssumption == SubjectOf \in [Detection -> Subject]
ASSUME NoneAssumption == None \notin Request

VARIABLES
    status,   \* row -> status, "none" if there is no such row
    message,  \* row -> resolutionMessage: the request it came with, or None
    dpc,      \* detection -> where the analyzer is
    rpc,      \* request -> where it is
    update,   \* request -> updateType, or None
    batch,    \* request -> it is an updateAlertBatch
    found,    \* request -> the rows it read and will write
    note,     \* request -> the messages of the rows when they were read
    text,     \* request -> its resolutionMessage
    saw,      \* history: detection -> rows on its subject when it asked
    resolved, \* history: detection -> rows on its subject resolved since
    reopened, \* history: rows that were resolved and are no more
    resolver, \* history: row -> the request that resolved it last
    touched   \* history: request -> rows others wrote since it read them

requestVars == <<rpc, update, batch, found, note, text>>
vars == <<status, message, dpc, requestVars, saw, resolved, reopened, resolver,
          touched>>

Status     == {"open", "ignored", "resolved"}
UpdateType == {"ignore", "unignore", "resolve", "unresolve"}
Rows       == {a \in Detection : status[a] # "none"}
Unresolved == {a \in Rows : status[a] # "resolved"}
About(s)   == {a \in Detection : SubjectOf[a] = s}

TypeOK ==
    /\ status \in [Detection -> Status \cup {"none"}]
    /\ message \in [Detection -> Request \cup {None}]
    /\ dpc \in [Detection -> {"ask", "insert", "done", "failed"}]
    /\ rpc \in [Request -> {"start", "write", "done"}]
    /\ update \in [Request -> UpdateType \cup {None}]
    /\ batch \in [Request -> BOOLEAN]
    /\ found \in [Request -> SUBSET Detection]
    /\ note \in [Request -> [Detection -> Request \cup {None}]]
    /\ text \in [Request -> Request \cup {None}]
    /\ saw \in [Detection -> SUBSET Detection]
    /\ resolved \in [Detection -> SUBSET Detection]
    /\ reopened \subseteq Rows
    /\ resolver \in [Detection -> Request \cup {None}]
    /\ touched \in [Request -> SUBSET Detection]
    /\ \A a \in Detection : status[a] # "none" => dpc[a] = "done"
    /\ \A r \in Request : rpc[r] = "write" =>
         update[r] \in UpdateType /\ found[r] # {} /\ found[r] \subseteq Rows

Init ==
    /\ status = [a \in Detection |-> "none"]
    /\ message = [a \in Detection |-> None]
    /\ dpc = [a \in Detection |-> "ask"]
    /\ rpc = [r \in Request |-> "start"]
    /\ update = [r \in Request |-> None]
    /\ batch = [r \in Request |-> FALSE]
    /\ found = [r \in Request |-> {}]
    /\ note = [r \in Request |-> [a \in Detection |-> None]]
    /\ text = [r \in Request |-> None]
    /\ saw = [a \in Detection |-> {}]
    /\ resolved = [a \in Detection |-> {}]
    /\ reopened = {}
    /\ resolver = [a \in Detection |-> None]
    /\ touched = [r \in Request |-> {}]

(***************************************************************************)
(* Analyzers                                                               *)
(***************************************************************************)

\* Mutant: any alert counts, also a resolved one.
ExistingAny(s) == About(s) \cap Rows

\* Mutant: an ignored alert does not count.
ExistingOpen(s) == {a \in About(s) : status[a] = "open"}

\* The alerts that keep a new one from being created.
Existing(s) == About(s) \cap Unresolved

\* Whether there is an unresolved alert is asked before the transaction begins.
Ask(d) ==
    /\ dpc[d] = "ask"
    /\ dpc' = [dpc EXCEPT ![d] =
                 IF Existing(SubjectOf[d]) = {} THEN "insert" ELSE "done"]
    /\ saw' = [saw EXCEPT ![d] = About(SubjectOf[d]) \cap Rows]
    /\ resolved' = [resolved EXCEPT ![d] = {}]
    /\ UNCHANGED <<status, message, requestVars, reopened, resolver, touched>>

\* The transaction commits. Nothing in the table forbids a second alert.
Insert(d) ==
    /\ dpc[d] = "insert"
    /\ dpc' = [dpc EXCEPT ![d] = "done"]
    /\ status' = [status EXCEPT ![d] = "open"]
    /\ UNCHANGED <<message, requestVars, saw, resolved, reopened, resolver,
                   touched>>

\* The question fails and counts as nothing to report, or the transaction is
\* rolled back.
DetectionFails(d) ==
    /\ dpc[d] \in {"ask", "insert"}
    /\ dpc' = [dpc EXCEPT ![d] = "failed"]
    /\ UNCHANGED <<status, message, requestVars, saw, resolved, reopened,
                   resolver, touched>>

(***************************************************************************)
(* Users                                                                   *)
(***************************************************************************)

From(u) == CASE u = "ignore"    -> "open"
             [] u = "unignore"  -> "ignored"
             [] u = "resolve"   -> "open"
             [] u = "unresolve" -> "resolved"

To(u) == CASE u = "ignore"    -> "ignored"
           [] u = "unignore"  -> "open"
           [] u = "resolve"   -> "resolved"
           [] u = "unresolve" -> "open"

\* Mutant: the status is not checked.
AllowedAlways(u, A) == A \cap Rows

\* The alerts the update is allowed for. An alert that is ignored must not be
\* resolved, nor one that is resolved be ignored.
Allowed(u, A) == {a \in A : status[a] = From(u)}

\* What a batch may be asked for: one alert by uuid, or the alerts of some
\* subjects by type, host, endpoint or score.
Filters == {{a} : a \in Detection}
           \cup {UNION {About(s) : s \in S} : S \in SUBSET Subject \ {{}}}

Read(r, u, A) ==
    /\ rpc[r] = "start" /\ Allowed(u, A) # {}
    /\ update' = [update EXCEPT ![r] = u]
    /\ found' = [found EXCEPT ![r] = Allowed(u, A)]
    /\ note' = [note EXCEPT ![r] = message]
    /\ \E t \in IF u = "resolve" THEN {r, None} ELSE {None} :
           text' = [text EXCEPT ![r] = t]
    /\ rpc' = [rpc EXCEPT ![r] = "write"]
    /\ UNCHANGED <<status, message, dpc, saw, resolved, reopened, resolver,
                   touched>>

\* updateAlert.
ReadOne(r) ==
    /\ \E u \in UpdateType, a \in Detection : Read(r, u, {a})
    /\ batch' = [batch EXCEPT ![r] = FALSE]

\* updateAlertBatch.
ReadBatch(r) ==
    /\ \E u \in UpdateType, A \in Filters : Read(r, u, A)
    /\ batch' = [batch EXCEPT ![r] = TRUE]

\* A conflict ends the request, as does the syntax error that an update of no
\* alert is.
Conflict(r) ==
    /\ rpc[r] = "start"
    /\ \E u \in UpdateType, A \in Filters : Allowed(u, A) = {}
    /\ rpc' = [rpc EXCEPT ![r] = "done"]
    /\ UNCHANGED <<status, message, dpc, update, batch, found, note, text, saw,
                   resolved, reopened, resolver, touched>>

\* Mutant: the message that was read is written also by a resolve.
MessageAsRead(r, a) == note[r][a]

\* The message is part of every update of one alert, as it was read unless the
\* alert is resolved; a batch sets it only when it resolves.
MessageAfter(r, a) ==
    CASE update[r] = "resolve" -> text[r]
      [] update[r] # "resolve" /\ ~batch[r] -> note[r][a]
      [] OTHER -> message[a]

\* The request ends, and what it read is gone.
Forget(r) ==
    /\ update' = [update EXCEPT ![r] = None]
    /\ batch' = [batch EXCEPT ![r] = FALSE]
    /\ found' = [found EXCEPT ![r] = {}]
    /\ note' = [note EXCEPT ![r] = [a \in Detection |-> None]]

\* The update is by uuid, whatever the status is by now.
Write(r) ==
    LET s == To(update[r])
        F == found[r]
    IN  /\ rpc[r] = "write"
        /\ status' = [a \in Detection |-> IF a \in F THEN s ELSE status[a]]
        /\ message' = [a \in Detection |->
                         IF a \in F THEN MessageAfter(r, a) ELSE message[a]]
        /\ rpc' = [rpc EXCEPT ![r] = "done"]
        /\ resolved' = [d \in Detection |->
                          IF s = "resolved"
                          THEN resolved[d] \cup (F \cap About(SubjectOf[d]))
                          ELSE resolved[d]]
        /\ reopened' = IF s = "resolved" THEN reopened
                       ELSE reopened \cup {a \in F : status[a] = "resolved"}
        /\ resolver' = [a \in Detection |->
                          IF s = "resolved" /\ a \in F THEN r ELSE resolver[a]]
        /\ touched' = [q \in Request |->
                         IF rpc[q] = "write" /\ q # r THEN touched[q] \cup F ELSE {}]
        /\ Forget(r)
        /\ UNCHANGED <<dpc, text, saw>>

\* A statement fails.
RequestFails(r) ==
    /\ rpc[r] = "write"
    /\ rpc' = [rpc EXCEPT ![r] = "done"]
    /\ touched' = [touched EXCEPT ![r] = {}]
    /\ Forget(r)
    /\ UNCHANGED <<status, message, dpc, text, saw, resolved, reopened, resolver>>

Next == \/ \E d \in Detection : Ask(d) \/ Insert(d) \/ DetectionFails(d)
        \/ \E r \in Request : \/ ReadOne(r) \/ ReadBatch(r) \/ Conflict(r)
                             \/ Write(r) \/ RequestFails(r)

Spec == Init /\ [][Next]_vars

(***************************************************************************)
(* Properties                                                              *)
(***************************************************************************)

\* Two unresolved alerts say the same only if neither analyzer could see the
\* alert of the other when it asked, or if one of them had been resolved and
\* was reopened.
DuplicatesExplained ==
    \A d, e \in Unresolved :
        d # e /\ SubjectOf[d] = SubjectOf[e] =>
            \/ d \notin saw[e] /\ e \notin saw[d]
            \/ {d, e} \cap reopened # {}

\* What an analyzer noticed is reported: by an alert that is unresolved, or that
\* a user resolved after the analyzer had asked.
NothingOverlooked ==
    \A d \in Detection : dpc[d] = "done" =>
        About(SubjectOf[d]) \cap (Unresolved \cup resolved[d]) # {}

\* A resolved alert has the message of the request that resolved it last, and of
\* no other, whatever other requests wrote in between.
MessageOfResolver ==
    \A a \in Rows : status[a] = "resolved" =>
        resolver[a] # None /\ message[a] = text[resolver[a]]

Writes(r, a)    == rpc[r] = "write" /\ rpc'[r] = "done" /\ a \in found[r]
Contested(a)    == \E r \in Request : Writes(r, a) /\ a \in touched[r]
Moves(a)        == a \in Rows /\ status'[a] # status[a]
LegalMove(a)    == \E u \in UpdateType : status[a] = From(u) /\ status'[a] = To(u)

\* An alert makes only the moves the API allows, unless another request wrote it
\* between the check and the update.
LegalUnlessContested ==
    [][\A a \in Detection : Moves(a) => LegalMove(a) \/ Contested(a)]_vars
=============================================================================
