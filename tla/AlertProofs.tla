---------------------------- MODULE AlertProofs ----------------------------
(***************************************************************************)
(* Proofs about AlertLifecycle, then about Webhooks. Of the first: type    *)
(* correctness, that duplicates have an explanation, and that nothing an   *)
(* analyzer noticed is overlooked. Of the second: type correctness, that   *)
(* the lists of runs are true, which runs may be lost from them, and that  *)
(* no webhook is left out.                                                 *)
(***************************************************************************)
EXTENDS AlertLifecycle, Webhooks, TLAPS


\* The two outcomes of an update, for the steps below.
LEMMA ToResolved ==
    ASSUME NEW u \in UpdateType
    PROVE  /\ To(u) \in Status
           /\ From(u) \in Status
           /\ To(u) = "resolved" <=> u = "resolve"
BY DEF UpdateType, To, From, Status

\* A message that is written is one that was read, or that of the request.
LEMMA MessageAfterType ==
    ASSUME TypeOK, NEW r \in Request, NEW a \in Detection
    PROVE  MessageAfter(r, a) \in Request \cup {None}
<1>1. CASE update[r] = "resolve"
  BY <1>1 DEF TypeOK, MessageAfter
<1>2. CASE update[r] # "resolve" /\ ~batch[r]
  BY <1>2 DEF TypeOK, MessageAfter
<1>3. CASE update[r] # "resolve" /\ batch[r]
  BY <1>3 DEF TypeOK, MessageAfter
<1> QED
  BY <1>1, <1>2, <1>3 DEF TypeOK

\* Rows never leave the table.
LEMMA RowsStay ==
    ASSUME TypeOK, NEW r \in Request, Write(r)
    PROVE  /\ update[r] \in UpdateType
           /\ found[r] \subseteq Detection
           /\ \A a \in found[r] : status[a] # "none" /\ status'[a] = To(update[r])
           /\ \A a \in Detection \ found[r] : status'[a] = status[a]
           /\ \A a \in Detection : status'[a] # "none" <=> status[a] # "none"
<1>1. /\ update[r] \in UpdateType /\ found[r] \subseteq Detection
      /\ \A a \in found[r] : status[a] # "none"
  BY DEF Write, TypeOK, Rows
<1>2. To(update[r]) # "none"
  BY <1>1, ToResolved DEF Status
<1> QED
  BY <1>1, <1>2 DEF Write

LEMMA TypeStep == ASSUME TypeOK, [Next]_vars PROVE TypeOK'
<1>1. CASE UNCHANGED vars
  BY <1>1 DEF vars, requestVars, TypeOK, Rows
<1>2. ASSUME NEW d \in Detection, Ask(d)  PROVE TypeOK'
  BY <1>2 DEF Ask, TypeOK, Rows, requestVars
<1>3. ASSUME NEW d \in Detection, Insert(d)  PROVE TypeOK'
  BY <1>3 DEF Insert, TypeOK, Rows, requestVars, Status
<1>4. ASSUME NEW d \in Detection, DetectionFails(d)  PROVE TypeOK'
  BY <1>4 DEF DetectionFails, TypeOK, Rows, requestVars
<1>5. ASSUME NEW r \in Request, NEW u \in UpdateType, NEW A \in SUBSET Detection,
             NEW b \in BOOLEAN, Read(r, u, A), batch' = [batch EXCEPT ![r] = b]
      PROVE  TypeOK'
  <2>1. Allowed(u, A) \subseteq Rows
    BY ToResolved DEF Allowed, Rows, Status
  <2>2. /\ found' \in [Request -> SUBSET Detection]
        /\ rpc' \in [Request -> {"start", "write", "done"}]
        /\ update' \in [Request -> UpdateType \cup {None}]
        /\ batch' \in [Request -> BOOLEAN]
        /\ note' \in [Request -> [Detection -> Request \cup {None}]]
        /\ text' \in [Request -> Request \cup {None}]
    BY <1>5, <2>1 DEF Read, TypeOK, Rows
  <2>3. \A q \in Request : rpc'[q] = "write" =>
          update'[q] \in UpdateType /\ found'[q] # {} /\ found'[q] \subseteq Rows'
    BY <1>5, <2>1 DEF Read, TypeOK, Rows
  <2> QED
    BY <1>5, <2>2, <2>3 DEF Read, TypeOK, Rows
<1>6. ASSUME NEW r \in Request, ReadOne(r)  PROVE TypeOK'
  BY <1>5, <1>6 DEF ReadOne
<1>7. ASSUME NEW r \in Request, ReadBatch(r)  PROVE TypeOK'
  <2>1. Filters \subseteq SUBSET Detection
    BY DEF Filters, About
  <2> QED
    BY <1>5, <1>7, <2>1 DEF ReadBatch
<1>8. ASSUME NEW r \in Request, Write(r)  PROVE TypeOK'
  <2> DEFINE s == To(update[r])
             F == found[r]
  <2>1. /\ update[r] \in UpdateType /\ F \subseteq Detection
        /\ \A a \in Detection : status'[a] # "none" <=> status[a] # "none"
    BY <1>8, RowsStay
  <2>2. s \in Status
    BY <2>1, ToResolved
  <2>3. status' \in [Detection -> Status \cup {"none"}]
    BY <1>8, <2>2 DEF Write, TypeOK
  <2>4. message' \in [Detection -> Request \cup {None}]
    BY <1>8, MessageAfterType DEF Write, TypeOK
  <2>5. /\ rpc' \in [Request -> {"start", "write", "done"}]
        /\ resolved' \in [Detection -> SUBSET Detection]
        /\ resolver' \in [Detection -> Request \cup {None}]
        /\ touched' \in [Request -> SUBSET Detection]
    BY <1>8, <2>1 DEF Write, TypeOK
  <2>9. /\ update' \in [Request -> UpdateType \cup {None}]
        /\ batch' \in [Request -> BOOLEAN]
        /\ found' \in [Request -> SUBSET Detection]
        /\ note' \in [Request -> [Detection -> Request \cup {None}]]
        /\ dpc' = dpc /\ text' = text /\ saw' = saw
    BY <1>8 DEF Write, Forget, TypeOK
  <2>6. Rows' = Rows /\ Rows \subseteq Detection
    BY <2>1 DEF Rows
  <2>7. reopened' \subseteq Rows'
    <3>1. \A a \in F : status[a] = "resolved" => a \in Rows
      BY <2>1 DEF Rows
    <3> QED
      BY <1>8, <2>6, <3>1 DEF Write, TypeOK
  <2>8. \A q \in Request : rpc'[q] = "write" =>
          update'[q] \in UpdateType /\ found'[q] # {} /\ found'[q] \subseteq Rows'
    BY <1>8, <2>6 DEF Write, Forget, TypeOK
  <2> QED
    BY <1>8, <2>1, <2>3, <2>4, <2>5, <2>7, <2>8, <2>9 DEF TypeOK
<1>9. ASSUME NEW r \in Request, RequestFails(r)  PROVE TypeOK'
  BY <1>9 DEF RequestFails, Forget, TypeOK, Rows
<1>10. ASSUME NEW r \in Request, Conflict(r)  PROVE TypeOK'
  BY <1>10 DEF Conflict, TypeOK, Rows
<1> QED
  BY <1>1, <1>2, <1>3, <1>4, <1>6, <1>7, <1>8, <1>9, <1>10 DEF Next

LEMMA TypeInit == Init => TypeOK
BY DEF Init, TypeOK, Rows

\* Every variable keeps its type, requests write only rows that exist, and rows
\* belong to detections that are done.
THEOREM TypeCorrect == Spec => []TypeOK
BY TypeInit, TypeStep, PTL DEF Spec

(***************************************************************************)
(* Duplicates                                                              *)
(***************************************************************************)

\* An alert on the subject of d that was there when d asked was resolved then,
\* and has been reopened if it is not resolved now.
SeenResolved(d) ==
    (dpc[d] = "insert" \/ status[d] # "none") =>
        \A e \in saw[d] : SubjectOf[e] = SubjectOf[d] =>
            status[e] = "resolved" \/ e \in reopened

DuplicatesInv == TypeOK /\ \A d \in Detection : SeenResolved(d)

LEMMA DuplicatesInvInit == Init => DuplicatesInv
BY TypeInit DEF Init, DuplicatesInv, SeenResolved

LEMMA DuplicatesInvStep == ASSUME DuplicatesInv, [Next]_vars PROVE DuplicatesInv'
<1> USE DEF DuplicatesInv
<1>0. TypeOK'
  BY TypeStep
<1> SUFFICES ASSUME NEW d \in Detection  PROVE SeenResolved(d)'
  BY <1>0
<1>1. CASE UNCHANGED vars
  BY <1>1 DEF vars, SeenResolved
<1>2. ASSUME NEW e \in Detection, Ask(e)  PROVE SeenResolved(d)'
  <2>1. CASE e = d
    <3>1. status[d] = "none"
      BY <1>2, <2>1 DEF Ask, TypeOK
    <3>2. CASE Existing(SubjectOf[d]) = {}
      BY <1>2, <2>1, <3>2 DEF Ask, SeenResolved, Existing, About, Unresolved, Rows, TypeOK
    <3>3. CASE Existing(SubjectOf[d]) # {}
      BY <1>2, <2>1, <3>1, <3>3 DEF Ask, SeenResolved, TypeOK
    <3> QED
      BY <3>2, <3>3
  <2>2. CASE e # d
    BY <1>2, <2>2 DEF Ask, SeenResolved, TypeOK
  <2> QED
    BY <2>1, <2>2
<1>3. ASSUME NEW e \in Detection, Insert(e)  PROVE SeenResolved(d)'
  <2>1. status[e] = "none" /\ e \notin reopened
    BY <1>3 DEF Insert, TypeOK, Rows
  <2>2. SeenResolved(d) /\ saw[d] \subseteq Detection
    BY DEF TypeOK
  <2> QED
    BY <1>3, <2>1, <2>2 DEF Insert, SeenResolved, TypeOK
<1>4. ASSUME NEW e \in Detection, DetectionFails(e)  PROVE SeenResolved(d)'
  BY <1>4 DEF DetectionFails, SeenResolved, TypeOK
<1>5. ASSUME NEW r \in Request, ReadOne(r) \/ ReadBatch(r)  PROVE SeenResolved(d)'
  BY <1>5 DEF ReadOne, ReadBatch, Read, SeenResolved
<1>6. ASSUME NEW r \in Request, Write(r)  PROVE SeenResolved(d)'
  <2>1. /\ update[r] \in UpdateType
        /\ \A a \in found[r] : status'[a] = To(update[r])
        /\ \A a \in Detection \ found[r] : status'[a] = status[a]
        /\ status'[d] # "none" <=> status[d] # "none"
    BY <1>6, RowsStay
  <2>2. SeenResolved(d) /\ saw[d] \subseteq Detection
    BY DEF TypeOK
  <2>3. reopened \subseteq reopened'
    BY <1>6 DEF Write
  <2>4. ASSUME NEW e \in saw[d], status[e] = "resolved", status'[e] # "resolved"
        PROVE  e \in reopened'
    BY <1>6, <2>1, <2>2, <2>4 DEF Write
  <2>5. dpc' = dpc /\ saw' = saw
    BY <1>6 DEF Write
  <2> QED
    BY <2>1, <2>2, <2>3, <2>4, <2>5 DEF SeenResolved
<1>7. ASSUME NEW r \in Request, RequestFails(r)  PROVE SeenResolved(d)'
  BY <1>7 DEF RequestFails, SeenResolved
<1>8. ASSUME NEW r \in Request, Conflict(r)  PROVE SeenResolved(d)'
  BY <1>8 DEF Conflict, SeenResolved
<1> QED
  BY <1>1, <1>2, <1>3, <1>4, <1>5, <1>6, <1>7, <1>8 DEF Next

\* Two unresolved alerts that say the same come from analyzers that overlapped,
\* or one of them was resolved and reopened: for any number of analyzers,
\* subjects and requests.
THEOREM DuplicatesHaveCause == Spec => []DuplicatesExplained
<1>1. DuplicatesInv => DuplicatesExplained
  BY DEF DuplicatesInv, DuplicatesExplained, SeenResolved, Unresolved, Rows
<1> QED
  BY <1>1, DuplicatesInvInit, DuplicatesInvStep, PTL DEF Spec

(***************************************************************************)
(* Nothing overlooked                                                      *)
(***************************************************************************)

Reported(d) ==
    dpc[d] = "done" =>
        \E a \in Detection :
            /\ SubjectOf[a] = SubjectOf[d]
            /\ status[a] \in {"open", "ignored"} \/ a \in resolved[d]

ReportedInv == TypeOK /\ \A d \in Detection : Reported(d)

LEMMA ReportedInvStep == ASSUME ReportedInv, [Next]_vars PROVE ReportedInv'
<1> USE DEF ReportedInv
<1>0. TypeOK'
  BY TypeStep
<1> SUFFICES ASSUME NEW d \in Detection  PROVE Reported(d)'
  BY <1>0
<1>1. CASE UNCHANGED vars
  BY <1>1 DEF vars, Reported
<1>2. ASSUME NEW e \in Detection, Ask(e)  PROVE Reported(d)'
  <2>1. CASE e = d /\ Existing(SubjectOf[d]) # {}
    <3>1. PICK a \in Detection : SubjectOf[a] = SubjectOf[d] /\ status[a] \in {"open", "ignored"}
      BY <2>1 DEF Existing, About, Unresolved, Rows, TypeOK, Status
    <3> QED
      BY <1>2, <3>1 DEF Ask, Reported
  <2>2. CASE e = d /\ Existing(SubjectOf[d]) = {}
    BY <1>2, <2>2 DEF Ask, Reported, TypeOK
  <2>3. CASE e # d
    BY <1>2, <2>3 DEF Ask, Reported, TypeOK
  <2> QED
    BY <2>1, <2>2, <2>3
<1>3. ASSUME NEW e \in Detection, Insert(e)  PROVE Reported(d)'
  <2>1. CASE e = d
    BY <1>3, <2>1 DEF Insert, Reported, TypeOK
  <2>2. CASE e # d /\ dpc[d] = "done"
    <3>1. PICK a \in Detection :
            /\ SubjectOf[a] = SubjectOf[d]
            /\ status[a] \in {"open", "ignored"} \/ a \in resolved[d]
      BY <2>2 DEF Reported
    <3> QED
      BY <1>3, <3>1 DEF Insert, Reported, TypeOK
  <2>3. CASE e # d /\ dpc[d] # "done"
    BY <1>3, <2>3 DEF Insert, Reported, TypeOK
  <2> QED
    BY <2>1, <2>2, <2>3
<1>4. ASSUME NEW e \in Detection, DetectionFails(e)  PROVE Reported(d)'
  BY <1>4 DEF DetectionFails, Reported, TypeOK
<1>5. ASSUME NEW r \in Request, ReadOne(r) \/ ReadBatch(r)  PROVE Reported(d)'
  BY <1>5 DEF ReadOne, ReadBatch, Read, Reported
<1>6. ASSUME NEW r \in Request, Write(r)  PROVE Reported(d)'
  <2> SUFFICES ASSUME dpc[d] = "done"
               PROVE  \E a \in Detection :
                        /\ SubjectOf[a] = SubjectOf[d]
                        /\ status'[a] \in {"open", "ignored"} \/ a \in resolved'[d]
    BY <1>6 DEF Write, Reported
  <2>1. PICK a \in Detection :
          /\ SubjectOf[a] = SubjectOf[d]
          /\ status[a] \in {"open", "ignored"} \/ a \in resolved[d]
    BY DEF Reported
  <2>2. /\ update[r] \in UpdateType
        /\ a \in found[r] => status'[a] = To(update[r])
        /\ a \notin found[r] => status'[a] = status[a]
    BY <1>6, RowsStay
  <2>3. resolved[d] \subseteq resolved'[d]
    BY <1>6 DEF Write, TypeOK
  <2>4. a \in found[r] /\ To(update[r]) = "resolved" => a \in resolved'[d]
    BY <1>6, <2>1 DEF Write, TypeOK, About
  <2>5. To(update[r]) \in {"open", "ignored", "resolved"}
    BY <2>2, ToResolved DEF Status
  <2> QED
    BY <2>1, <2>2, <2>3, <2>4, <2>5
<1>7. ASSUME NEW r \in Request, RequestFails(r)  PROVE Reported(d)'
  BY <1>7 DEF RequestFails, Reported
<1>8. ASSUME NEW r \in Request, Conflict(r)  PROVE Reported(d)'
  BY <1>8 DEF Conflict, Reported
<1> QED
  BY <1>1, <1>2, <1>3, <1>4, <1>5, <1>6, <1>7, <1>8 DEF Next

\* Whatever an analyzer noticed without an error is told by an alert that is
\* unresolved, or that a user resolved after the analyzer had asked for it.
THEOREM NothingIsOverlooked == Spec => []NothingOverlooked
<1>1. Init => ReportedInv
  BY TypeInit DEF Init, ReportedInv, Reported
<1>2. ReportedInv => NothingOverlooked
  <2> SUFFICES ASSUME ReportedInv, NEW d \in Detection, dpc[d] = "done"
               PROVE  About(SubjectOf[d]) \cap (Unresolved \cup resolved[d]) # {}
    BY DEF NothingOverlooked
  <2>1. PICK a \in Detection :
          /\ SubjectOf[a] = SubjectOf[d]
          /\ status[a] \in {"open", "ignored"} \/ a \in resolved[d]
    BY DEF ReportedInv, Reported
  <2>2. a \in About(SubjectOf[d])
    BY <2>1 DEF About
  <2>3. a \in Unresolved \cup resolved[d]
    BY <2>1 DEF Unresolved, Rows
  <2> QED
    BY <2>2, <2>3
<1> QED
  BY <1>1, <1>2, ReportedInvStep, PTL DEF Spec

(***************************************************************************)
(* Moves                                                                   *)
(***************************************************************************)

\* What a request has checked still holds for the alerts no other has written.
CheckHolds(r) ==
    rpc[r] = "write" =>
        \A a \in found[r] \ touched[r] : status[a] = From(update[r])

ChecksInv == TypeOK /\ \A r \in Request : CheckHolds(r)

LEMMA ChecksInvStep == ASSUME ChecksInv, [Next]_vars PROVE ChecksInv'
<1> USE DEF ChecksInv
<1>0. TypeOK'
  BY TypeStep
<1> SUFFICES ASSUME NEW r \in Request  PROVE CheckHolds(r)'
  BY <1>0
<1>1. CASE UNCHANGED vars
  BY <1>1 DEF vars, requestVars, CheckHolds
<1>2. ASSUME NEW d \in Detection, Ask(d) \/ DetectionFails(d)  PROVE CheckHolds(r)'
  BY <1>2 DEF Ask, DetectionFails, requestVars, CheckHolds
<1>3. ASSUME NEW d \in Detection, Insert(d)  PROVE CheckHolds(r)'
  <2>1. status[d] = "none"
    BY <1>3 DEF Insert, TypeOK
  <2>2. rpc[r] = "write" => d \notin found[r] /\ found[r] \subseteq Detection
    BY <2>1 DEF TypeOK, Rows
  <2> QED
    BY <1>3, <2>2 DEF Insert, requestVars, CheckHolds, TypeOK
<1>4. ASSUME NEW q \in Request, NEW u \in UpdateType, NEW A \in SUBSET Detection,
             Read(q, u, A)
      PROVE  CheckHolds(r)'
  <2>1. CASE q = r
    BY <1>4, <2>1 DEF Read, CheckHolds, Allowed, TypeOK
  <2>2. CASE q # r
    BY <1>4, <2>2 DEF Read, CheckHolds, TypeOK
  <2> QED
    BY <2>1, <2>2
<1>5. ASSUME NEW q \in Request, ReadOne(q)  PROVE CheckHolds(r)'
  BY <1>4, <1>5 DEF ReadOne
<1>6. ASSUME NEW q \in Request, ReadBatch(q)  PROVE CheckHolds(r)'
  <2>1. Filters \subseteq SUBSET Detection
    BY DEF Filters, About
  <2> QED
    BY <1>4, <1>6, <2>1 DEF ReadBatch
<1>7. ASSUME NEW q \in Request, Write(q)  PROVE CheckHolds(r)'
  <2>1. CASE q = r
    BY <1>7, <2>1 DEF Write, CheckHolds, TypeOK
  <2>2. CASE q # r /\ rpc[r] = "write"
    <3>1. /\ rpc'[r] = "write" /\ found'[r] = found[r] /\ update'[r] = update[r]
          /\ touched'[r] = touched[r] \cup found[q]
      BY <1>7, <2>2 DEF Write, Forget, TypeOK
    <3>2. /\ found[r] \subseteq Detection
          /\ \A a \in Detection \ found[q] : status'[a] = status[a]
      BY <1>7, RowsStay DEF TypeOK
    <3> QED
      BY <2>2, <3>1, <3>2 DEF CheckHolds
  <2>3. CASE q # r /\ rpc[r] # "write"
    BY <1>7, <2>3 DEF Write, CheckHolds, TypeOK
  <2> QED
    BY <2>1, <2>2, <2>3
<1>8. ASSUME NEW q \in Request, RequestFails(q) \/ Conflict(q)  PROVE CheckHolds(r)'
  <2>1. CASE q = r
    BY <1>8, <2>1 DEF RequestFails, Conflict, CheckHolds, TypeOK
  <2>2. CASE q # r
    BY <1>8, <2>2 DEF RequestFails, Conflict, Forget, CheckHolds, TypeOK
  <2> QED
    BY <2>1, <2>2
<1> QED
  BY <1>1, <1>2, <1>3, <1>5, <1>6, <1>7, <1>8 DEF Next

\* Every move of an alert is one the API allows, or another request wrote the
\* alert between the check and the update: for any number of requests, alerts
\* and filters.
THEOREM MovesAreLegal == Spec => LegalUnlessContested
<1>1. Init => ChecksInv
  BY TypeInit DEF Init, ChecksInv, CheckHolds
<1>2. ASSUME ChecksInv, [Next]_vars
      PROVE  [\A a \in Detection : Moves(a) => LegalMove(a) \/ Contested(a)]_vars
  <2> SUFFICES ASSUME Next, NEW a \in Detection, Moves(a)
               PROVE  LegalMove(a) \/ Contested(a)
    BY <1>2
  <2>1. ASSUME NEW d \in Detection, Ask(d) \/ DetectionFails(d)  PROVE FALSE
    BY <2>1 DEF Ask, DetectionFails, Moves
  <2>2. ASSUME NEW d \in Detection, Insert(d)  PROVE FALSE
    BY <1>2, <2>2 DEF Insert, Moves, Rows, ChecksInv, TypeOK
  <2>3. ASSUME NEW r \in Request,
               ReadOne(r) \/ ReadBatch(r) \/ Conflict(r) \/ RequestFails(r)
        PROVE  FALSE
    BY <2>3 DEF ReadOne, ReadBatch, Read, Conflict, RequestFails, Moves
  <2>4. ASSUME NEW r \in Request, Write(r)  PROVE LegalMove(a) \/ Contested(a)
    <3>1. /\ update[r] \in UpdateType /\ a \in found[r]
          /\ status'[a] = To(update[r])
      BY <1>2, <2>4, RowsStay DEF ChecksInv, Moves
    <3>2. rpc[r] = "write" /\ rpc'[r] = "done"
      BY <1>2, <2>4 DEF Write, ChecksInv, TypeOK
    <3>3. CASE a \in touched[r]
      BY <3>1, <3>2, <3>3 DEF Contested, Writes
    <3>4. CASE a \notin touched[r]
      BY <1>2, <3>1, <3>2, <3>4 DEF ChecksInv, CheckHolds, LegalMove
    <3> QED
      BY <3>3, <3>4
  <2> QED
    BY <2>1, <2>2, <2>3, <2>4 DEF Next
<1> QED
  BY <1>1, <1>2, ChecksInvStep, PTL DEF Spec, LegalUnlessContested

(***************************************************************************)
(* Messages                                                                *)
(***************************************************************************)

\* The request that resolved an alert last is over, so that its text stays.
OwnMessage(a) ==
    status[a] = "resolved" =>
        /\ resolver[a] \in Request
        /\ rpc[resolver[a]] = "done"
        /\ message[a] = text[resolver[a]]

MessagesInv == TypeOK /\ \A a \in Detection : OwnMessage(a)

LEMMA MessagesInvStep == ASSUME MessagesInv, [Next]_vars PROVE MessagesInv'
<1> USE DEF MessagesInv
<1>0. TypeOK'
  BY TypeStep
<1> SUFFICES ASSUME NEW a \in Detection  PROVE OwnMessage(a)'
  BY <1>0
<1>1. CASE UNCHANGED vars
  BY <1>1 DEF vars, requestVars, OwnMessage
<1>2. ASSUME NEW d \in Detection, Ask(d) \/ DetectionFails(d)  PROVE OwnMessage(a)'
  BY <1>2 DEF Ask, DetectionFails, requestVars, OwnMessage
<1>3. ASSUME NEW d \in Detection, Insert(d)  PROVE OwnMessage(a)'
  BY <1>3 DEF Insert, requestVars, OwnMessage, TypeOK
<1>4. ASSUME NEW r \in Request, ReadOne(r) \/ ReadBatch(r)  PROVE OwnMessage(a)'
  <2>0. Filters \subseteq SUBSET Detection
    BY DEF Filters, About
  <2>1. PICK u \in UpdateType, A \in SUBSET Detection : Read(r, u, A)
    <3>1. CASE ReadOne(r)
      BY <3>1 DEF ReadOne
    <3>2. CASE ReadBatch(r)
      BY <2>0, <3>2 DEF ReadBatch
    <3> QED
      BY <1>4, <3>1, <3>2
  <2>2. /\ rpc[r] = "start"
        /\ status' = status /\ message' = message /\ resolver' = resolver
        /\ \A q \in Request \ {r} : rpc'[q] = rpc[q] /\ text'[q] = text[q]
    BY <2>1 DEF Read, TypeOK
  <2> QED
    BY <2>2 DEF OwnMessage
<1>5. ASSUME NEW r \in Request, Write(r)  PROVE OwnMessage(a)'
  <2>1. /\ update[r] \in UpdateType
        /\ a \in found[r] => status'[a] = To(update[r])
        /\ a \notin found[r] => status'[a] = status[a]
    BY <1>5, RowsStay
  <2>2. /\ text' = text /\ rpc' = [rpc EXCEPT ![r] = "done"]
    BY <1>5 DEF Write
  <2>3. CASE a \notin found[r]
    BY <1>5, <2>1, <2>2, <2>3 DEF Write, OwnMessage, TypeOK
  <2>4. CASE a \in found[r] /\ update[r] = "resolve"
    BY <1>5, <2>1, <2>2, <2>4, ToResolved DEF Write, OwnMessage, MessageAfter, TypeOK
  <2>5. CASE a \in found[r] /\ update[r] # "resolve"
    BY <2>1, <2>5, ToResolved DEF OwnMessage
  <2> QED
    BY <2>3, <2>4, <2>5
<1>6. ASSUME NEW r \in Request, RequestFails(r) \/ Conflict(r)  PROVE OwnMessage(a)'
  BY <1>6 DEF RequestFails, Conflict, OwnMessage, TypeOK
<1> QED
  BY <1>1, <1>2, <1>3, <1>4, <1>5, <1>6 DEF Next

\* A resolved alert shows the message of the request that resolved it last, for
\* any number of requests and alerts.
THEOREM MessagesAreOwn == Spec => []MessageOfResolver
<1>1. Init => MessagesInv
  BY TypeInit DEF Init, MessagesInv, OwnMessage
<1>2. MessagesInv => MessageOfResolver
  BY NoneAssumption DEF MessagesInv, MessageOfResolver, OwnMessage, Rows
<1> QED
  BY <1>1, <1>2, MessagesInvStep, PTL DEF Spec

(***************************************************************************)
(* Webhooks: the inductive invariant                                       *)
(***************************************************************************)

Posting == {"post", "record", "recordBad"}
Written == [run : Run, seen : Nat]

HookTypes ==
    /\ WebhooksTypeOK
    /\ written \in [Webhook -> Seq(Written)]
    /\ \A s \in Sender, w \in Webhook : Len(snap[s][w].runs) <= MaxRuns
    /\ \A s \in Sender : pc[s] \in Posting => hook[s] \in Webhook

\* s has yet to record its alert i with w.
Ahead(s, i, w) ==
    \/ i > no[s]
    \/ /\ i = no[s]
       /\ \/ pc[s] = "read"
          \/ w \in todo[s]
          \/ pc[s] \in Posting /\ hook[s] = w

\* The list R of w shows as ok what arrived, shows nothing twice, and nothing that
\* is still to be recorded.
Honest(R, w) ==
    /\ \A k \in 1..Len(R) : R[k].ok => <<R[k].alert, w>> \in accepted
    /\ \A j, k \in 1..Len(R) : R[j].alert = R[k].alert => j = k
    /\ \A s \in Sender : \A i \in 1..Len(AlertsOf[s]) :
          Ahead(s, i, w) => \A k \in 1..Len(R) : R[k].alert # AlertsOf[s][i]

\* The lists of runs of w, in the table and in the memory of senders.
Lists(w) == {runs[w]} \cup {snap[s][w].runs : s \in Sender}

HonestInv ==
    /\ \A w \in Webhook : \A R \in Lists(w) : Honest(R, w)
    /\ \A s \in Sender : pc[s] = "record" => Pair(s) \in accepted
    /\ \A s \in Sender : pc[s] \in Posting => hook[s] \notin todo[s]

\* Of the v.seen runs of w that were written when the list v.runs was read, each
\* is shown, with no more runs behind it than were written after it, or was pushed
\* out, or was overwritten by a sender that had read the list before.
Accounted(v, w) ==
    \A i \in 1..v.seen :
       \/ \E k \in 1..Len(v.runs) :
             v.runs[k] = written[w][i].run /\ Len(v.runs) - k <= v.seen - i
       \/ v.seen - i >= MaxRuns
       \/ \E j \in 1..v.seen : j > i /\ written[w][j].seen < i

Views(w) == {snap[s][w] : s \in Sender}
              \cup {v \in {[runs |-> runs[w], seen |-> Len(written[w])]} : w \in rows}

LostInv == \A w \in Webhook : \A v \in Views(w) :
    v.seen <= Len(written[w]) /\ Accounted(v, w)

\* What was read for the alert at hand and not tried yet.
Remaining(s) == {<<Current(s), w>> : w \in todo[s] \cup {v \in {hook[s]} : pc[s] = "post"}}

Sent(s) ==
    /\ pc[s] = "read" => todo[s] = {}
    /\ pc[s] \in Posting => Pair(s) \in chosen[s]
    /\ \A w \in todo[s] : <<Current(s), w>> \in chosen[s]
    /\ tried[s] \subseteq chosen[s]
    /\ pc[s] # "done" => chosen[s] \subseteq tried[s] \cup Remaining(s)
    /\ pc[s] = "done" /\ ~failed[s] =>
          chosen[s] \subseteq tried[s] /\ no[s] >= Len(AlertsOf[s])

SentInv == \A s \in Sender : Sent(s)

(***************************************************************************)
(* Webhooks: types                                                         *)
(***************************************************************************)

LEMMA CurrentAlert ==
    ASSUME HookTypes, NEW s \in Sender, pc[s] # "done"
    PROVE  /\ no[s] \in 1..Len(AlertsOf[s]) /\ Len(AlertsOf[s]) \in Nat
           /\ Current(s) \in Alert
<1>1. pc[s] \in {"read", "next", "post", "record", "recordBad"} /\ no[s] \in Nat \ {0}
  BY DEF HookTypes, WebhooksTypeOK, PC
<1>2. no[s] <= Len(AlertsOf[s])
  BY <1>1 DEF HookTypes, WebhooksTypeOK
<1>3. AlertsOf[s] \in Seq(Alert)
  BY AlertAssumption
<1>4. Len(AlertsOf[s]) \in Nat
  BY <1>3
<1>5. no[s] \in 1..Len(AlertsOf[s])
  BY <1>1, <1>2, <1>4
<1> QED
  BY <1>3, <1>4, <1>5 DEF Current

\* What Append and Kept make of a list of runs.
LEMMA Appended ==
    ASSUME NEW R \in Seq(Run), Len(R) <= MaxRuns, NEW r \in Run
    PROVE  LET K == Append(Kept(R), r)
               d == IF Len(R) >= MaxRuns THEN 1 ELSE 0
           IN /\ K \in Seq(Run) /\ Len(K) <= MaxRuns
              /\ Len(K) = Len(R) + 1 - d /\ K[Len(K)] = r
              /\ \A k \in 1..(Len(K) - 1) : K[k] = R[k + d] /\ k + d \in 1..Len(R)
<1>0. MaxRuns \in Nat /\ MaxRuns > 0 /\ Len(R) \in Nat
  BY BoundAssumption
<1>1. CASE Len(R) >= MaxRuns
  <2>1. R # <<>> /\ Tail(R) \in Seq(Run) /\ Len(Tail(R)) = Len(R) - 1
    BY <1>0, <1>1
  <2>2. \A k \in 1..(Len(R) - 1) : Tail(R)[k] = R[k + 1]
    BY <1>0, <1>1, <2>1
  <2> QED
    BY <1>0, <1>1, <2>1, <2>2 DEF Kept
<1>2. CASE ~(Len(R) >= MaxRuns)
  BY <1>0, <1>2 DEF Kept
<1> QED
  BY <1>1, <1>2

\* One list of runs is replaced, or none.
LEMMA WriteRunIs ==
    ASSUME HookTypes, NEW s \in Sender, pc[s] \in Posting, NEW ok \in BOOLEAN,
           WriteRun(s, ok)
    PROVE  LET w == hook[s]
               v == snap[s][w]
               r == [alert |-> Current(s), ok |-> ok]
               u == [run |-> r, seen |-> v.seen]
           IN /\ w \in Webhook /\ r \in Run /\ u \in Written
              /\ v.runs \in Seq(Run) /\ Len(v.runs) <= MaxRuns /\ v.seen \in Nat
              /\ \/ UNCHANGED <<runs, written>> /\ w \notin rows
                 \/ /\ w \in rows
                    /\ runs' = [runs EXCEPT ![w] = Append(Kept(v.runs), r)]
                    /\ written' = [written EXCEPT ![w] = Append(@, u)]
<1>1. hook[s] \in Webhook /\ Current(s) \in Alert
  BY CurrentAlert DEF HookTypes, Posting
<1>2. snap[s][hook[s]] \in [runs : Seq(Run), seen : Nat] /\ Len(snap[s][hook[s]].runs) <= MaxRuns
  BY <1>1 DEF HookTypes, WebhooksTypeOK
<1> QED
  BY <1>1, <1>2 DEF WriteRun, Run, Written

LEMMA WriteRunTypes ==
    ASSUME HookTypes, NEW s \in Sender, pc[s] \in Posting, NEW ok \in BOOLEAN,
           WriteRun(s, ok)
    PROVE  /\ runs' \in [Webhook -> Seq(Run)]
           /\ \A w \in Webhook : Len(runs'[w]) <= MaxRuns
           /\ written' \in [Webhook -> Seq(Written)]
<1> DEFINE w == hook[s]
           v == snap[s][w]
           r == [alert |-> Current(s), ok |-> ok]
           u == [run |-> r, seen |-> v.seen]
           K == Append(Kept(v.runs), r)
<1>1. /\ w \in Webhook /\ r \in Run /\ u \in Written
      /\ v.runs \in Seq(Run) /\ Len(v.runs) <= MaxRuns
      /\ \/ UNCHANGED <<runs, written>>
         \/ /\ runs' = [runs EXCEPT ![w] = K]
            /\ written' = [written EXCEPT ![w] = Append(@, u)]
  BY WriteRunIs
<1>2. K \in Seq(Run) /\ Len(K) <= MaxRuns
  BY <1>1, Appended
<1>3. /\ runs \in [Webhook -> Seq(Run)] /\ written \in [Webhook -> Seq(Written)]
      /\ \A x \in Webhook : Len(runs[x]) <= MaxRuns
  BY DEF HookTypes, WebhooksTypeOK
<1>4. Append(written[w], u) \in Seq(Written)
  BY <1>1, <1>3
<1> HIDE DEF w, v, r, u, K
<1> QED
  BY <1>1, <1>2, <1>3, <1>4

LEMMA HookTypesInit == WebhooksInit => HookTypes
<1> SUFFICES ASSUME WebhooksInit  PROVE HookTypes
  OBVIOUS
<1>1. /\ runs \in [Webhook -> Seq(Run)] /\ \A w \in Webhook : Len(runs[w]) <= MaxRuns
      /\ written \in [Webhook -> Seq(Written)]
  <2>1. /\ <<Past>> \in Seq(Run) /\ Len(<<Past>>) <= MaxRuns
        /\ <<>> \in Seq(Run) /\ Len(<<>>) <= MaxRuns
    BY PastAssumption, BoundAssumption
  <2>2. <<[run |-> Past, seen |-> 0]>> \in Seq(Written) /\ <<>> \in Seq(Written)
    BY PastAssumption DEF Written
  <2> QED
    BY <2>1, <2>2 DEF WebhooksInit
<1>2. snap \in [Sender -> [Webhook -> [runs : Seq(Run), seen : Nat]]]
      /\ \A s \in Sender, w \in Webhook : Len(snap[s][w].runs) <= MaxRuns
  BY BoundAssumption DEF WebhooksInit, NoSnap
<1>3. \A s \in Sender : pc[s] # "done" => no[s] <= Len(AlertsOf[s])
  BY AlertAssumption DEF WebhooksInit
<1>4. pc \in [Sender -> PC] /\ \A s \in Sender : pc[s] \notin Posting
  BY DEF WebhooksInit, PC, Posting
<1> QED
  BY <1>1, <1>2, <1>3, <1>4, BoundAssumption DEF WebhooksInit, HookTypes, WebhooksTypeOK

LEMMA HookTypesStep == ASSUME HookTypes, [WebhooksNext]_webhookVars  PROVE HookTypes'
<1>0. /\ WebhooksTypeOK /\ written \in [Webhook -> Seq(Written)]
      /\ \A s \in Sender, w \in Webhook : Len(snap[s][w].runs) <= MaxRuns
      /\ \A s \in Sender : pc[s] \in Posting => hook[s] \in Webhook
  BY DEF HookTypes
<1>1. CASE UNCHANGED webhookVars
  BY <1>0, <1>1 DEF webhookVars, HookTypes, WebhooksTypeOK
<1>2. ASSUME NEW s \in Sender, ReadWebhooks(s)  PROVE HookTypes'
  <2>1. Current(s) \in Alert /\ Matching(Current(s)) \subseteq Webhook
    BY <1>0, <1>2, CurrentAlert DEF ReadWebhooks, Matching, WebhooksTypeOK
  <2> DEFINE S == [w \in Webhook |->
                     IF w \in Matching(Current(s))
                     THEN [runs |-> runs[w], seen |-> Len(written[w])] ELSE NoSnap]
  <2>2. S \in [Webhook -> [runs : Seq(Run), seen : Nat]] /\ \A w \in Webhook : Len(S[w].runs) <= MaxRuns
    BY <1>0, BoundAssumption DEF WebhooksTypeOK, NoSnap
  <2>3. snap' = [snap EXCEPT ![s] = S]
    BY <1>2 DEF ReadWebhooks
  <2> HIDE DEF S
  <2>4. /\ snap' \in [Sender -> [Webhook -> [runs : Seq(Run), seen : Nat]]]
        /\ \A t \in Sender, w \in Webhook : Len(snap'[t][w].runs) <= MaxRuns
    BY <1>0, <2>2, <2>3 DEF WebhooksTypeOK
  <2>5. pc' = [pc EXCEPT ![s] = "next"] /\ pc[s] = "read"
    BY <1>2 DEF ReadWebhooks, Goto
  <2> QED
    BY <1>0, <1>2, <2>1, <2>4, <2>5
       DEF ReadWebhooks, HookTypes, WebhooksTypeOK, Posting, PC, tableVars
<1>3. ASSUME NEW s \in Sender, NextWebhook(s)  PROVE HookTypes'
  <2>1. PICK w \in todo[s] : hook' = [hook EXCEPT ![s] = w] /\ todo' = [todo EXCEPT ![s] = @ \ {w}]
    BY <1>3 DEF NextWebhook
  <2>2. w \in Webhook /\ pc[s] = "next" /\ pc' = [pc EXCEPT ![s] = "post"]
    BY <1>0, <1>3, <2>1 DEF NextWebhook, Goto, WebhooksTypeOK
  <2>3. todo' \in [Sender -> SUBSET Webhook] /\ hook' \in [Sender -> Webhook \cup {NoHook}]
    BY <1>0, <2>1, <2>2 DEF WebhooksTypeOK
  <2>4. /\ pc' \in [Sender -> PC]
        /\ \A t \in Sender : pc'[t] # "done" => pc[t] # "done"
        /\ \A t \in Sender : pc'[t] \in Posting => hook'[t] \in Webhook
    BY <1>0, <2>1, <2>2 DEF WebhooksTypeOK, PC, Posting
  <2>5. \A t \in Sender : pc'[t] \in {"read", "next", "post", "record", "recordBad"} => no[t] <= Len(AlertsOf[t])
    BY <1>0, <2>4 DEF WebhooksTypeOK, PC
  <2> QED
    BY <1>0, <1>3, <2>3, <2>4, <2>5
       DEF NextWebhook, HookTypes, WebhooksTypeOK, tableVars, history
<1>4. ASSUME NEW s \in Sender, NextAlert(s)  PROVE HookTypes'
  <2> DEFINE S == [w \in Webhook |-> NoSnap]
  <2>1. S \in [Webhook -> [runs : Seq(Run), seen : Nat]] /\ \A w \in Webhook : Len(S[w].runs) <= MaxRuns
    BY BoundAssumption DEF NoSnap
  <2>2. snap' = [snap EXCEPT ![s] = S]
    BY <1>4 DEF NextAlert
  <2> HIDE DEF S
  <2>3. /\ snap' \in [Sender -> [Webhook -> [runs : Seq(Run), seen : Nat]]]
        /\ \A t \in Sender, w \in Webhook : Len(snap'[t][w].runs) <= MaxRuns
    BY <1>0, <2>1, <2>2 DEF WebhooksTypeOK
  <2>4. no[s] \in 1..Len(AlertsOf[s]) /\ Len(AlertsOf[s]) \in Nat
    BY <1>4, CurrentAlert DEF NextAlert
  <2>5. /\ no' \in [Sender -> Nat \ {0}] /\ pc' \in [Sender -> PC]
        /\ \A t \in Sender : pc'[t] \in {"read", "next", "post", "record", "recordBad"} => no'[t] <= Len(AlertsOf[t])
        /\ \A t \in Sender : pc'[t] \in Posting => pc[t] \in Posting
    <3>1. CASE no[s] < Len(AlertsOf[s])
      <4>1. no' = [no EXCEPT ![s] = @ + 1] /\ pc' = [pc EXCEPT ![s] = "read"]
        BY <1>4, <3>1 DEF NextAlert, Goto
      <4> QED
        BY <1>0, <2>4, <3>1, <4>1 DEF WebhooksTypeOK, PC, Posting
    <3>2. CASE ~(no[s] < Len(AlertsOf[s]))
      <4>1. no' = no /\ pc' = [pc EXCEPT ![s] = "done"]
        BY <1>4, <3>2 DEF NextAlert, Goto
      <4> QED
        BY <1>0, <4>1 DEF WebhooksTypeOK, PC, Posting
    <3> QED
      BY <3>1, <3>2
  <2> QED
    BY <1>0, <1>4, <2>3, <2>5 DEF NextAlert, HookTypes, WebhooksTypeOK, tableVars, history
<1>5. ASSUME NEW s \in Sender, PostAccepted(s) \/ PostRetries(s) \/ PostFails(s)  PROVE HookTypes'
  <2>1. /\ pc[s] = "post" /\ Try(s)
        /\ accepted' \in {accepted, accepted \cup {Pair(s)}}
        /\ \/ attempt' = attempt
           \/ attempt[s] <= MaxRetries /\ attempt' = [attempt EXCEPT ![s] = @ + 1]
        /\ \E p \in Posting : pc' = [pc EXCEPT ![s] = p]
    <3>1. CASE PostAccepted(s)
      BY <3>1 DEF PostAccepted, Goto, Posting
    <3>2. CASE PostRetries(s)
      BY <1>0, <3>2 DEF PostRetries, AttemptsLeft, Posting, WebhooksTypeOK
    <3>3. CASE PostFails(s)
      BY <3>3 DEF PostFails, Goto, Posting
    <3> QED
      BY <1>5, <3>1, <3>2, <3>3
  <2>2. Pair(s) \in Alert \X Webhook
    BY <1>0, <2>1, CurrentAlert DEF Pair, Posting
  <2>3. tried' \in [Sender -> SUBSET (Alert \X Webhook)]
    BY <1>0, <2>1, <2>2 DEF Try, WebhooksTypeOK
  <2>4. attempt' \in [Sender -> 1..(MaxRetries + 1)]
    <3>1. MaxRetries \in Nat /\ attempt \in [Sender -> 1..(MaxRetries + 1)]
      BY <1>0, BoundAssumption DEF WebhooksTypeOK
    <3>2. attempt[s] <= MaxRetries => attempt[s] + 1 \in 1..(MaxRetries + 1)
      BY <3>1
    <3> QED
      BY <2>1, <3>1, <3>2
  <2>5. /\ pc' \in [Sender -> PC]
        /\ \A t \in Sender : pc'[t] = pc[t] \/ (pc'[t] \in Posting /\ pc[t] \in Posting)
    <3>1. PICK p \in Posting : pc' = [pc EXCEPT ![s] = p]
      BY <2>1
    <3>2. p \in PC /\ pc \in [Sender -> PC] /\ pc[s] \in Posting
      BY <1>0, <2>1 DEF WebhooksTypeOK, PC, Posting
    <3>3. pc' \in [Sender -> PC] /\ pc'[s] = p /\ \A t \in Sender : t # s => pc'[t] = pc[t]
      BY <3>1, <3>2
    <3>4. pc'[s] \in Posting
      BY <3>1, <3>3
    <3> QED
      BY <3>2, <3>3, <3>4
  <2>6. accepted' \subseteq Alert \X Webhook
    BY <1>0, <2>1, <2>2 DEF WebhooksTypeOK
  <2>7. UNCHANGED <<rows, filter, runs, no, todo, snap, hook, edits, written, chosen, failed>>
    BY <1>5 DEF PostAccepted, PostRetries, PostFails, tableVars
  <2>8. \A t \in Sender : pc'[t] \in {"read", "next", "post", "record", "recordBad"} => no[t] <= Len(AlertsOf[t])
    BY <1>0, <2>5 DEF WebhooksTypeOK, Posting
  <2>9. \A t \in Sender : pc'[t] \in Posting => hook[t] \in Webhook
    BY <1>0, <2>5
  <2> QED
    BY <1>0, <2>3, <2>4, <2>5, <2>6, <2>7, <2>8, <2>9 DEF HookTypes, WebhooksTypeOK
<1>6. ASSUME NEW s \in Sender, RecordGood(s) \/ RecordBad(s)  PROVE HookTypes'
  <2>1. pc[s] \in Posting
    BY <1>6 DEF RecordGood, RecordBad, Posting
  <2>2. /\ runs' \in [Webhook -> Seq(Run)] /\ \A w \in Webhook : Len(runs'[w]) <= MaxRuns
        /\ written' \in [Webhook -> Seq(Written)]
    <3>1. CASE \E ok \in BOOLEAN : WriteRun(s, ok)
      BY <2>1, <3>1, WriteRunTypes
    <3>2. CASE UNCHANGED <<runs, written>>
      BY <1>0, <3>2 DEF WebhooksTypeOK
    <3> QED
      BY <1>6, <3>1, <3>2 DEF RecordGood, RecordBad
  <2>3. /\ pc' \in [Sender -> PC]
        /\ pc[s] \in Posting /\ pc'[s] \in Posting \cup {"next"}
        /\ \A t \in Sender : t # s => pc'[t] = pc[t]
    BY <1>0, <1>6, <2>1 DEF RecordGood, RecordBad, NextRound, Goto, WebhooksTypeOK, PC, Posting
  <2>4. /\ hook' \in [Sender -> Webhook \cup {NoHook}] /\ attempt' \in [Sender -> 1..(MaxRetries + 1)]
        /\ \A t \in Sender : t # s => hook'[t] = hook[t]
        /\ pc'[s] \in Posting => hook'[s] = hook[s]
    <3>1. CASE NextRound(s)
      BY <1>0, <3>1, BoundAssumption DEF NextRound, Goto, WebhooksTypeOK, Posting
    <3>2. CASE UNCHANGED <<hook, attempt>>
      BY <1>0, <3>2 DEF WebhooksTypeOK
    <3> QED
      BY <1>6, <3>1, <3>2 DEF RecordGood, RecordBad
  <2> QED
    BY <1>0, <1>6, <2>2, <2>3, <2>4
       DEF RecordGood, RecordBad, HookTypes, WebhooksTypeOK, Posting
<1>7. ASSUME NEW s \in Sender, DatabaseFails(s)  PROVE HookTypes'
  BY <1>0, <1>7
     DEF DatabaseFails, Goto, HookTypes, WebhooksTypeOK, Posting, PC, tableVars
<1>8. ASSUME NEW w \in Webhook, CreateWebhook(w) \/ UpdateWebhook(w) \/ DeleteWebhook(w)
      PROVE  HookTypes'
  <2>1. edits' \in 0..MaxEdits
    BY <1>0, <1>8, BoundAssumption
       DEF CreateWebhook, UpdateWebhook, DeleteWebhook, Edit, WebhooksTypeOK
  <2>2. rows' \subseteq Webhook /\ filter' \in [Webhook -> SUBSET Alert]
    <3>1. CASE CreateWebhook(w)
      BY <1>0, <3>1, FiltersAssumption DEF CreateWebhook, WebhooksTypeOK
    <3>2. CASE UpdateWebhook(w)
      BY <1>0, <3>2, FiltersAssumption DEF UpdateWebhook, WebhooksTypeOK
    <3>3. CASE DeleteWebhook(w)
      BY <1>0, <3>3 DEF DeleteWebhook, WebhooksTypeOK
    <3> QED
      BY <1>8, <3>1, <3>2, <3>3
  <2>3. runs' \in [Webhook -> Seq(Run)] /\ \A v \in Webhook : Len(runs'[v]) <= MaxRuns
    <3>1. <<>> \in Seq(Run) /\ Len(<<>>) <= MaxRuns
      BY BoundAssumption
    <3> QED
      <4>1. runs' = runs \/ runs' = [runs EXCEPT ![w] = <<>>]
        BY <1>8 DEF CreateWebhook, UpdateWebhook, DeleteWebhook
      <4>2. runs \in [Webhook -> Seq(Run)] /\ \A v \in Webhook : Len(runs[v]) <= MaxRuns
        BY <1>0 DEF WebhooksTypeOK
      <4> QED
        BY <3>1, <4>1, <4>2
  <2>4. UNCHANGED <<senderVars, history>>
    BY <1>8 DEF CreateWebhook, UpdateWebhook, DeleteWebhook
  <2> QED
    BY <1>0, <2>1, <2>2, <2>3, <2>4 DEF HookTypes, WebhooksTypeOK, senderVars, history
<1> QED
  BY <1>1, <1>2, <1>3, <1>4, <1>5, <1>6, <1>7, <1>8 DEF WebhooksNext, SenderStep

(***************************************************************************)
(* Webhooks: the lists of runs                                             *)
(***************************************************************************)

LEMMA HonestInit == WebhooksInit => HonestInv
<1> SUFFICES ASSUME WebhooksInit  PROVE HonestInv
  OBVIOUS
<1>1. ASSUME NEW w \in Webhook, NEW R \in Lists(w)  PROVE Honest(R, w)
  <2>1. R = <<>> \/ R = <<Past>>
    BY <1>1 DEF Lists, WebhooksInit, NoSnap
  <2> QED
    BY <2>1, PastAssumption, AlertAssumption DEF Honest
<1>2. \A s \in Sender : pc[s] \notin Posting /\ pc[s] # "record"
  BY DEF WebhooksInit, Posting
<1> QED
  BY <1>1, <1>2 DEF HonestInv

LEMMA HonestStays ==
    ASSUME NEW w, NEW R, Honest(R, w) \/ R = <<>>, accepted \subseteq accepted',
           \A s \in Sender : \A i \in 1..Len(AlertsOf[s]) : Ahead(s, i, w)' => Ahead(s, i, w)
    PROVE  Honest(R, w)'
<1>1. CASE R = <<>>
  BY <1>1 DEF Honest
<1>2. CASE Honest(R, w)
  BY <1>2 DEF Honest
<1> QED
  BY <1>1, <1>2

\* A sender gets on, or records.
LEMMA GetsOn ==
    ASSUME HookTypes, NEW s \in Sender,
           \A t \in Sender : t # s => UNCHANGED <<no[t], pc[t], todo[t], hook[t]>>,
           \A i \in 1..Len(AlertsOf[s]), w \in Webhook : Ahead(s, i, w)' => Ahead(s, i, w)
    PROVE  \A w \in Webhook : \A t \in Sender : \A i \in 1..Len(AlertsOf[t]) :
              Ahead(t, i, w)' => Ahead(t, i, w)
BY DEF Ahead

\* What a sender records was ahead of it, and of nobody else, and is no more.
LEMMA RecordHonest ==
    ASSUME HookTypes, HonestInv, NEW s \in Sender, pc[s] \in Posting, NEW ok \in BOOLEAN,
           ok => pc[s] = "record", WriteRun(s, ok), NextRound(s),
           UNCHANGED <<no, todo, snap, accepted>>
    PROVE  \A w \in Webhook : \A R \in Lists(w)' : Honest(R, w)'
<1>h. PICK h, a, L, K : /\ h = hook[s] /\ a = Current(s) /\ L = snap[s][h].runs
                       /\ K = Append(Kept(L), [alert |-> a, ok |-> ok])
  OBVIOUS
<1> DEFINE r == [alert |-> a, ok |-> ok]
<1>0. /\ WebhooksTypeOK /\ h \in Webhook /\ r \in Run /\ L \in Seq(Run) /\ Len(L) <= MaxRuns
      /\ runs' = runs \/ runs' = [runs EXCEPT ![h] = K]
  BY <1>h, WriteRunIs DEF HookTypes
<1>1. no[s] \in 1..Len(AlertsOf[s]) /\ a = AlertsOf[s][no[s]]
  BY <1>h, CurrentAlert DEF Posting, Current
<1>2. /\ pc' = [pc EXCEPT ![s] = "next"] /\ hook' = [hook EXCEPT ![s] = NoHook]
      /\ pc[s] # "read" /\ h \notin todo[s]
  BY <1>h DEF NextRound, Goto, HonestInv, Posting
<1>3. \A w \in Webhook : \A t \in Sender : \A i \in 1..Len(AlertsOf[t]) :
        Ahead(t, i, w)' => Ahead(t, i, w) /\ ~(t = s /\ i = no[s] /\ w = h)
  BY <1>0, <1>2 DEF Ahead, Posting, WebhooksTypeOK
<1>4. Ahead(s, no[s], h)
  BY <1>h DEF Ahead
<1>5. Honest(L, h)
  BY <1>0, <1>h DEF HonestInv, Lists
<1>6. Honest(K, h)'
  <2> DEFINE d == IF Len(L) >= MaxRuns THEN 1 ELSE 0
  <2>0. LET J == Append(Kept(L), r)
        IN /\ J \in Seq(Run) /\ J[Len(J)] = r
           /\ \A k \in 1..(Len(J) - 1) : J[k] = L[k + d] /\ k + d \in 1..Len(L)
    BY <1>0, Appended
  <2>1. /\ K \in Seq(Run) /\ K[Len(K)] = r
        /\ \A k \in 1..(Len(K) - 1) : K[k] = L[k + d] /\ k + d \in 1..Len(L)
    BY <1>h, <2>0
  <2>2. d \in Nat /\ Len(K) \in Nat
    BY <2>1
  <2> HIDE DEF d
  <2>3. ASSUME NEW k \in 1..Len(K), K[k].ok  PROVE <<K[k].alert, h>> \in accepted'
    <3>1. CASE k = Len(K)
      <4>1. ok /\ K[k].alert = a
        BY <2>1, <2>3, <3>1
      <4>2. Pair(s) = <<a, h>> /\ Pair(s) \in accepted
        BY <1>h, <4>1 DEF HonestInv, Pair
      <4> QED
        BY <4>1, <4>2
    <3>2. CASE k \in 1..(Len(K) - 1)
      BY <1>5, <2>1, <2>3, <3>2 DEF Honest
    <3> QED
      BY <2>2, <3>1, <3>2
  <2>4. \A k \in 1..(Len(K) - 1) : K[k].alert # a
    BY <1>1, <1>4, <1>5, <2>1 DEF Honest
  <2>5. ASSUME NEW j \in 1..Len(K), NEW k \in 1..Len(K), K[j].alert = K[k].alert  PROVE j = k
    <3>1. CASE j \in 1..(Len(K) - 1) /\ k \in 1..(Len(K) - 1)
      <4>1. j + d = k + d
        BY <1>5, <2>1, <2>5, <3>1 DEF Honest
      <4> QED
        BY <2>2, <4>1
    <3>2. CASE j = Len(K) \/ k = Len(K)
      BY <2>1, <2>2, <2>4, <2>5, <3>2
    <3> QED
      BY <2>2, <3>1, <3>2
  <2>6. ASSUME NEW t \in Sender, NEW i \in 1..Len(AlertsOf[t]), Ahead(t, i, h)', NEW k \in 1..Len(K)
        PROVE  K[k].alert # AlertsOf[t][i]
    <3>1. Ahead(t, i, h) /\ ~(t = s /\ i = no[s])
      BY <1>0, <1>3, <2>6
    <3>2. CASE k = Len(K)
      <4>1. K[k].alert = AlertsOf[s][no[s]]
        BY <1>1, <2>1, <3>2
      <4> QED
        BY <1>1, <2>6, <3>1, <4>1, AlertAssumption
    <3>3. CASE k \in 1..(Len(K) - 1)
      BY <1>5, <2>1, <2>6, <3>1, <3>3 DEF Honest
    <3> QED
      BY <2>2, <3>2, <3>3
  <2> QED
    BY <2>3, <2>5, <2>6 DEF Honest
<1>7. ASSUME NEW w \in Webhook, NEW R \in Lists(w)'  PROVE R \in Lists(w) \/ (w = h /\ R = K)
  <2>1. R = runs'[w] \/ \E t \in Sender : R = snap[t][w].runs
    BY <1>7 DEF Lists
  <2>2. runs'[w] = runs[w] \/ (w = h /\ runs'[w] = K)
    BY <1>0 DEF WebhooksTypeOK
  <2> QED
    BY <2>1, <2>2 DEF Lists
<1> QED
  BY <1>3, <1>6, <1>7, HonestStays DEF HonestInv

LEMMA HonestStep ==
    ASSUME HookTypes, HonestInv, [WebhooksNext]_webhookVars  PROVE HonestInv'
<1>0. WebhooksTypeOK
  BY DEF HookTypes
\* Steps that write no new run.
<1>1. ASSUME accepted \subseteq accepted',
             \A w \in Webhook : \A t \in Sender : \A i \in 1..Len(AlertsOf[t]) :
                Ahead(t, i, w)' => Ahead(t, i, w),
             \A w \in Webhook : Lists(w)' \subseteq Lists(w) \cup {<<>>}
      PROVE  \A w \in Webhook : \A R \in Lists(w)' : Honest(R, w)'
  BY <1>1, HonestStays DEF HonestInv
<1>2. CASE UNCHANGED webhookVars
  BY <1>2 DEF webhookVars, HonestInv, Lists, Honest, Ahead, Pair, Current
\* Steps of a sender; where it is then, and what it has accepted.
<1>3. ASSUME NEW s \in Sender, SenderStep(s),
             pc'[s] = "record" => Pair(s)' \in accepted',
             pc'[s] \in Posting => hook'[s] \notin todo'[s]
      PROVE  /\ \A t \in Sender : pc'[t] = "record" => Pair(t)' \in accepted'
             /\ \A t \in Sender : pc'[t] \in Posting => hook'[t] \notin todo'[t]
  <2>1. accepted \subseteq accepted'
    BY <1>3 DEF SenderStep, ReadWebhooks, NextWebhook, NextAlert, PostAccepted, PostRetries,
           PostFails, RecordGood, RecordBad, DatabaseFails, history
  <2>2. \A t \in Sender : t # s => UNCHANGED <<no[t], pc[t], todo[t], hook[t]>>
    BY <1>0, <1>3 DEF SenderStep, ReadWebhooks, NextWebhook, NextAlert, PostAccepted, PostRetries,
           PostFails, RecordGood, RecordBad, DatabaseFails, NextRound, Goto, WebhooksTypeOK
  <2> QED
    BY <1>3, <2>1, <2>2 DEF HonestInv, Pair, Current
<1>4. ASSUME NEW s \in Sender, ReadWebhooks(s)  PROVE HonestInv'
  <2>1. /\ pc[s] = "read" /\ pc' = [pc EXCEPT ![s] = "next"]
        /\ UNCHANGED <<no, runs, accepted, hook>>
        /\ \A t \in Sender : t # s => todo'[t] = todo[t]
    BY <1>0, <1>4 DEF ReadWebhooks, Goto, tableVars, WebhooksTypeOK
  <2>2. \A i \in 1..Len(AlertsOf[s]), w \in Webhook : Ahead(s, i, w)' => Ahead(s, i, w)
    BY <1>0, <2>1 DEF Ahead, WebhooksTypeOK, Posting
  <2>3. \A w \in Webhook : Lists(w)' \subseteq Lists(w) \cup {<<>>}
    BY <1>0, <1>4, <2>1 DEF ReadWebhooks, Lists, NoSnap, WebhooksTypeOK
  <2>4. \A w \in Webhook : \A R \in Lists(w)' : Honest(R, w)'
    BY <1>0, <1>1, <2>1, <2>2, <2>3, GetsOn DEF WebhooksTypeOK
  <2>5. pc'[s] = "next"
    BY <1>0, <2>1 DEF WebhooksTypeOK
  <2> QED
    BY <1>3, <1>4, <2>4, <2>5 DEF HonestInv, SenderStep, Posting
<1>5. ASSUME NEW s \in Sender, NextWebhook(s)  PROVE HonestInv'
  <2>1. PICK w \in todo[s] : hook' = [hook EXCEPT ![s] = w] /\ todo' = [todo EXCEPT ![s] = @ \ {w}]
    BY <1>5 DEF NextWebhook
  <2>2. /\ pc[s] = "next" /\ pc' = [pc EXCEPT ![s] = "post"]
        /\ UNCHANGED <<no, runs, snap, accepted>>
    BY <1>5 DEF NextWebhook, Goto, tableVars, history
  <2>3. pc'[s] = "post" /\ hook'[s] = w /\ todo'[s] = todo[s] \ {w}
    BY <1>0, <2>1, <2>2 DEF WebhooksTypeOK
  <2>4. \A i \in 1..Len(AlertsOf[s]), x \in Webhook : Ahead(s, i, x)' => Ahead(s, i, x)
    BY <2>1, <2>2, <2>3 DEF Ahead
  <2>5. \A x \in Webhook : Lists(x)' \subseteq Lists(x)
    BY <2>2 DEF Lists
  <2>6. \A t \in Sender : t # s => UNCHANGED <<no[t], pc[t], todo[t], hook[t]>>
    BY <1>0, <2>1, <2>2 DEF WebhooksTypeOK
  <2>7. \A x \in Webhook : \A R \in Lists(x)' : Honest(R, x)'
    BY <1>1, <2>2, <2>4, <2>5, <2>6, GetsOn
  <2> QED
    BY <1>3, <1>5, <2>3, <2>7 DEF HonestInv, SenderStep
<1>6. ASSUME NEW s \in Sender, NextAlert(s)  PROVE HonestInv'
  <2>0. pc[s] = "next" /\ todo[s] = {} /\ UNCHANGED <<runs, todo, hook, accepted>>
    BY <1>6 DEF NextAlert, tableVars, history
  <2>1. /\ no[s] \in Nat
        /\ \/ no' = [no EXCEPT ![s] = @ + 1] /\ pc' = [pc EXCEPT ![s] = "read"]
           \/ no' = no /\ pc' = [pc EXCEPT ![s] = "done"]
    BY <1>0, <1>6 DEF NextAlert, Goto, WebhooksTypeOK
  <2>2. /\ pc'[s] \notin Posting
        /\ no'[s] = no[s] + 1 \/ (no'[s] = no[s] /\ pc'[s] = "done")
        /\ \A t \in Sender : t # s => UNCHANGED <<no[t], pc[t], todo[t], hook[t]>>
    BY <1>0, <2>0, <2>1 DEF WebhooksTypeOK, Posting
  <2>3. \A i \in 1..Len(AlertsOf[s]), w \in Webhook : Ahead(s, i, w)' => Ahead(s, i, w)
    <3>1. Len(AlertsOf[s]) \in Nat
      BY AlertAssumption
    <3> QED
      BY <2>0, <2>1, <2>2, <3>1 DEF Ahead
  <2>4. \A w \in Webhook : Lists(w)' \subseteq Lists(w) \cup {<<>>}
    BY <1>0, <1>6, <2>0 DEF NextAlert, Lists, NoSnap, WebhooksTypeOK
  <2>5. \A w \in Webhook : \A R \in Lists(w)' : Honest(R, w)'
    BY <1>1, <2>0, <2>2, <2>3, <2>4, GetsOn
  <2> QED
    BY <1>3, <1>6, <2>2, <2>5 DEF HonestInv, SenderStep, Posting
\* Steps that keep the alert and the webhook at hand.
<1>7. ASSUME NEW s \in Sender, pc[s] \in Posting \cup {"read"}, NEW p \in Posting \cup {"done"},
             pc' = [pc EXCEPT ![s] = p], p \in Posting => pc[s] \in Posting,
             UNCHANGED <<no, todo, hook, runs, snap>>, accepted \subseteq accepted'
      PROVE  \A w \in Webhook : \A R \in Lists(w)' : Honest(R, w)'
  <2>1. pc'[s] = p /\ \A t \in Sender : t # s => UNCHANGED <<no[t], pc[t], todo[t], hook[t]>>
    BY <1>0, <1>7 DEF WebhooksTypeOK
  <2>2. \A i \in 1..Len(AlertsOf[s]), w \in Webhook : Ahead(s, i, w)' => Ahead(s, i, w)
    BY <1>7, <2>1 DEF Ahead, Posting
  <2>3. \A w \in Webhook : Lists(w)' \subseteq Lists(w)
    BY <1>7 DEF Lists
  <2> QED
    BY <1>1, <1>7, <2>1, <2>2, <2>3, GetsOn
<1>8. ASSUME NEW s \in Sender, PostAccepted(s) \/ PostRetries(s) \/ PostFails(s)  PROVE HonestInv'
  <2>1. /\ pc[s] = "post" /\ UNCHANGED <<no, todo, hook, runs, snap>> /\ accepted \subseteq accepted'
        /\ \/ pc' = [pc EXCEPT ![s] = "record"] /\ Pair(s) \in accepted'
           \/ pc' = [pc EXCEPT ![s] = "post"]
           \/ pc' = [pc EXCEPT ![s] = "recordBad"]
    BY <1>0, <1>8 DEF PostAccepted, PostRetries, PostFails, Goto, tableVars, WebhooksTypeOK
  <2>2. \A w \in Webhook : \A R \in Lists(w)' : Honest(R, w)'
    BY <1>7, <2>1 DEF Posting
  <2>3. pc'[s] = "record" => Pair(s)' \in accepted'
    BY <1>0, <2>1 DEF WebhooksTypeOK, Pair, Current
  <2>4. hook'[s] \notin todo'[s]
    BY <2>1 DEF HonestInv, Posting
  <2> QED
    BY <1>3, <1>8, <2>2, <2>3, <2>4 DEF HonestInv, SenderStep
<1>9. ASSUME NEW s \in Sender, DatabaseFails(s)  PROVE HonestInv'
  <2>1. /\ pc[s] \in Posting \cup {"read"} /\ pc' = [pc EXCEPT ![s] = "done"] /\ pc'[s] = "done"
        /\ UNCHANGED <<no, todo, hook, runs, snap, accepted>>
    BY <1>0, <1>9 DEF DatabaseFails, Goto, Posting, tableVars, WebhooksTypeOK
  <2>2. "done" \notin Posting /\ "done" \in Posting \cup {"done"}
    BY DEF Posting
  <2>3. \A w \in Webhook : \A R \in Lists(w)' : Honest(R, w)'
    BY <1>7, <2>1, <2>2
  <2> QED
    BY <1>3, <1>9, <2>1, <2>2, <2>3 DEF HonestInv, SenderStep
<1>10. ASSUME NEW s \in Sender, RecordGood(s) \/ RecordBad(s)  PROVE HonestInv'
  <2>1. pc[s] \in Posting /\ UNCHANGED <<no, todo, snap, accepted>>
    BY <1>10 DEF RecordGood, RecordBad, Posting
  <2>2. CASE \E ok \in BOOLEAN : (ok => pc[s] = "record") /\ WriteRun(s, ok) /\ NextRound(s)
    <3>1. \A w \in Webhook : \A R \in Lists(w)' : Honest(R, w)'
      BY <2>1, <2>2, RecordHonest
    <3>2. pc'[s] = "next"
      BY <1>0, <2>2 DEF NextRound, Goto, WebhooksTypeOK
    <3> QED
      BY <1>3, <1>10, <3>1, <3>2 DEF HonestInv, SenderStep, Posting
  <2>3. CASE Goto(s, "recordBad") /\ UNCHANGED <<runs, hook>>
    <3>1. pc' = [pc EXCEPT ![s] = "recordBad"] /\ pc'[s] = "recordBad"
      BY <1>0, <2>3 DEF Goto, WebhooksTypeOK
    <3>2. \A w \in Webhook : \A R \in Lists(w)' : Honest(R, w)'
      BY <1>7, <2>1, <2>3, <3>1 DEF Posting
    <3>3. hook'[s] \notin todo'[s]
      BY <2>1, <2>3 DEF HonestInv
    <3> QED
      BY <1>3, <1>10, <3>1, <3>2, <3>3 DEF HonestInv, SenderStep
  <2> QED
    BY <1>10, <2>2, <2>3 DEF RecordGood, RecordBad
<1>11. ASSUME NEW w \in Webhook, CreateWebhook(w) \/ UpdateWebhook(w) \/ DeleteWebhook(w)
       PROVE  HonestInv'
  <2>1. UNCHANGED <<no, pc, todo, snap, hook, accepted>> /\ runs' \in {runs, [runs EXCEPT ![w] = <<>>]}
    BY <1>11 DEF CreateWebhook, UpdateWebhook, DeleteWebhook, senderVars, history
  <2>2. \A x \in Webhook : Lists(x)' \subseteq Lists(x) \cup {<<>>}
    BY <1>0, <2>1 DEF Lists, WebhooksTypeOK
  <2>3. \A x \in Webhook : \A R \in Lists(x)' : Honest(R, x)'
    BY <1>1, <2>1, <2>2 DEF Ahead
  <2> QED
    BY <2>1, <2>3 DEF HonestInv, Pair, Current
<1> QED
  BY <1>2, <1>4, <1>5, <1>6, <1>8, <1>9, <1>10, <1>11 DEF WebhooksNext, SenderStep

(***************************************************************************)
(* Webhooks: what becomes of the runs                                      *)
(***************************************************************************)

LEMMA ViewTypes ==
    ASSUME HookTypes, NEW w \in Webhook, NEW v \in Views(w)
    PROVE  v \in [runs : Seq(Run), seen : Nat] /\ Len(v.runs) <= MaxRuns
<1>1. CASE \E s \in Sender : v = snap[s][w]
  BY <1>1 DEF HookTypes, WebhooksTypeOK
<1>2. CASE v = [runs |-> runs[w], seen |-> Len(written[w])]
  BY <1>2 DEF HookTypes, WebhooksTypeOK
<1> QED
  BY <1>1, <1>2 DEF Views

\* What is accounted for stays so when runs are appended to those written.
LEMMA AccountedStays ==
    ASSUME NEW w, NEW v, v.seen \in Nat, Len(written[w]) \in Nat, Len(written'[w]) \in Nat,
           v.seen = 0 \/ (v.seen <= Len(written[w]) /\ Accounted(v, w)),
           Len(written[w]) <= Len(written'[w]),
           \A i \in 1..Len(written[w]) : written'[w][i] = written[w][i]
    PROVE  v.seen <= Len(written'[w]) /\ Accounted(v, w)'
<1>1. CASE v.seen = 0
  BY <1>1 DEF Accounted
<1>2. CASE v.seen <= Len(written[w]) /\ Accounted(v, w)
  <2>1. \A i \in 1..v.seen : i \in 1..Len(written[w]) /\ written'[w][i] = written[w][i]
    BY <1>2
  <2> SUFFICES ASSUME NEW i \in 1..v.seen
               PROVE  \/ \E k \in 1..Len(v.runs) :
                            v.runs[k] = written'[w][i].run /\ Len(v.runs) - k <= v.seen - i
                      \/ v.seen - i >= MaxRuns
                      \/ \E j \in 1..v.seen : j > i /\ written'[w][j].seen < i
    BY <1>2 DEF Accounted
  <2>2. \/ \E k \in 1..Len(v.runs) :
              v.runs[k] = written[w][i].run /\ Len(v.runs) - k <= v.seen - i
        \/ v.seen - i >= MaxRuns
        \/ \E j \in 1..v.seen : j > i /\ written[w][j].seen < i
    BY <1>2 DEF Accounted
  <2>3. CASE \E j \in 1..v.seen : j > i /\ written[w][j].seen < i
    <3>1. PICK j \in 1..v.seen : j > i /\ written[w][j].seen < i
      BY <2>3
    <3>2. written'[w][j] = written[w][j]
      BY <2>1
    <3> QED
      BY <3>1, <3>2
  <2>4. written'[w][i] = written[w][i]
    BY <2>1
  <2> QED
    BY <2>2, <2>3, <2>4
<1> QED
  BY <1>1, <1>2

LEMMA RecordAccounted ==
    ASSUME HookTypes, LostInv, NEW s \in Sender, pc[s] \in Posting, NEW ok \in BOOLEAN,
           WriteRun(s, ok), UNCHANGED <<rows, snap>>
    PROVE  LostInv'
<1>h. PICK h, l, r, u, K, O :
        /\ h = hook[s] /\ l = snap[s][h] /\ r = [alert |-> Current(s), ok |-> ok]
        /\ u = [run |-> r, seen |-> l.seen] /\ K = Append(Kept(l.runs), r) /\ O = written[h]
  OBVIOUS
<1>0. /\ h \in Webhook /\ r \in Run /\ u \in Written /\ u.run = r /\ u.seen = l.seen
      /\ l.runs \in Seq(Run) /\ Len(l.runs) <= MaxRuns /\ l.seen \in Nat /\ O \in Seq(Written)
      /\ runs \in [Webhook -> Seq(Run)] /\ written \in [Webhook -> Seq(Written)]
      /\ \/ UNCHANGED <<runs, written>>
         \/ /\ runs' = [runs EXCEPT ![h] = K]
            /\ written' = [written EXCEPT ![h] = Append(O, u)]
  <2>1. /\ runs \in [Webhook -> Seq(Run)] /\ written \in [Webhook -> Seq(Written)]
    BY DEF HookTypes, WebhooksTypeOK
  <2>2. /\ hook[s] \in Webhook /\ [alert |-> Current(s), ok |-> ok] \in Run
        /\ [run |-> [alert |-> Current(s), ok |-> ok], seen |-> snap[s][hook[s]].seen] \in Written
        /\ snap[s][hook[s]].runs \in Seq(Run) /\ Len(snap[s][hook[s]].runs) <= MaxRuns
        /\ snap[s][hook[s]].seen \in Nat
        /\ \/ UNCHANGED <<runs, written>>
           \/ /\ runs' = [runs EXCEPT ![hook[s]] = Append(Kept(snap[s][hook[s]].runs),
                                                     [alert |-> Current(s), ok |-> ok])]
              /\ written' = [written EXCEPT ![hook[s]] = Append(@,
                    [run |-> [alert |-> Current(s), ok |-> ok], seen |-> snap[s][hook[s]].seen])]
    BY WriteRunIs
  <2>3. /\ h \in Webhook /\ r \in Run /\ u \in Written /\ u.run = r /\ u.seen = l.seen
        /\ l.runs \in Seq(Run) /\ Len(l.runs) <= MaxRuns /\ l.seen \in Nat
        /\ \/ UNCHANGED <<runs, written>>
           \/ /\ runs' = [runs EXCEPT ![h] = K]
              /\ written' = [written EXCEPT ![h] = Append(@, u)]
    BY <1>h, <2>2
  <2>4. O = written[h] /\ O \in Seq(Written)
    BY <1>h, <2>1, <2>3
  <2> QED
    BY <2>1, <2>3, <2>4
<1>1. CASE UNCHANGED <<runs, written>>
  BY <1>1 DEF LostInv, Views, Accounted
<1>2. CASE /\ runs' = [runs EXCEPT ![h] = K]
           /\ written' = [written EXCEPT ![h] = Append(O, u)]
  <2>1. /\ Len(O) \in Nat /\ Len(Append(O, u)) = Len(O) + 1 /\ Append(O, u)[Len(O) + 1] = u
        /\ \A i \in 1..Len(O) : Append(O, u)[i] = O[i]
    BY <1>0
  <2>2. \A w \in Webhook :
           /\ Len(written[w]) \in Nat /\ Len(written'[w]) \in Nat
           /\ Len(written[w]) <= Len(written'[w])
           /\ \A i \in 1..Len(written[w]) : written'[w][i] = written[w][i]
    BY <1>0, <1>2, <2>1, <1>h
  <2>3. ASSUME NEW w \in Webhook, NEW v \in Views(w)
        PROVE  v.seen <= Len(written'[w]) /\ Accounted(v, w)'
    <3>1. v.seen \in Nat /\ v.seen <= Len(written[w]) /\ Accounted(v, w)
      BY ViewTypes DEF LostInv
    <3> QED
      BY <2>2, <3>1, AccountedStays
  <2>4. PICK N : N = [runs |-> K, seen |-> Len(O) + 1]
    OBVIOUS
  <2>5. Accounted(N, h)'
    <3> DEFINE d == IF Len(l.runs) >= MaxRuns THEN 1 ELSE 0
    <3>0. LET J == Append(Kept(l.runs), r)
          IN /\ J \in Seq(Run) /\ J[Len(J)] = r /\ Len(J) = Len(l.runs) + 1 - d
             /\ \A k \in 1..(Len(J) - 1) : J[k] = l.runs[k + d] /\ k + d \in 1..Len(l.runs)
      BY <1>0, Appended
    <3>1. /\ K \in Seq(Run) /\ K[Len(K)] = r /\ Len(K) = Len(l.runs) + 1 - d
          /\ \A k \in 1..(Len(K) - 1) : K[k] = l.runs[k + d] /\ k + d \in 1..Len(l.runs)
      BY <1>h, <3>0
    <3>2. /\ Len(l.runs) \in Nat /\ Len(K) \in Nat \ {0} /\ l.seen \in Nat /\ Len(O) \in Nat
          /\ MaxRuns \in Nat \ {0} /\ l.seen <= Len(O)
      <4>1. l \in Views(h) /\ MaxRuns \in Nat \ {0}
        BY <1>h, BoundAssumption DEF Views
      <4>2. l.seen <= Len(O)
        BY <1>0, <1>h, <4>1 DEF LostInv
      <4> QED
        BY <1>0, <2>1, <3>1, <4>1, <4>2
    <3>3. /\ written'[h] = Append(O, u) /\ written'[h][Len(O) + 1] = u
          /\ \A i \in 1..Len(O) : written'[h][i] = written[h][i]
      BY <1>0, <1>2, <1>h, <2>1
    <3>4. N.runs = K /\ N.seen = Len(O) + 1
      BY <2>4
    <3> SUFFICES ASSUME NEW i \in 1..(Len(O) + 1)
                 PROVE  \/ \E k \in 1..Len(K) :
                              K[k] = written'[h][i].run /\ Len(K) - k <= Len(O) + 1 - i
                        \/ Len(O) + 1 - i >= MaxRuns
                        \/ \E j \in 1..(Len(O) + 1) : j > i /\ written'[h][j].seen < i
      BY <3>4 DEF Accounted
    <3>5. CASE i = Len(O) + 1
      <4>1. Len(K) \in 1..Len(K) /\ K[Len(K)] = written'[h][i].run /\ Len(K) - Len(K) <= Len(O) + 1 - i
        BY <1>0, <3>1, <3>2, <3>3, <3>5
      <4> QED
        BY <4>1
    <3>6. CASE i \in (l.seen + 1)..Len(O)
      <4>1. Len(O) + 1 > i /\ written'[h][Len(O) + 1].seen < i /\ Len(O) + 1 \in 1..(Len(O) + 1)
        BY <1>0, <3>2, <3>3, <3>6
      <4> QED
        BY <4>1
    <3>7. CASE i \in 1..l.seen
      <4>1. Accounted(l, h) /\ i \in 1..Len(O) /\ written'[h][i] = written[h][i]
        <5>1. l \in Views(h)
          BY <1>h DEF Views
        <5> QED
          BY <1>0, <3>2, <3>3, <3>7, <5>1 DEF LostInv
      <4>2. CASE \E k \in 1..Len(l.runs) :
                    l.runs[k] = written[h][i].run /\ Len(l.runs) - k <= l.seen - i
        <5>1. PICK k \in 1..Len(l.runs) :
                    l.runs[k] = written[h][i].run /\ Len(l.runs) - k <= l.seen - i
          BY <4>2
        <5>2. CASE k - d >= 1
          <6>1. d \in {0, 1} /\ k - d \in 1..(Len(K) - 1) /\ k - d + d = k
            BY <3>1, <3>2, <5>2
          <6>2. K[k - d] = l.runs[k]
            BY <3>1, <6>1
          <6>3. Len(K) - (k - d) <= Len(O) + 1 - i /\ k - d \in 1..Len(K)
            <7>1. /\ Len(K) = Len(l.runs) + 1 - d /\ Len(l.runs) - k <= l.seen - i
                  /\ l.seen <= Len(O) /\ k - d <= Len(K) - 1 /\ k - d >= 1
              BY <3>1, <3>2, <5>1, <6>1
            <7>2. /\ Len(l.runs) \in Nat /\ Len(K) \in Nat /\ l.seen \in Nat
                  /\ Len(O) \in Nat /\ i \in Nat /\ k \in Nat /\ d \in Nat
              BY <3>2, <3>7, <6>1
            <7> QED
              BY ONLY <7>1, <7>2
          <6> QED
            BY <4>1, <5>1, <6>2, <6>3
        <5>3. CASE ~(k - d >= 1)
          <6>1. Len(l.runs) >= MaxRuns /\ k = 1
            BY <3>2, <5>3
          <6> QED
            BY <3>2, <3>7, <5>1, <6>1
        <5> QED
          BY <5>2, <5>3
      <4>3. CASE l.seen - i >= MaxRuns
        BY <3>2, <3>7, <4>3
      <4>4. CASE \E j \in 1..l.seen : j > i /\ written[h][j].seen < i
        <5>1. PICK j \in 1..l.seen : j > i /\ written[h][j].seen < i
          BY <4>4
        <5>2. j \in 1..Len(O) /\ j \in 1..(Len(O) + 1)
          BY <3>2
        <5> QED
          BY <3>3, <5>1, <5>2
      <4> QED
        BY <3>7, <4>1, <4>2, <4>3, <4>4 DEF Accounted
    <3> QED
      BY <3>2, <3>5, <3>6, <3>7
  <2>6. ASSUME NEW w \in Webhook, NEW v \in Views(w)'  PROVE v \in Views(w) \/ (w = h /\ v = N)
    <3>1. \/ \E t \in Sender : v = snap[t][w]
          \/ w \in rows /\ v = [runs |-> runs'[w], seen |-> Len(written'[w])]
      BY <2>6 DEF Views
    <3>2. CASE w = h
      <4>1. runs'[w] = K /\ Len(written'[w]) = Len(O) + 1
        BY <1>0, <1>2, <2>1, <3>2
      <4> QED
        BY <2>4, <3>1, <3>2, <4>1 DEF Views
    <3>3. CASE w # h
      BY <1>0, <1>2, <3>1, <3>3 DEF Views
    <3> QED
      BY <3>2, <3>3
  <2>7. N.seen <= Len(written'[h])
    BY <1>0, <1>2, <2>1, <2>4
  <2> QED
    BY <2>3, <2>5, <2>6, <2>7 DEF LostInv
<1> QED
  BY <1>0, <1>1, <1>2

LEMMA LostInit == WebhooksInit => LostInv
<1> SUFFICES ASSUME WebhooksInit, NEW w \in Webhook, NEW v \in Views(w)
             PROVE  v.seen <= Len(written[w]) /\ Accounted(v, w)
  BY DEF LostInv
<1>1. CASE v.seen = 0
  <2>1. Len(written[w]) \in Nat
    BY DEF WebhooksInit
  <2> QED
    BY <1>1, <2>1 DEF Accounted
<1>2. CASE ~(v.seen = 0)
  <2>1. w \in rows /\ v = [runs |-> runs[w], seen |-> Len(written[w])]
    BY <1>2 DEF Views, WebhooksInit, NoSnap
  <2>2. runs[w] = <<Past>> /\ written[w] = <<[run |-> Past, seen |-> 0]>>
    BY <2>1 DEF WebhooksInit
  <2> QED
    BY <2>1, <2>2 DEF Accounted
<1> QED
  BY <1>1, <1>2

LEMMA LostStep ==
    ASSUME HookTypes, LostInv, [WebhooksNext]_webhookVars  PROVE LostInv'
<1>0. WebhooksTypeOK /\ \A w \in Webhook : Len(written[w]) \in Nat
  BY DEF HookTypes
\* Steps that write no run.
<1>1. ASSUME written' = written,
             \A w \in Webhook : \A v \in Views(w)' : v \in Views(w) \/ v.seen = 0
      PROVE  LostInv'
  <2> SUFFICES ASSUME NEW w \in Webhook, NEW v \in Views(w)'
               PROVE  v.seen <= Len(written'[w]) /\ Accounted(v, w)'
    BY DEF LostInv
  <2>1. v \in Views(w) \/ v.seen = 0
    BY <1>1
  <2>2. v.seen \in Nat /\ (v.seen = 0 \/ (v.seen <= Len(written[w]) /\ Accounted(v, w)))
    BY <2>1, ViewTypes DEF LostInv
  <2> QED
    BY <1>0, <1>1, <2>2, AccountedStays
<1>2. ASSUME written' = written, UNCHANGED <<rows, runs>>,
             \A s \in Sender, w \in Webhook : snap'[s][w] \in Views(w) \cup {NoSnap}
      PROVE  LostInv'
  <2>1. \A w \in Webhook : \A v \in Views(w)' : v \in Views(w) \/ v = NoSnap
    BY <1>2 DEF Views
  <2> QED
    BY <1>1, <1>2, <2>1 DEF NoSnap
<1>3. CASE UNCHANGED <<rows, runs, snap, written>>
  BY <1>2, <1>3 DEF Views
<1>4. ASSUME NEW s \in Sender, ReadWebhooks(s)  PROVE LostInv'
  <2>1. UNCHANGED <<rows, runs, written>> /\ Matching(Current(s)) \subseteq rows
    BY <1>4 DEF ReadWebhooks, tableVars, Matching
  <2>2. snap' = [snap EXCEPT ![s] = [w \in Webhook |->
                   IF w \in Matching(Current(s))
                   THEN [runs |-> runs[w], seen |-> Len(written[w])] ELSE NoSnap]]
    BY <1>4 DEF ReadWebhooks
  <2>3. \A t \in Sender, w \in Webhook : snap'[t][w] \in Views(w) \cup {NoSnap}
    BY <1>0, <2>1, <2>2 DEF WebhooksTypeOK, Views
  <2> QED
    BY <1>2, <2>1, <2>3
<1>5. ASSUME NEW s \in Sender, NextAlert(s)  PROVE LostInv'
  <2>1. /\ UNCHANGED <<rows, runs, written>>
        /\ snap' = [snap EXCEPT ![s] = [w \in Webhook |-> NoSnap]]
    BY <1>5 DEF NextAlert, tableVars, history
  <2>2. \A t \in Sender, w \in Webhook : snap'[t][w] \in Views(w) \cup {NoSnap}
    BY <1>0, <2>1 DEF WebhooksTypeOK, Views
  <2> QED
    BY <1>2, <2>1, <2>2
<1>6. ASSUME NEW s \in Sender, RecordGood(s) \/ RecordBad(s)  PROVE LostInv'
  <2>1. pc[s] \in Posting /\ UNCHANGED <<rows, snap>>
    BY <1>6 DEF RecordGood, RecordBad, Posting
  <2>2. CASE \E ok \in BOOLEAN : WriteRun(s, ok)
    BY <2>1, <2>2, RecordAccounted
  <2>3. CASE UNCHANGED <<runs, written>>
    BY <1>3, <2>1, <2>3
  <2> QED
    BY <1>6, <2>2, <2>3 DEF RecordGood, RecordBad
<1>7. ASSUME NEW w \in Webhook, CreateWebhook(w) \/ UpdateWebhook(w) \/ DeleteWebhook(w)
      PROVE  LostInv'
  <2>1. /\ UNCHANGED <<snap, written>>
        /\ \/ runs' = runs /\ rows' \subseteq rows
           \/ runs' = runs /\ rows' = rows \cup {w} /\ written[w] = <<>>
           \/ runs' = [runs EXCEPT ![w] = <<>>] /\ rows' = rows \ {w}
    BY <1>7 DEF CreateWebhook, UpdateWebhook, DeleteWebhook, senderVars, history
  <2>2. ASSUME NEW x \in Webhook, NEW v \in Views(x)'  PROVE v \in Views(x) \/ v.seen = 0
    <3>1. \/ v \in Views(x)
          \/ x \in rows' /\ v = [runs |-> runs'[x], seen |-> Len(written[x])]
      BY <2>1, <2>2 DEF Views
    <3>2. CASE x \in rows' /\ v = [runs |-> runs'[x], seen |-> Len(written[x])]
      <4>1. x \in rows => runs'[x] = runs[x]
        BY <1>0, <2>1, <3>2 DEF WebhooksTypeOK
      <4>2. x \notin rows => written[x] = <<>>
        BY <2>1, <3>2
      <4> QED
        BY <3>2, <4>1, <4>2 DEF Views
    <3> QED
      BY <3>1, <3>2
  <2> QED
    BY <1>1, <2>1, <2>2
<1>8. ASSUME NEW s \in Sender, \/ NextWebhook(s) \/ PostAccepted(s) \/ PostRetries(s)
                               \/ PostFails(s) \/ DatabaseFails(s)
      PROVE  LostInv'
  BY <1>3, <1>8
     DEF NextWebhook, PostAccepted, PostRetries, PostFails, DatabaseFails, tableVars, history
<1>9. CASE UNCHANGED webhookVars
  BY <1>3, <1>9 DEF webhookVars
<1> QED
  BY <1>4, <1>5, <1>6, <1>7, <1>8, <1>9 DEF WebhooksNext, SenderStep

(***************************************************************************)
(* Webhooks: what is sent                                                  *)
(***************************************************************************)

LEMMA SentInit == WebhooksInit => SentInv
<1> SUFFICES ASSUME WebhooksInit, NEW s \in Sender  PROVE Sent(s)
  BY DEF SentInv
<1>1. /\ todo[s] = {} /\ chosen[s] = {} /\ tried[s] = {} /\ no[s] = 1
      /\ pc[s] = IF AlertsOf[s] = <<>> THEN "done" ELSE "read"
  BY DEF WebhooksInit
<1>2. pc[s] = "done" => Len(AlertsOf[s]) = 0
  BY <1>1
<1> QED
  BY <1>1, <1>2 DEF Sent, Posting

LEMMA SentStays ==
    ASSUME NEW t, Sent(t),
           UNCHANGED <<no[t], pc[t], todo[t], hook[t], chosen[t], tried[t], failed[t]>>
    PROVE  Sent(t)'
BY DEF Sent, Remaining, Pair, Current

LEMMA SentStep ==
    ASSUME HookTypes, SentInv, [WebhooksNext]_webhookVars  PROVE SentInv'
<1>0. WebhooksTypeOK
  BY DEF HookTypes
<1>1. CASE UNCHANGED <<senderVars, chosen, tried, failed>>
  BY <1>1, SentStays DEF SentInv, senderVars
<1>2. ASSUME NEW s \in Sender, SenderStep(s)  PROVE SentInv'
  <2>1. \A t \in Sender : t # s =>
           UNCHANGED <<no[t], pc[t], todo[t], hook[t], chosen[t], tried[t], failed[t]>>
    <3>1. \A t \in Sender : t # s => UNCHANGED <<no[t], pc[t], todo[t], hook[t]>>
      BY <1>0, <1>2 DEF SenderStep, ReadWebhooks, NextWebhook, NextAlert, PostAccepted,
             PostRetries, PostFails, RecordGood, RecordBad, DatabaseFails, NextRound, Goto,
             WebhooksTypeOK
    <3>2. \A t \in Sender : t # s => UNCHANGED <<chosen[t], tried[t], failed[t]>>
      BY <1>0, <1>2 DEF SenderStep, ReadWebhooks, NextWebhook, NextAlert, PostAccepted,
             PostRetries, PostFails, RecordGood, RecordBad, DatabaseFails, Try, history,
             WebhooksTypeOK
    <3> QED
      BY <3>1, <3>2
  <2> SUFFICES Sent(s)'
    BY <2>1, SentStays DEF SentInv
  <2>s. Sent(s)
    BY DEF SentInv
  <2>2. CASE ReadWebhooks(s)
    <3> DEFINE M == Matching(Current(s))
    <3>1. /\ pc[s] = "read" /\ pc'[s] = "next" /\ todo'[s] = M
          /\ chosen'[s] = chosen[s] \cup ({Current(s)} \X M)
          /\ Current(s)' = Current(s) /\ tried' = tried
      BY <1>0, <2>2 DEF ReadWebhooks, Goto, WebhooksTypeOK, Current
    <3>2. chosen[s] \subseteq tried[s]
      BY <2>s, <3>1 DEF Sent, Remaining
    <3> HIDE DEF M
    <3>3. \A w \in M : <<Current(s), w>> \in chosen'[s]
      BY <3>1
    <3>4. \A p \in {Current(s)} \X M : \E w \in M : p = <<Current(s), w>>
      OBVIOUS
    <3>5. chosen'[s] \subseteq tried'[s] \cup Remaining(s)'
      BY <3>1, <3>2, <3>4 DEF Remaining
    <3> QED
      BY <2>s, <3>1, <3>3, <3>5 DEF Sent, Posting
  <2>3. CASE NextWebhook(s)
    <3>1. PICK w \in todo[s] : hook' = [hook EXCEPT ![s] = w] /\ todo' = [todo EXCEPT ![s] = @ \ {w}]
      BY <2>3 DEF NextWebhook
    <3>2. /\ pc[s] = "next" /\ pc'[s] = "post" /\ hook'[s] = w /\ todo'[s] = todo[s] \ {w}
          /\ UNCHANGED <<chosen, tried, failed>> /\ Current(s)' = Current(s)
      BY <1>0, <2>3, <3>1 DEF NextWebhook, Goto, WebhooksTypeOK, Current, history
    <3>3. Remaining(s) \subseteq Remaining(s)'
      BY <3>1, <3>2 DEF Remaining
    <3> QED
      BY <2>s, <3>1, <3>2, <3>3 DEF Sent, Pair
  <2>4. CASE NextAlert(s)
    <3>1. /\ pc[s] = "next" /\ todo[s] = {} /\ todo' = todo /\ UNCHANGED <<chosen, tried, failed>>
          /\ no[s] \in 1..Len(AlertsOf[s]) /\ Len(AlertsOf[s]) \in Nat
          /\ pc'[s] = "read" \/ (pc'[s] = "done" /\ no'[s] = no[s] /\ no[s] >= Len(AlertsOf[s]))
      <4>1. pc[s] = "next" /\ todo[s] = {} /\ UNCHANGED <<todo, chosen, tried, failed>>
        BY <2>4 DEF NextAlert, history
      <4>2. no[s] \in 1..Len(AlertsOf[s]) /\ Len(AlertsOf[s]) \in Nat
        BY <4>1, CurrentAlert
      <4> QED
        BY <1>0, <2>4, <4>1, <4>2 DEF NextAlert, Goto, WebhooksTypeOK
    <3>2. chosen[s] \subseteq tried[s]
      BY <2>s, <3>1 DEF Sent, Remaining
    <3> QED
      BY <2>s, <3>1, <3>2 DEF Sent, Posting
  <2>5. CASE PostAccepted(s) \/ PostRetries(s) \/ PostFails(s)
    <3>1. /\ pc[s] = "post" /\ pc'[s] \in Posting /\ UNCHANGED <<no, todo, hook, chosen>>
          /\ tried'[s] = tried[s] \cup {Pair(s)}
      BY <1>0, <2>5 DEF PostAccepted, PostRetries, PostFails, Goto, Try, WebhooksTypeOK, Posting
    <3>2. Pair(s)' = Pair(s) /\ Current(s)' = Current(s) /\ Pair(s) = <<Current(s), hook[s]>>
      BY <3>1 DEF Pair, Current
    <3>3. Remaining(s) \subseteq {Pair(s)} \cup Remaining(s)'
      BY <3>1, <3>2 DEF Remaining
    <3>4. pc'[s] # "read" /\ pc'[s] # "done"
      BY <3>1 DEF Posting
    <3> QED
      BY <2>s, <3>1, <3>2, <3>3, <3>4 DEF Sent, Posting
  <2>6. CASE RecordGood(s) \/ RecordBad(s)
    <3>1. /\ pc[s] \in {"record", "recordBad"} /\ UNCHANGED <<no, todo, chosen, tried, failed>>
          /\ pc'[s] = "next" \/ (pc'[s] = "recordBad" /\ hook' = hook)
      BY <1>0, <2>6 DEF RecordGood, RecordBad, NextRound, Goto, WebhooksTypeOK
    <3>2. Current(s)' = Current(s) /\ (hook' = hook => Pair(s)' = Pair(s))
      BY <3>1 DEF Current, Pair
    <3>3. Remaining(s)' = Remaining(s)
      BY <3>1, <3>2 DEF Remaining
    <3> QED
      BY <2>s, <3>1, <3>2, <3>3 DEF Sent, Posting
  <2>7. CASE DatabaseFails(s)
    <3>1. /\ pc'[s] = "done" /\ failed'[s] /\ UNCHANGED <<no, todo, chosen, tried>>
      BY <1>0, <2>7 DEF DatabaseFails, Goto, WebhooksTypeOK
    <3> QED
      BY <2>s, <3>1 DEF Sent, Posting, Current
  <2> QED
    BY <1>2, <2>2, <2>3, <2>4, <2>5, <2>6, <2>7 DEF SenderStep
<1>3. ASSUME NEW w \in Webhook, CreateWebhook(w) \/ UpdateWebhook(w) \/ DeleteWebhook(w)
      PROVE  SentInv'
  BY <1>1, <1>3 DEF CreateWebhook, UpdateWebhook, DeleteWebhook, history
<1>4. CASE UNCHANGED webhookVars
  BY <1>1, <1>4 DEF webhookVars, senderVars
<1> QED
  BY <1>2, <1>3, <1>4 DEF WebhooksNext

(***************************************************************************)
(* Webhooks: the theorems                                                  *)
(***************************************************************************)

HooksInv == HookTypes /\ HonestInv /\ LostInv /\ SentInv

LEMMA WebhooksInvariant == WebhooksSpec => []HooksInv
<1>1. WebhooksInit => HooksInv
  BY HookTypesInit, HonestInit, LostInit, SentInit DEF HooksInv
<1>2. HooksInv /\ [WebhooksNext]_webhookVars => HooksInv'
  BY HookTypesStep, HonestStep, LostStep, SentStep DEF HooksInv
<1> QED
  BY <1>1, <1>2, PTL DEF WebhooksSpec

\* The variables of Webhooks keep their types, no list gets longer than the runs
\* that are kept, and a sender that has not ended is at one of its alerts.
THEOREM WebhooksTypeCorrect == WebhooksSpec => []WebhooksTypeOK
<1>1. HooksInv => WebhooksTypeOK
  BY DEF HooksInv, HookTypes
<1> QED
  BY <1>1, WebhooksInvariant, PTL

\* A run that a webhook shows as ok was accepted by it, and it shows no alert
\* twice, however its senders interleave and users edit.
THEOREM RunsTellTheTruth == WebhooksSpec => []RunsAreTrue
<1>1. ASSUME HooksInv  PROVE RunsAreTrue
  <2>1. \A w \in Webhook : runs[w] \in Lists(w)
    BY DEF Lists
  <2> QED
    BY <1>1, <2>1 DEF HooksInv, HonestInv, Honest, RunsAreTrue
<1> QED
  BY <1>1, WebhooksInvariant, PTL

\* A run that was written and is gone from the list of its webhook was pushed out
\* by as many as are kept, or overwritten by a sender that had read the list
\* before it was written: that no lock is taken costs nothing else.
THEOREM RunsLostByOverlap == WebhooksSpec => []LostOnlyByOverlap
<1>1. ASSUME HooksInv  PROVE LostOnlyByOverlap
  <2> SUFFICES ASSUME NEW w \in rows, NEW i \in 1..Len(written[w])
               PROVE  \/ Shown(w, written[w][i].run)
                      \/ Len(written[w]) - i >= MaxRuns
                      \/ \E j \in 1..Len(written[w]) : j > i /\ written[w][j].seen < i
    BY DEF LostOnlyByOverlap
  <2>1. w \in Webhook
    BY <1>1 DEF HooksInv, HookTypes, WebhooksTypeOK
  <2>2. PICK v : v = [runs |-> runs[w], seen |-> Len(written[w])]
    OBVIOUS
  <2>3. v \in Views(w) /\ v.runs = runs[w] /\ v.seen = Len(written[w])
    BY <2>2 DEF Views
  <2>4. Accounted(v, w)
    BY <1>1, <2>1, <2>3 DEF HooksInv, LostInv
  <2> QED
    BY <2>3, <2>4 DEF Accounted, Shown
<1> QED
  BY <1>1, WebhooksInvariant, PTL

\* When a call of sendWebhookRequests ends and no query failed it, it has posted
\* every alert to every webhook that it read for it, and to no other.
THEOREM NothingLeftOut == WebhooksSpec => []NoneLeftOut
<1>1. ASSUME HooksInv  PROVE NoneLeftOut
  BY <1>1 DEF HooksInv, SentInv, Sent, NoneLeftOut
<1> QED
  BY <1>1, WebhooksInvariant, PTL
=============================================================================
