------------------------ MODULE TracePipelineProofs ------------------------
(***************************************************************************)
(* Theorems about TracePipeline for any sets of collectors, analyzers and  *)
(* traces, any paths and any bounds. The last one shows that the pipeline  *)
(* implements the at-most-once delivery of TraceDelivery.                  *)
(***************************************************************************)
EXTENDS TracePipeline, FiniteSetTheorems, TLAPS

(***************************************************************************)
(* Facts about sequences                                                   *)
(***************************************************************************)

LEMMA SeqSetType ==
    ASSUME NEW S, NEW s \in Seq(S)
    PROVE  SeqSet(s) \subseteq S
BY DEF SeqSet

\* Keeping the newest entries of a list yields a list of the same elements.
LEMMA NewestType ==
    ASSUME NEW S, NEW s \in Seq(S)
    PROVE  Newest(s) \in Seq(S)
<1> DEFINE n == IF Len(s) < Retention THEN Len(s) ELSE Retention
<1>1. n \in 0..Len(s)
    BY BoundAssumption
<1>2. SubSeq(s, 1, n) \in Seq(S)
    BY <1>1
<1> QED
    BY <1>2 DEF Newest

(***************************************************************************)
(* Type correctness                                                        *)
(***************************************************************************)

LEMMA InitTypeOK == Init => TypeOK
BY NoneAssumption DEF Init, TypeOK, PC, Cause

LEMMA CollectorTypeOK ==
    ASSUME TypeOK, NEW c \in Collector,
           Accept(c) \/ CollectorStep(c) \/ AbortRequest(c)
    PROVE  TypeOK'
<1> USE DEF TypeOK, collectorVars, analyzerVars, dbVars
<1>1. CASE Accept(c)
    <2> PICK n \in 1..MaxBatch : \E b \in [1..n -> Trace \ sent] :
                batch' = [batch EXCEPT ![c] = b] /\ sent' = sent \cup SeqSet(b)
        BY <1>1 DEF Accept
    <2> PICK b \in [1..n -> Trace \ sent] :
                batch' = [batch EXCEPT ![c] = b] /\ sent' = sent \cup SeqSet(b)
        OBVIOUS
    <2>1. b \in Seq(Trace) /\ b # <<>>
        BY BoundAssumption
    <2>2. SeqSet(b) \subseteq Trace
        BY <2>1, SeqSetType
    <2> QED
        BY <1>1, <2>1, <2>2 DEF Accept
<1>2. CASE DropOverload(c)
    BY <1>2 DEF DropOverload, GiveUp, Cause
<1>3. CASE Admit(c)
    BY <1>3 DEF Admit, LengthAccepted
<1>4. CASE RejectInvalid(c)
    BY <1>4 DEF RejectInvalid, LengthAccepted, GiveUp, Cause
<1>5. CASE Enqueue(c)
    BY <1>5 DEF Enqueue
<1>6. CASE AbortRequest(c)
    BY <1>6 DEF AbortRequest, GiveUp, Cause
<1> QED
    BY <1>1, <1>2, <1>3, <1>4, <1>5, <1>6 DEF CollectorStep

LEMMA AnalyzerTypeOK ==
    ASSUME TypeOK, NEW a \in Analyzer, AnalyzerStep(a) \/ FailAnalysis(a)
    PROVE  TypeOK'
<1> USE NoneAssumption
    DEF TypeOK, PC, Cause, collectorVars, analyzerVars, dbVars, Goto
<1>1. CASE Pop(a)
    BY <1>1 DEF Pop
<1>2. CASE LookupFound(a)
    BY <1>2 DEF LookupFound, AnalyzeWith, BestMatches
<1>3. CASE LookupMissing(a)
    BY <1>3 DEF LookupMissing
<1>4. CASE LookupIgnored(a)
    BY <1>4 DEF LookupIgnored, GiveUp, Release
<1>5. CASE CreateEndpoint(a)
    BY <1>5 DEF CreateEndpoint, AnalyzeWith
<1>6. CASE LoseCreationRace(a)
    BY <1>6 DEF LoseCreationRace
<1>7. CASE RecoverFound(a)
    BY <1>7 DEF RecoverFound, AnalyzeWith, WinnersRow
<1>8. CASE RecoverMissing(a)
    BY <1>8 DEF RecoverMissing, GiveUp, Release
<1>9. CASE InsertTrace(a)
    BY <1>9 DEF InsertTrace
<1>10. CASE FieldsClash(a)
    BY <1>10 DEF FieldsClash
<1>11. CASE PushRecent(a)
    <2>1. /\ cur[a] \in Trace
          /\ target[a] \in Trace
        BY <1>11 DEF PushRecent
    <2>2. <<cur[a]>> \o recent[target[a]] \in Seq(Trace)
        BY <2>1
    <2>3. Newest(<<cur[a]>> \o recent[target[a]]) \in Seq(Trace)
        BY <2>2, NewestType
    <2> DEFINE r == Newest(<<cur[a]>> \o recent[target[a]])
    <2>3a. recent' = [recent EXCEPT ![target[a]] = r] \/ recent' = recent
        BY <1>11 DEF PushRecent
    <2>3b. r \in Seq(Trace)
        BY <2>3
    <2>3c. recent \in [Trace -> Seq(Trace)]
        OBVIOUS
    <2>4. recent' \in [Trace -> Seq(Trace)]
        <3> HIDE DEF TypeOK, r
        <3> QED
            BY ONLY <2>1, <2>3a, <2>3b, <2>3c
    <2>5. /\ UNCHANGED <<collectorVars, queue, cur, target, isNew, dbVars, sent,
                        deleted, notified, cause, llenFailures>>
          /\ pc' = [pc EXCEPT ![a] = "pushed"]
          /\ pc[a] = "inserted"
        BY <1>11 DEF PushRecent
    <2> QED
        BY <2>1, <2>4, <2>5
<1>12. CASE Commit(a)
    BY <1>12 DEF Commit
<1>13. CASE Notify(a)
    BY <1>13 DEF Notify, Release
<1>14. CASE FailAnalysis(a)
    BY <1>14 DEF FailAnalysis, GiveUp, Release
<1> QED
    BY <1>1, <1>2, <1>3, <1>4, <1>5, <1>6, <1>7, <1>8, <1>9, <1>10, <1>11,
       <1>12, <1>13, <1>14 DEF AnalyzerStep

LEMMA DeleteTypeOK ==
    ASSUME TypeOK, NEW e \in Trace, DeleteEndpoint(e)
    PROVE  TypeOK'
BY DEF TypeOK, DeleteEndpoint, collectorVars, analyzerVars, dbVars

LEMMA NextTypeOK == TypeOK /\ [Next]_vars => TypeOK'
<1> SUFFICES ASSUME TypeOK, [Next]_vars
             PROVE  TypeOK'
    OBVIOUS
<1>1. CASE UNCHANGED vars
    BY <1>1 DEF TypeOK, vars
<1> QED
    BY <1>1, CollectorTypeOK, AnalyzerTypeOK, DeleteTypeOK DEF Next

\* Every state of the pipeline is well typed: an analyzer holds a trace exactly
\* while it is busy, and an endpoint from the analysis to the notification.
THEOREM TypeCorrect == Spec => []TypeOK
BY InitTypeOK, NextTypeOK, PTL DEF Spec

(***************************************************************************)
(* The queue                                                               *)
(***************************************************************************)

LEMMA QueueBoundedStep ==
    ASSUME TypeOK, QueueBounded, [Next]_vars
    PROVE  QueueBounded'
<1> DEFINE AC == AdmittedCollectors
<1>1. /\ AC \subseteq Collector /\ IsFiniteSet(AC) /\ IsFiniteSet(Collector)
      /\ Cardinality(AC) \in Nat /\ Cardinality(Collector) \in Nat
    BY SetsAssumption, FS_Subset, FS_CardinalityType DEF AdmittedCollectors
<1>2. ASSUME NEW c \in Collector, Admit(c)
      PROVE  QueueBounded'
    <2>1. AC' = AC \cup {c} /\ c \notin AC
        BY <1>2 DEF TypeOK, Admit, AdmittedCollectors
    <2>2. Cardinality(AC') = Cardinality(AC) + 1
        BY <1>1, <2>1, FS_AddElement
    <2>3. Cardinality(AC') <= Cardinality(Collector)
        BY <1>1, <2>1, FS_Subset
    <2>4. \/ Len(queue) <= QueueLimit /\ llenFailures' = llenFailures
          \/ llenFailures' = llenFailures + 1
        BY <1>2 DEF Admit, LengthAccepted
    <2>5. queue' = queue
        BY <1>2 DEF Admit
    <2>6. /\ Len(queue) \in Nat /\ llenFailures \in Nat /\ QueueLimit \in Nat
        BY BoundAssumption DEF TypeOK
    <2> QED
        BY <1>1, <2>2, <2>3, <2>4, <2>5, <2>6 DEF QueueBounded
<1>3. ASSUME NEW c \in Collector, Enqueue(c)
      PROVE  QueueBounded'
    <2>1. AC' = AC \ {c} /\ c \in AC
        BY <1>3 DEF TypeOK, Enqueue, AdmittedCollectors
    <2>2. Cardinality(AC') = Cardinality(AC) - 1
        BY <1>1, <2>1, FS_RemoveElement
    <2>3. Len(queue') = Len(queue) + 1 /\ Len(queue) \in Nat
        BY <1>3 DEF TypeOK, Enqueue
    <2>4. llenFailures' = llenFailures
        BY <1>3 DEF Enqueue
    <2> QED
        BY <1>1, <2>2, <2>3, <2>4, BoundAssumption DEF TypeOK, QueueBounded
<1>4. ASSUME AC' \subseteq AC, queue' = queue \/ (queue # <<>> /\ queue' = Tail(queue)),
             llenFailures' \in Nat, llenFailures' >= llenFailures
      PROVE  QueueBounded'
    <2>1. Cardinality(AC') <= Cardinality(AC) /\ Cardinality(AC') \in Nat
        BY <1>1, <1>4, FS_Subset, FS_CardinalityType
    <2>2. Len(queue') <= Len(queue) /\ Len(queue) \in Nat /\ Len(queue') \in Nat
        BY <1>4 DEF TypeOK
    <2> QED
        BY <1>1, <1>4, <2>1, <2>2, BoundAssumption DEF TypeOK, QueueBounded
<1>5. ASSUME NEW c \in Collector,
             Accept(c) \/ DropOverload(c) \/ RejectInvalid(c) \/ AbortRequest(c)
      PROVE  QueueBounded'
    <2>1. AC' \subseteq AC
        BY <1>5 DEF TypeOK, AdmittedCollectors, Accept, DropOverload,
            RejectInvalid, AbortRequest
    <2>2. queue' = queue
        BY <1>5 DEF Accept, DropOverload, RejectInvalid, AbortRequest
    <2>3. llenFailures' = llenFailures \/ llenFailures' = llenFailures + 1
        BY <1>5 DEF Accept, DropOverload, RejectInvalid, LengthAccepted,
            AbortRequest
    <2> QED
        BY <1>4, <2>1, <2>2, <2>3 DEF TypeOK
<1>6. ASSUME NEW a \in Analyzer, AnalyzerStep(a) \/ FailAnalysis(a)
      PROVE  QueueBounded'
    <2>1. UNCHANGED <<admitted, llenFailures>>
        BY <1>6 DEF AnalyzerStep, Pop, LookupFound, LookupMissing,
            LookupIgnored, CreateEndpoint, LoseCreationRace, RecoverFound,
            RecoverMissing, InsertTrace, FieldsClash, PushRecent, Commit,
            Notify, FailAnalysis, collectorVars
    <2>2. queue' = queue \/ (queue # <<>> /\ queue' = Tail(queue))
        BY <1>6 DEF AnalyzerStep, Pop, LookupFound, LookupMissing,
            LookupIgnored, CreateEndpoint, LoseCreationRace, RecoverFound,
            RecoverMissing, InsertTrace, FieldsClash, PushRecent, Commit,
            Notify, FailAnalysis
    <2> QED
        BY <1>4, <2>1, <2>2 DEF TypeOK, AdmittedCollectors
<1>7. ASSUME NEW e \in Trace, DeleteEndpoint(e)
      PROVE  QueueBounded'
    BY <1>4, <1>7 DEF TypeOK, AdmittedCollectors, DeleteEndpoint, collectorVars
<1>8. CASE UNCHANGED vars
    BY <1>4, <1>8 DEF TypeOK, AdmittedCollectors, vars
<1> QED
    BY <1>2, <1>3, <1>5, <1>6, <1>7, <1>8 DEF Next, CollectorStep

\* The queue never grows beyond its limit by more than one trace for each
\* request in flight and one for each failed length check, however many
\* collectors push at the same time.
THEOREM QueueStaysBounded == Spec => []QueueBounded
<1>1. Init => QueueBounded
    <2> SUFFICES ASSUME Init PROVE QueueBounded
        OBVIOUS
    <2>1. AdmittedCollectors = {}
        BY DEF Init, AdmittedCollectors
    <2>2. Cardinality(AdmittedCollectors) = 0
        BY <2>1, FS_EmptySet
    <2>3. Cardinality(Collector) \in Nat
        BY SetsAssumption, FS_CardinalityType
    <2> QED
        BY <2>2, <2>3, BoundAssumption DEF Init, QueueBounded
<1>2. TypeOK /\ QueueBounded /\ [Next]_vars => QueueBounded'
    BY QueueBoundedStep
<1> QED
    BY <1>1, <1>2, TypeCorrect, PTL DEF Spec

(***************************************************************************)
(* Rows and their endpoints                                                *)
(***************************************************************************)

Analyzing == {"analyze", "inserted", "pushed", "committed"}

\* The foreign key lock: the endpoint a transaction refers to is there.
RowsInv ==
    /\ RowsHaveEndpoint
    /\ \A a \in Analyzer :
        pc[a] \in {"inserted", "pushed"} => target[a] \in endpoints

Describes(e, t) ==
    \/ <<EndpointPath(e), PathOf[t]>> \in Regex
    \/ EndpointPath(e) \in {PathOf[t], EndpointPath(t)}

\* What is stored with a trace was found or made for its path.
PathInv ==
    /\ StoredUnderOwnPath
    /\ \A a \in Analyzer :
        pc[a] \in Analyzing => Describes(target[a], cur[a])

\* An analyzer made the endpoint that is new to it, for the path of its trace,
\* and one that recovers was beaten by an endpoint with the path it wanted.
RaceInv ==
    /\ RaceLosesOnlyParameterized
    /\ \A a \in Analyzer :
        isNew[a] /\ pc[a] \in Analyzing
            => target[a] = cur[a] /\ target[a] \in endpoints \cup deleted
    /\ \A a \in Analyzer : pc[a] = "recover" =>
        \E e \in endpoints \cup deleted : EndpointPath(e) = EndpointPath(cur[a])

RowInvariants == RowsInv /\ PathInv /\ RaceInv

LEMMA RowsInit == Init => RowInvariants
BY NoneAssumption DEF Init, RowInvariants, RowsInv, PathInv, RaceInv,
   RowsHaveEndpoint, StoredUnderOwnPath, RaceLosesOnlyParameterized, Analyzing

\* Steps that leave the analyzers and the rows alone keep the invariants: the
\* traces they give up did not lose a race.
LEMMA RowsUntouched ==
    ASSUME TypeOK, RowInvariants,
           UNCHANGED <<analyzerVars, dbVars, deleted>>,
           \A t \in Trace : cause'[t] = "race" => cause[t] = "race"
    PROVE  RowInvariants'
<1> USE DEF analyzerVars, dbVars
<1>1. RowsInv'
    BY DEF RowInvariants, RowsInv, RowsHaveEndpoint
<1>2. PathInv'
    BY DEF RowInvariants, PathInv, StoredUnderOwnPath, Describes, EndpointPath
<1>3. RaceInv'
    BY DEF RowInvariants, RaceInv, RaceLosesOnlyParameterized, EndpointPath
<1> QED
    BY <1>1, <1>2, <1>3 DEF RowInvariants

LEMMA RowsCollector ==
    ASSUME TypeOK, RowInvariants, NEW c \in Collector,
           Accept(c) \/ CollectorStep(c) \/ AbortRequest(c)
    PROVE  RowInvariants'
<1>1. UNCHANGED <<analyzerVars, dbVars, deleted>>
    BY DEF CollectorStep, Accept, DropOverload, Admit, RejectInvalid, Enqueue,
       AbortRequest
<1>2. \A t \in Trace : cause'[t] = "race" => cause[t] = "race"
    BY DEF TypeOK, CollectorStep, Accept, DropOverload, Admit, RejectInvalid,
       Enqueue, AbortRequest, GiveUp
<1> QED
    BY <1>1, <1>2, RowsUntouched

LEMMA RowsAnalyzer ==
    ASSUME TypeOK, RowInvariants, NEW a \in Analyzer,
           AnalyzerStep(a) \/ FailAnalysis(a)
    PROVE  RowsInv'
<1> USE DEF TypeOK, RowInvariants, RowsInv, RowsHaveEndpoint, dbVars, Goto
<1>1. CASE Pop(a)
    BY <1>1 DEF Pop
<1>2. CASE LookupFound(a)
    BY <1>2 DEF LookupFound, AnalyzeWith
<1>3. CASE LookupMissing(a)
    BY <1>3 DEF LookupMissing
<1>4. CASE LookupIgnored(a)
    BY <1>4 DEF LookupIgnored, Release
<1>5. CASE CreateEndpoint(a)
    BY <1>5 DEF CreateEndpoint, AnalyzeWith
<1>6. CASE LoseCreationRace(a)
    BY <1>6 DEF LoseCreationRace
<1>7. CASE RecoverFound(a)
    BY <1>7 DEF RecoverFound, AnalyzeWith
<1>8. CASE RecoverMissing(a)
    BY <1>8 DEF RecoverMissing, Release
<1>9. CASE InsertTrace(a)
    BY <1>9 DEF InsertTrace
<1>10. CASE FieldsClash(a)
    BY <1>10 DEF FieldsClash
<1>11. CASE PushRecent(a)
    BY <1>11 DEF PushRecent
<1>12. CASE Commit(a)
    BY <1>12 DEF Commit
<1>13. CASE Notify(a)
    BY <1>13 DEF Notify, Release
<1>14. CASE FailAnalysis(a)
    BY <1>14 DEF FailAnalysis, Release
<1> QED
    BY <1>1, <1>2, <1>3, <1>4, <1>5, <1>6, <1>7, <1>8, <1>9, <1>10, <1>11,
       <1>12, <1>13, <1>14 DEF AnalyzerStep

LEMMA PathsAnalyzer ==
    ASSUME TypeOK, RowInvariants, NEW a \in Analyzer,
           AnalyzerStep(a) \/ FailAnalysis(a)
    PROVE  PathInv'
<1> USE DEF TypeOK, RowInvariants, PathInv, StoredUnderOwnPath, Describes,
            Analyzing, dbVars, Goto, EndpointPath
<1>0. ASSUME NEW e \in Trace, NEW new, AnalyzeWith(a, e, new), UNCHANGED stored,
             Describes(e, cur[a])
      PROVE  PathInv'
    <2>1. /\ target'[a] = e /\ cur' = cur
          /\ \A b \in Analyzer \ {a} : pc'[b] = pc[b] /\ target'[b] = target[b]
        BY <1>0 DEF AnalyzeWith
    <2>2. ASSUME NEW b \in Analyzer, pc'[b] \in Analyzing
          PROVE  Describes(target'[b], cur'[b])
        <3> HIDE DEF Describes, Analyzing
        <3>1. CASE b = a
            BY <1>0, <2>1, <3>1
        <3>2. CASE b # a
            BY <2>1, <2>2, <3>2
        <3> QED
            BY <3>1, <3>2
    <2>3. StoredUnderOwnPath'
        BY <1>0
    <2> QED
        BY <2>2, <2>3
<1>1. CASE Pop(a)
    BY <1>1 DEF Pop
<1>2. CASE LookupFound(a)
    <2> PICK e \in BestMatches(PathOf[cur[a]]) : AnalyzeWith(a, e, FALSE)
        BY <1>2 DEF LookupFound
    <2>1. Describes(e, cur[a])
        BY DEF BestMatches
    <2>2. e \in Trace /\ UNCHANGED stored
        BY <1>2 DEF LookupFound, BestMatches
    <2> QED
        BY <1>0, <2>1, <2>2
<1>3. CASE LookupMissing(a)
    BY <1>3 DEF LookupMissing
<1>4. CASE LookupIgnored(a)
    BY <1>4 DEF LookupIgnored, Release
<1>5. CASE CreateEndpoint(a)
    <2>1. cur[a] \in Trace /\ Describes(cur[a], cur[a])
        BY <1>5 DEF CreateEndpoint
    <2>2. AnalyzeWith(a, cur[a], TRUE) /\ UNCHANGED stored
        BY <1>5 DEF CreateEndpoint
    <2> QED
        BY <1>0, <2>1, <2>2
<1>6. CASE LoseCreationRace(a)
    BY <1>6 DEF LoseCreationRace
<1>7. CASE RecoverFound(a)
    <2> PICK e \in WinnersRow(cur[a]) : AnalyzeWith(a, e, FALSE)
        BY <1>7 DEF RecoverFound
    <2>1. e \in Trace /\ Describes(e, cur[a])
        BY DEF WinnersRow
    <2>2. UNCHANGED stored
        BY <1>7 DEF RecoverFound
    <2> QED
        BY <1>0, <2>1, <2>2
<1>8. CASE RecoverMissing(a)
    BY <1>8 DEF RecoverMissing, Release
<1>9. CASE InsertTrace(a)
    BY <1>9 DEF InsertTrace
<1>10. CASE FieldsClash(a)
    BY <1>10 DEF FieldsClash
<1>11. CASE PushRecent(a)
    BY <1>11 DEF PushRecent
<1>12. CASE Commit(a)
    BY <1>12 DEF Commit
<1>13. CASE Notify(a)
    BY <1>13 DEF Notify, Release
<1>14. CASE FailAnalysis(a)
    BY <1>14 DEF FailAnalysis, Release
<1> QED
    BY <1>1, <1>2, <1>3, <1>4, <1>5, <1>6, <1>7, <1>8, <1>9, <1>10, <1>11,
       <1>12, <1>13, <1>14 DEF AnalyzerStep

LEMMA RacesAnalyzer ==
    ASSUME TypeOK, RowInvariants, NEW a \in Analyzer,
           AnalyzerStep(a) \/ FailAnalysis(a)
    PROVE  RaceInv'
<1> USE DEF TypeOK, RowInvariants, RaceInv, RaceLosesOnlyParameterized,
            Analyzing, dbVars, Goto, EndpointPath
<1>0. ASSUME Release(a), UNCHANGED <<endpoints, deleted>>,
             \A t \in Trace : cause'[t] = "race" =>
                \/ Parameterize[PathOf[t]] # PathOf[t]
                \/ \E e \in deleted : EndpointPath(e) = PathOf[t]
      PROVE  RaceInv'
    <2>1. RaceLosesOnlyParameterized'
        BY <1>0
    <2>2. /\ pc'[a] = "idle"
          /\ \A b \in Analyzer : b # a => /\ pc'[b] = pc[b]
                                         /\ cur'[b] = cur[b]
                                         /\ target'[b] = target[b]
                                         /\ isNew'[b] = isNew[b]
        BY <1>0 DEF Release
    <2>3. /\ ~(pc'[a] \in Analyzing) /\ pc'[a] # "recover"
          /\ UNCHANGED <<endpoints, deleted>>
        BY <1>0, <2>2
    <2>4. ASSUME NEW b \in Analyzer
          PROVE  isNew'[b] /\ pc'[b] \in Analyzing
                   => target'[b] = cur'[b] /\ target'[b] \in (endpoints \cup deleted)'
        <3> HIDE DEF Analyzing
        <3>1. CASE b = a
            BY <2>3, <3>1
        <3>2. CASE b # a
            <4>1. isNew[b] /\ pc[b] \in Analyzing
                    => target[b] = cur[b] /\ target[b] \in endpoints \cup deleted
                OBVIOUS
            <4> QED
                BY <2>2, <2>3, <3>2, <4>1
        <3> QED
            BY <3>1, <3>2
    <2>5. ASSUME NEW b \in Analyzer, pc'[b] = "recover"
          PROVE  \E e \in (endpoints \cup deleted)' :
                    Parameterize[PathOf[e]] = Parameterize[PathOf[cur'[b]]]
        <3>1. b # a /\ pc[b] = "recover" /\ cur'[b] = cur[b]
            BY <2>2, <2>3, <2>5
        <3>2. \E e \in endpoints \cup deleted :
                Parameterize[PathOf[e]] = Parameterize[PathOf[cur[b]]]
            BY <3>1
        <3> QED
            BY <2>3, <3>1, <3>2
    <2> QED
        BY <2>1, <2>4, <2>5
<1>1. CASE Pop(a)
    BY <1>1 DEF Pop
<1>2. CASE LookupFound(a)
    BY <1>2 DEF LookupFound, AnalyzeWith
<1>3. CASE LookupMissing(a)
    BY <1>3 DEF LookupMissing
<1>4. CASE LookupIgnored(a)
    BY <1>0, <1>4 DEF LookupIgnored, GiveUp
<1>5. CASE CreateEndpoint(a)
    BY <1>5 DEF CreateEndpoint, AnalyzeWith
<1>6. CASE LoseCreationRace(a)
    BY <1>6 DEF LoseCreationRace, Conflicts
<1>7. CASE RecoverFound(a)
    BY <1>7 DEF RecoverFound, AnalyzeWith
<1>8. CASE RecoverMissing(a)
    <2>1. cur[a] \in Trace
        BY <1>8 DEF RecoverMissing
    <2>2. \A e \in endpoints : EndpointPath(e) # PathOf[cur[a]]
        BY <1>8 DEF RecoverMissing, WinnersRow
    <2>3. PICK e \in endpoints \cup deleted : EndpointPath(e) = EndpointPath(cur[a])
        BY <1>8 DEF RecoverMissing
    <2>4. \/ Parameterize[PathOf[cur[a]]] # PathOf[cur[a]]
          \/ \E d \in deleted : EndpointPath(d) = PathOf[cur[a]]
        BY <2>2, <2>3
    <2>5. \A t \in Trace : cause'[t] = "race" => cause[t] = "race" \/ t = cur[a]
        BY <1>8 DEF RecoverMissing, GiveUp
    <2>6. Release(a) /\ UNCHANGED <<endpoints, deleted>>
        BY <1>8 DEF RecoverMissing
    <2>7. \A t \in Trace : cause'[t] = "race" =>
                \/ Parameterize[PathOf[t]] # PathOf[t]
                \/ \E d \in deleted : EndpointPath(d) = PathOf[t]
        BY <2>4, <2>5
    <2> QED
        BY <1>0, <2>6, <2>7
<1>9. CASE InsertTrace(a)
    BY <1>9 DEF InsertTrace
<1>10. CASE FieldsClash(a)
    BY <1>10 DEF FieldsClash
<1>11. CASE PushRecent(a)
    BY <1>11 DEF PushRecent
<1>12. CASE Commit(a)
    BY <1>12 DEF Commit
<1>13. CASE Notify(a)
    BY <1>0, <1>13 DEF Notify
<1>14. CASE FailAnalysis(a)
    <2>1. \A t \in Trace : cause'[t] = "race" => cause[t] = "race"
        BY <1>14 DEF FailAnalysis, GiveUp
    <2> QED
        BY <1>0, <1>14, <2>1 DEF FailAnalysis
<1> QED
    BY <1>1, <1>2, <1>3, <1>4, <1>5, <1>6, <1>7, <1>8, <1>9, <1>10, <1>11,
       <1>12, <1>13, <1>14 DEF AnalyzerStep

LEMMA RowsDelete ==
    ASSUME TypeOK, RowInvariants, NEW e \in Trace, DeleteEndpoint(e)
    PROVE  RowInvariants'
<1> USE DEF TypeOK, DeleteEndpoint, analyzerVars
<1>1. RowsInv'
    BY NoneAssumption DEF RowInvariants, RowsInv, RowsHaveEndpoint, Locked
<1>2. PathInv'
    BY DEF RowInvariants, PathInv, StoredUnderOwnPath, Describes, EndpointPath
<1>3. RaceInv'
    BY DEF RowInvariants, RaceInv, RaceLosesOnlyParameterized, EndpointPath
<1> QED
    BY <1>1, <1>2, <1>3 DEF RowInvariants

LEMMA RowsNext == TypeOK /\ RowInvariants /\ [Next]_vars => RowInvariants'
<1> SUFFICES ASSUME TypeOK, RowInvariants, [Next]_vars
             PROVE  RowInvariants'
    OBVIOUS
<1>1. ASSUME NEW a \in Analyzer, AnalyzerStep(a) \/ FailAnalysis(a)
      PROVE  RowInvariants'
    BY <1>1, RowsAnalyzer, PathsAnalyzer, RacesAnalyzer DEF RowInvariants
<1>2. CASE UNCHANGED vars
    BY <1>2, RowsUntouched DEF vars, analyzerVars, dbVars
<1> QED
    BY <1>1, <1>2, RowsCollector, RowsDelete DEF Next

LEMMA RowInvariantsHold == Spec => []RowInvariants
BY RowsInit, RowsNext, TypeCorrect, PTL DEF Spec

\* Whatever users delete while analyzers work, stored traces and alerts belong
\* to endpoints that exist: a transaction locks the endpoint it refers to.
THEOREM RowsKeepEndpoint == Spec => []RowsHaveEndpoint
<1>1. RowInvariants => RowsHaveEndpoint
    BY DEF RowInvariants, RowsInv
<1> QED
    BY <1>1, RowInvariantsHold, PTL

\* However analyzers race and recover, a trace is stored under an endpoint
\* whose path describes it.
THEOREM StoredWhereItBelongs == Spec => []StoredUnderOwnPath
<1>1. RowInvariants => StoredUnderOwnPath
    BY DEF RowInvariants, PathInv
<1> QED
    BY <1>1, RowInvariantsHold, PTL

\* A trace that lost the race to create its endpoint is lost in silence only if
\* its path has parameters or the endpoint of the winner was deleted.
THEOREM RaceLossesExplained == Spec => []RaceLosesOnlyParameterized
<1>1. RowInvariants => RaceLosesOnlyParameterized
    BY DEF RowInvariants, RaceInv
<1> QED
    BY <1>1, RowInvariantsHold, PTL

(***************************************************************************)
(* Sequences as sets                                                       *)
(***************************************************************************)

LEMMA EmptySeqSet == SeqSet(<<>>) = {} /\ Injective(<<>>)
BY DEF SeqSet, Injective

LEMMA AppendSet ==
    ASSUME NEW S, NEW s \in Seq(S), NEW x \in S
    PROVE  /\ SeqSet(Append(s, x)) = SeqSet(s) \cup {x}
           /\ Injective(s) /\ x \notin SeqSet(s) => Injective(Append(s, x))
<1> DEFINE r == Append(s, x)
<1>1. Len(r) = Len(s) + 1 /\ Len(s) \in Nat
    OBVIOUS
<1>2. \A i \in 1..Len(s) : r[i] = s[i]
    OBVIOUS
<1>3. r[Len(s) + 1] = x
    OBVIOUS
<1>4. \A i \in 1..Len(r) : i \in 1..Len(s) \/ i = Len(s) + 1
    BY <1>1
<1> HIDE DEF r
<1>5. SeqSet(r) = SeqSet(s) \cup {x}
    BY <1>1, <1>2, <1>3, <1>4 DEF SeqSet
<1>6. Injective(s) /\ x \notin SeqSet(s) => Injective(r)
    BY <1>1, <1>2, <1>3, <1>4 DEF SeqSet, Injective
<1> QED
    BY <1>5, <1>6 DEF r

LEMMA TailSet ==
    ASSUME NEW S, NEW s \in Seq(S), s # <<>>
    PROVE  /\ Head(s) \in SeqSet(s)
           /\ SeqSet(s) = {Head(s)} \cup SeqSet(Tail(s))
           /\ Injective(s) => Injective(Tail(s)) /\ Head(s) \notin SeqSet(Tail(s))
<1>1. /\ Len(s) \in Nat /\ Len(s) >= 1 /\ Head(s) = s[1]
      /\ Len(Tail(s)) = Len(s) - 1
    OBVIOUS
<1>2. \A i \in 1..Len(Tail(s)) : Tail(s)[i] = s[i + 1] /\ i + 1 \in 1..Len(s)
    BY <1>1
<1>3. \A i \in 1..Len(s) : i # 1 => i - 1 \in 1..Len(Tail(s)) /\ Tail(s)[i - 1] = s[i]
    BY <1>1
<1>4. Head(s) \in SeqSet(s)
    BY <1>1 DEF SeqSet
<1>5. SeqSet(s) \subseteq {Head(s)} \cup SeqSet(Tail(s))
    BY <1>1, <1>3 DEF SeqSet
<1>6. SeqSet(Tail(s)) \subseteq SeqSet(s)
    BY <1>1, <1>2 DEF SeqSet
<1>7. ASSUME Injective(s)
      PROVE  Injective(Tail(s)) /\ Head(s) \notin SeqSet(Tail(s))
    <2>1. Injective(Tail(s))
        BY <1>1, <1>2, <1>7 DEF Injective
    <2>2. \A i \in 1..Len(Tail(s)) : Tail(s)[i] # Head(s)
        BY <1>1, <1>2, <1>7 DEF Injective
    <2> QED
        BY <2>1, <2>2 DEF SeqSet
<1> QED
    BY <1>4, <1>5, <1>6, <1>7

(***************************************************************************)
(* What the steps do to the places of traces                               *)
(***************************************************************************)

Quiet ==
    /\ UNCHANGED <<batch, queue, cur, stored, sent, cause>>
    /\ \A a \in Analyzer : pc'[a] = "committed" <=> pc[a] = "committed"

GivesUp(a) ==
    /\ pc[a] \notin {"idle", "committed"}
    /\ \E why \in Cause : GiveUp({cur[a]}, why)
    /\ Release(a)
    /\ UNCHANGED <<batch, queue, stored, sent>>

ClearsBatch(c) ==
    /\ batch' = [batch EXCEPT ![c] = <<>>]
    /\ \E why \in Cause : GiveUp(SeqSet(batch[c]), why)
    /\ UNCHANGED <<queue, cur, pc, stored, sent>>

LEMMA QuietSteps ==
    ASSUME TypeOK, NEW a \in Analyzer,
           \/ LookupFound(a) \/ LookupMissing(a)
           \/ CreateEndpoint(a) \/ LoseCreationRace(a)
           \/ RecoverFound(a) \/ InsertTrace(a) \/ FieldsClash(a)
           \/ PushRecent(a)
    PROVE  Quiet
BY DEF TypeOK, Quiet, LookupFound, LookupMissing, CreateEndpoint,
   LoseCreationRace, RecoverFound, InsertTrace, FieldsClash, PushRecent,
   AnalyzeWith, Goto, collectorVars, dbVars

LEMMA GivingUpSteps ==
    ASSUME TypeOK, NEW a \in Analyzer,
           LookupIgnored(a) \/ RecoverMissing(a) \/ FailAnalysis(a)
    PROVE  GivesUp(a)
BY DEF TypeOK, GivesUp, LookupIgnored, RecoverMissing, FailAnalysis, Cause,
   collectorVars, dbVars

LEMMA ClearingSteps ==
    ASSUME TypeOK, NEW c \in Collector, RejectInvalid(c) \/ AbortRequest(c)
    PROVE  ClearsBatch(c)
BY DEF TypeOK, ClearsBatch, RejectInvalid, AbortRequest, Cause, analyzerVars,
   dbVars

(***************************************************************************)
(* One place at a time                                                     *)
(***************************************************************************)

\* Before some request carried it a trace is nowhere.
UnsentNowhere ==
    \A t \in Trace : t \notin sent =>
        /\ ~InCollector(t) /\ ~InQueue(t) /\ ~InAnalyzer(t)
        /\ stored[t] = None /\ cause[t] = "none"

Places == OnePlace /\ UnsentNowhere

LEMMA PlacesInit == Init => Places
<1> SUFFICES ASSUME Init
             PROVE  Places
    OBVIOUS
<1>1. \A c \in Collector : batch[c] = <<>>
    BY DEF Init
<1>2. queue = <<>> /\ \A a \in Analyzer : cur[a] = None
    BY DEF Init
<1> QED
    BY <1>1, <1>2, EmptySeqSet, NoneAssumption DEF Init, Places, OnePlace,
       UnsentNowhere, InCollector, InQueue, InAnalyzer, Waiting

LEMMA PlacesQuiet == TypeOK /\ Places /\ Quiet => Places'
BY DEF TypeOK, Places, OnePlace, UnsentNowhere, InCollector, InQueue,
   InAnalyzer, Waiting, Quiet

LEMMA PlacesAccept ==
    ASSUME TypeOK, Places, NEW c \in Collector, Accept(c)
    PROVE  Places'
<1> PICK n \in 1..MaxBatch : \E b \in [1..n -> Trace \ sent] :
        /\ \A i, j \in 1..n : i # j => b[i] # b[j]
        /\ batch' = [batch EXCEPT ![c] = b] /\ sent' = sent \cup SeqSet(b)
    BY DEF Accept
<1> PICK b \in [1..n -> Trace \ sent] :
        /\ \A i, j \in 1..n : i # j => b[i] # b[j]
        /\ batch' = [batch EXCEPT ![c] = b] /\ sent' = sent \cup SeqSet(b)
    OBVIOUS
<1>1. b \in Seq(Trace \ sent) /\ Len(b) = n
    BY BoundAssumption
<1>2. SeqSet(b) \subseteq Trace \ sent
    BY <1>1, SeqSetType
<1>3. Injective(b)
    BY <1>1 DEF Injective
<1>4. batch' = [batch EXCEPT ![c] = b] /\ sent' = sent \cup SeqSet(b)
    OBVIOUS
<1>5. UNCHANGED <<queue, cur, pc, stored, cause>>
    BY DEF Accept, analyzerVars, dbVars
<1>6. \A d \in Collector : batch'[d] = IF d = c THEN b ELSE batch[d]
    BY <1>4 DEF TypeOK
<1>7. OnePlace'
    BY <1>2, <1>3, <1>5, <1>6 DEF TypeOK, Places, OnePlace, UnsentNowhere,
       InCollector, InQueue, InAnalyzer, Waiting
<1>8. UnsentNowhere'
    BY <1>2, <1>4, <1>5, <1>6 DEF Places, UnsentNowhere, InCollector, InQueue,
       InAnalyzer
<1> QED
    BY <1>7, <1>8 DEF Places

\* A batch that loses its first trace or all of them to GiveUp.
LEMMA PlacesDrop ==
    ASSUME TypeOK, Places, NEW c \in Collector, DropOverload(c) \/ ClearsBatch(c)
    PROVE  Places'
<1> DEFINE lost == SeqSet(batch[c]) \ SeqSet(batch'[c])
<1>1. /\ batch' = [batch EXCEPT ![c] = batch'[c]]
      /\ UNCHANGED <<queue, cur, pc, stored, sent>>
    BY DEF TypeOK, DropOverload, ClearsBatch, analyzerVars, dbVars
<1>2. \A d \in Collector : d # c => batch'[d] = batch[d]
    BY <1>1 DEF TypeOK
<1>3. SeqSet(batch'[c]) \subseteq SeqSet(batch[c]) /\ Injective(batch'[c])
    <2>1. CASE DropOverload(c)
        <3>1. batch'[c] = Tail(batch[c]) /\ batch[c] # <<>>
            BY <2>1 DEF TypeOK, DropOverload
        <3> QED
            BY <3>1, TailSet DEF TypeOK, Places, OnePlace
    <2>2. CASE ClearsBatch(c)
        BY <2>2, EmptySeqSet DEF TypeOK, ClearsBatch
    <2> QED
        BY <2>1, <2>2
<1>4. \A t \in Trace : cause'[t] # cause[t] => t \in lost
    <2>1. CASE DropOverload(c)
        <3>1. /\ batch'[c] = Tail(batch[c]) /\ batch[c] # <<>>
              /\ \A t \in Trace : cause'[t] # cause[t] => t = Head(batch[c])
            BY <2>1 DEF TypeOK, DropOverload, GiveUp
        <3>2. batch[c] \in Seq(Trace) /\ Injective(batch[c])
            BY DEF TypeOK, Places, OnePlace
        <3>3. Head(batch[c]) \in SeqSet(batch[c]) /\ Head(batch[c]) \notin SeqSet(Tail(batch[c]))
            BY <3>1, <3>2, TailSet
        <3> QED
            BY <3>1, <3>3
    <2>2. CASE ClearsBatch(c)
        BY <2>2, EmptySeqSet DEF TypeOK, ClearsBatch, GiveUp
    <2> QED
        BY <2>1, <2>2
<1>5. \A t \in lost : ~InQueue(t) /\ ~InAnalyzer(t) /\ t \in Trace
    BY SeqSetType DEF TypeOK, Places, OnePlace, InCollector
<1>6. OnePlace'
    <2>1. \A d, e \in Collector :
            d # e => SeqSet(batch'[d]) \cap SeqSet(batch'[e]) = {}
        BY <1>2, <1>3 DEF Places, OnePlace
    <2>2. /\ Injective(queue')
          /\ \A d \in Collector : Injective(batch'[d])
          /\ \A a, b \in Analyzer : cur'[a] # None /\ cur'[a] = cur'[b] => a = b
        BY <1>1, <1>2, <1>3 DEF Places, OnePlace
    <2>3. ASSUME NEW t \in Trace
          PROVE  /\ InCollector(t)' => InCollector(t) /\ t \notin lost
                 /\ InQueue(t)' <=> InQueue(t)
                 /\ InAnalyzer(t)' <=> InAnalyzer(t)
                 /\ Waiting(t)' <=> Waiting(t)
        <3>1. InCollector(t)' => InCollector(t)
            BY <1>2, <1>3 DEF InCollector
        <3>2. t \in lost => ~InCollector(t)'
            BY <1>2 DEF Places, OnePlace, InCollector
        <3> QED
            BY <1>1, <3>1, <3>2 DEF InQueue, InAnalyzer, Waiting
    <2>4. \A t \in Trace : t \notin lost => cause'[t] = cause[t]
        BY <1>4
    <2>5. \A t \in Trace : Waiting(t) => InAnalyzer(t)
        BY DEF Waiting, InAnalyzer
    <2> HIDE DEF lost
    <2>6. ASSUME NEW t \in Trace
          PROVE  /\ InCollector(t)' => ~InQueue(t)' /\ ~InAnalyzer(t)'
                 /\ InQueue(t)' => ~InAnalyzer(t)'
                 /\ InCollector(t)' \/ InQueue(t)' \/ Waiting(t)'
                      => stored'[t] = None /\ cause'[t] = "none"
        BY <1>1, <1>5, <2>3, <2>4, <2>5 DEF Places, OnePlace
    <2> QED
        BY <2>1, <2>2, <2>6 DEF OnePlace
<1>7. UnsentNowhere'
    BY <1>1, <1>2, <1>3, <1>4, <1>5 DEF TypeOK, Places, UnsentNowhere,
       InCollector, InQueue, InAnalyzer
<1> QED
    BY <1>6, <1>7 DEF Places

LEMMA PlacesEnqueue ==
    ASSUME TypeOK, Places, NEW c \in Collector, Enqueue(c)
    PROVE  Places'
<1> DEFINE x == Head(batch[c])
<1>1. /\ UNCHANGED <<cur, pc, stored, sent, cause>>
      /\ queue' = Append(queue, x)
      /\ batch'[c] = Tail(batch[c])
      /\ \A d \in Collector : d # c => batch'[d] = batch[d]
    BY DEF TypeOK, Enqueue, analyzerVars, dbVars
<1>2. /\ x \in SeqSet(batch[c])
      /\ SeqSet(batch[c]) = {x} \cup SeqSet(batch'[c])
      /\ Injective(batch'[c]) /\ x \notin SeqSet(batch'[c])
    BY <1>1, TailSet DEF TypeOK, Places, OnePlace, Enqueue
<1>3. x \in Trace
    BY <1>2, SeqSetType DEF TypeOK
<1>4. ~InQueue(x) /\ ~InAnalyzer(x)
    BY <1>2, <1>3 DEF Places, OnePlace, InCollector
<1>5. SeqSet(queue') = SeqSet(queue) \cup {x} /\ Injective(queue')
    BY <1>1, <1>3, <1>4, AppendSet DEF TypeOK, Places, OnePlace, InQueue
<1> HIDE DEF x
<1>6. OnePlace'
    <2>1. \A d, e \in Collector :
            d # e => SeqSet(batch'[d]) \cap SeqSet(batch'[e]) = {}
        BY <1>1, <1>2 DEF Places, OnePlace
    <2>2. /\ Injective(queue')
          /\ \A d \in Collector : Injective(batch'[d])
          /\ \A a, b \in Analyzer : cur'[a] # None /\ cur'[a] = cur'[b] => a = b
        BY <1>1, <1>2, <1>5 DEF Places, OnePlace
    <2>3. ASSUME NEW t \in Trace
          PROVE  /\ InCollector(t)' => InCollector(t) /\ t # x
                 /\ InQueue(t)' <=> InQueue(t) \/ t = x
                 /\ InAnalyzer(t)' <=> InAnalyzer(t)
                 /\ Waiting(t)' <=> Waiting(t)
        <3>1. ASSUME NEW d \in Collector, t \in SeqSet(batch'[d])
              PROVE  t \in SeqSet(batch[d]) /\ t # x
            <4>1. CASE d = c
                BY <1>2, <3>1, <4>1
            <4>2. CASE d # c
                BY <1>1, <1>2, <3>1, <4>2 DEF Places, OnePlace
            <4> QED
                BY <4>1, <4>2
        <3>2. InCollector(t)' => InCollector(t) /\ t # x
            BY <3>1 DEF InCollector
        <3>3. InQueue(t)' <=> InQueue(t) \/ t = x
            BY <1>5 DEF InQueue
        <3> QED
            BY <1>1, <3>2, <3>3 DEF InAnalyzer, Waiting
    <2>4. InCollector(x)
        BY <1>2 DEF InCollector
    <2>5. ASSUME NEW t \in Trace
          PROVE  /\ InCollector(t)' => ~InQueue(t)' /\ ~InAnalyzer(t)'
                 /\ InQueue(t)' => ~InAnalyzer(t)'
                 /\ InCollector(t)' \/ InQueue(t)' \/ Waiting(t)'
                      => stored'[t] = None /\ cause'[t] = "none"
        BY <1>1, <1>4, <2>3, <2>4 DEF Places, OnePlace
    <2> QED
        BY <2>1, <2>2, <2>5 DEF OnePlace
<1>7. ASSUME NEW t \in Trace, t \notin sent'
      PROVE  /\ ~InCollector(t)' /\ ~InQueue(t)' /\ ~InAnalyzer(t)'
             /\ stored'[t] = None /\ cause'[t] = "none"
    <2>1. /\ ~InCollector(t) /\ ~InQueue(t) /\ ~InAnalyzer(t)
          /\ stored[t] = None /\ cause[t] = "none"
        BY <1>1, <1>7 DEF Places, UnsentNowhere
    <2>2. t # x
        BY <1>2, <2>1 DEF InCollector
    <2>3. ~InCollector(t)'
        BY <1>1, <1>2, <2>1 DEF InCollector
    <2> QED
        BY <1>1, <1>5, <2>1, <2>2, <2>3 DEF InQueue, InAnalyzer
<1>8. UnsentNowhere'
    BY <1>7 DEF UnsentNowhere
<1> QED
    BY <1>6, <1>8 DEF Places

LEMMA PlacesPop ==
    ASSUME TypeOK, Places, NEW a \in Analyzer, Pop(a)
    PROVE  Places'
<1> DEFINE x == Head(queue)
<1>1. /\ UNCHANGED <<batch, stored, sent, cause>>
      /\ pc[a] = "idle" /\ cur[a] = None
      /\ queue # <<>> /\ queue' = Tail(queue)
      /\ cur'[a] = x
      /\ \A b \in Analyzer : b # a => cur'[b] = cur[b] /\ pc'[b] = pc[b]
    BY DEF TypeOK, Pop, Goto, collectorVars, dbVars
<1>2. queue \in Seq(Trace) /\ Injective(queue)
    BY DEF TypeOK, Places, OnePlace
<1>3. /\ x \in SeqSet(queue) /\ x \notin SeqSet(queue')
      /\ SeqSet(queue) = {x} \cup SeqSet(queue') /\ Injective(queue')
    BY <1>1, <1>2, TailSet
<1>4. x \in Trace /\ x # None
    BY <1>2, <1>3, SeqSetType, NoneAssumption
<1> HIDE DEF x
<1>5. /\ InQueue(x) /\ ~InCollector(x) /\ ~InAnalyzer(x)
      /\ stored[x] = None /\ cause[x] = "none"
    BY <1>3, <1>4 DEF Places, OnePlace, InQueue
<1>6. ASSUME NEW t \in Trace
      PROVE  /\ InCollector(t)' <=> InCollector(t)
             /\ InQueue(t)' <=> InQueue(t) /\ t # x
             /\ InAnalyzer(t)' <=> InAnalyzer(t) \/ t = x
             /\ Waiting(t)' => Waiting(t) \/ t = x
    <2>1. InQueue(t)' <=> InQueue(t) /\ t # x
        BY <1>3 DEF InQueue
    <2>2. InAnalyzer(t)' <=> InAnalyzer(t) \/ t = x
        BY <1>1, NoneAssumption DEF InAnalyzer
    <2>3. Waiting(t)' => Waiting(t) \/ t = x
        BY <1>1 DEF Waiting
    <2> QED
        BY <1>1, <2>1, <2>2, <2>3 DEF InCollector
<1>7. \A b, d \in Analyzer : cur'[b] # None /\ cur'[b] = cur'[d] => b = d
    BY <1>1, <1>5 DEF Places, OnePlace, InAnalyzer
<1>8. ASSUME NEW t \in Trace
      PROVE  /\ InCollector(t)' => ~InQueue(t)' /\ ~InAnalyzer(t)'
             /\ InQueue(t)' => ~InAnalyzer(t)'
             /\ InCollector(t)' \/ InQueue(t)' \/ Waiting(t)'
                  => stored'[t] = None /\ cause'[t] = "none"
    BY <1>1, <1>5, <1>6 DEF Places, OnePlace
<1>9. OnePlace'
    BY <1>1, <1>3, <1>7, <1>8 DEF Places, OnePlace
<1>10. UnsentNowhere'
    BY <1>1, <1>5, <1>6 DEF Places, UnsentNowhere
<1> QED
    BY <1>9, <1>10 DEF Places

\* The steps after which an analyzer holds no trace: the trace is given up,
\* or it was stored before.
LEMMA PlacesRelease ==
    ASSUME TypeOK, Places, NEW a \in Analyzer, GivesUp(a) \/ Notify(a)
    PROVE  Places'
<1>1. /\ UNCHANGED <<batch, queue, stored, sent>>
      /\ cur'[a] = None /\ pc'[a] = "idle" /\ cur[a] # None
      /\ \A b \in Analyzer : b # a => cur'[b] = cur[b] /\ pc'[b] = pc[b]
    BY DEF TypeOK, GivesUp, Notify, Release, Goto, collectorVars, dbVars
<1>2. \A t \in Trace : cause'[t] # cause[t] => t = cur[a]
    BY DEF TypeOK, GivesUp, Notify, GiveUp
<1>3. \A b \in Analyzer : b # a => cur[b] # cur[a]
    BY <1>1 DEF Places, OnePlace
<1>4. ASSUME NEW t \in Trace
      PROVE  /\ InCollector(t)' <=> InCollector(t)
             /\ InQueue(t)' <=> InQueue(t)
             /\ InAnalyzer(t)' <=> InAnalyzer(t) /\ t # cur[a]
             /\ Waiting(t)' => Waiting(t) /\ t # cur[a]
    BY <1>1, <1>3, NoneAssumption DEF InCollector, InQueue, InAnalyzer, Waiting
<1>5. InAnalyzer(cur[a])
    BY DEF InAnalyzer
<1>6. OnePlace'
    <2>1. \A b, d \in Analyzer : cur'[b] # None /\ cur'[b] = cur'[d] => b = d
        BY <1>1 DEF Places, OnePlace
    <2>2. ASSUME NEW t \in Trace
          PROVE  /\ InCollector(t)' => ~InQueue(t)' /\ ~InAnalyzer(t)'
                 /\ InQueue(t)' => ~InAnalyzer(t)'
                 /\ InCollector(t)' \/ InQueue(t)' \/ Waiting(t)'
                      => stored'[t] = None /\ cause'[t] = "none"
        BY <1>1, <1>2, <1>4, <1>5 DEF Places, OnePlace
    <2> QED
        BY <1>1, <2>1, <2>2 DEF Places, OnePlace
<1>7. UnsentNowhere'
    BY <1>1, <1>2, <1>4, <1>5 DEF Places, UnsentNowhere
<1> QED
    BY <1>6, <1>7 DEF Places

LEMMA PlacesCommit ==
    ASSUME TypeOK, Places, NEW a \in Analyzer, Commit(a)
    PROVE  Places'
<1>1. /\ UNCHANGED <<batch, queue, cur, sent, cause>>
      /\ pc[a] = "pushed" /\ pc'[a] = "committed" /\ cur[a] \in Trace
      /\ \A b \in Analyzer : b # a => pc'[b] = pc[b]
      /\ \A t \in Trace : t # cur[a] => stored'[t] = stored[t]
    BY DEF TypeOK, Commit, Goto, collectorVars
<1>2. \A b \in Analyzer : b # a => cur[b] # cur[a]
    BY <1>1, NoneAssumption DEF Places, OnePlace
<1>3. ASSUME NEW t \in Trace
      PROVE  /\ InCollector(t)' <=> InCollector(t)
             /\ InQueue(t)' <=> InQueue(t)
             /\ InAnalyzer(t)' <=> InAnalyzer(t)
             /\ Waiting(t)' => Waiting(t) /\ t # cur[a]
    BY <1>1, <1>2 DEF InCollector, InQueue, InAnalyzer, Waiting
<1>4. InAnalyzer(cur[a])
    BY DEF InAnalyzer
<1>5. OnePlace'
    <2>1. ASSUME NEW t \in Trace
          PROVE  /\ InCollector(t)' => ~InQueue(t)' /\ ~InAnalyzer(t)'
                 /\ InQueue(t)' => ~InAnalyzer(t)'
                 /\ InCollector(t)' \/ InQueue(t)' \/ Waiting(t)'
                      => stored'[t] = None /\ cause'[t] = "none"
        BY <1>1, <1>3, <1>4 DEF Places, OnePlace
    <2> QED
        BY <1>1, <2>1 DEF Places, OnePlace
<1>6. UnsentNowhere'
    BY <1>1, <1>3, <1>4 DEF Places, UnsentNowhere
<1> QED
    BY <1>5, <1>6 DEF Places

LEMMA PlacesDelete ==
    ASSUME TypeOK, Places, NEW e \in Trace, DeleteEndpoint(e)
    PROVE  Places'
<1>1. /\ UNCHANGED <<batch, queue, cur, pc, sent, cause>>
      /\ \A t \in Trace : stored'[t] \in {stored[t], None}
    BY DEF TypeOK, DeleteEndpoint, collectorVars, analyzerVars
<1> QED
    BY <1>1 DEF Places, OnePlace, UnsentNowhere, InCollector, InQueue,
       InAnalyzer, Waiting

LEMMA PlacesNext == TypeOK /\ Places /\ [Next]_vars => Places'
<1> SUFFICES ASSUME TypeOK, Places, [Next]_vars
             PROVE  Places'
    OBVIOUS
<1>1. ASSUME NEW c \in Collector, Accept(c) \/ CollectorStep(c) \/ AbortRequest(c)
      PROVE  Places'
    <2>1. CASE Accept(c)
        BY <2>1, PlacesAccept
    <2>2. CASE DropOverload(c)
        BY <2>2, PlacesDrop
    <2>3. CASE Admit(c)
        BY <2>3, PlacesQuiet DEF Admit, Quiet, analyzerVars, dbVars
    <2>4. CASE RejectInvalid(c) \/ AbortRequest(c)
        BY <2>4, ClearingSteps, PlacesDrop
    <2>5. CASE Enqueue(c)
        BY <2>5, PlacesEnqueue
    <2> QED
        BY <1>1, <2>1, <2>2, <2>3, <2>4, <2>5 DEF CollectorStep
<1>2. ASSUME NEW a \in Analyzer, AnalyzerStep(a) \/ FailAnalysis(a)
      PROVE  Places'
    <2>1. CASE Pop(a)
        BY <2>1, PlacesPop
    <2>2. CASE LookupIgnored(a) \/ RecoverMissing(a) \/ FailAnalysis(a)
        BY <2>2, GivingUpSteps, PlacesRelease
    <2>3. CASE Commit(a)
        BY <2>3, PlacesCommit
    <2>4. CASE Notify(a)
        BY <2>4, PlacesRelease
    <2>5. CASE \/ LookupFound(a) \/ LookupMissing(a)
               \/ CreateEndpoint(a) \/ LoseCreationRace(a)
               \/ RecoverFound(a) \/ InsertTrace(a) \/ FieldsClash(a)
               \/ PushRecent(a)
        BY <2>5, QuietSteps, PlacesQuiet
    <2> QED
        BY <1>2, <2>1, <2>2, <2>3, <2>4, <2>5 DEF AnalyzerStep
<1>3. CASE \E e \in Trace : DeleteEndpoint(e)
    BY <1>3, PlacesDelete
<1>4. CASE UNCHANGED vars
    BY <1>4, PlacesQuiet DEF vars, Quiet
<1> QED
    BY <1>1, <1>2, <1>3, <1>4 DEF Next

\* However many collectors, analyzers and users act at a time, and whichever
\* of them fail, no trace is at two places: in two batches, twice in the queue,
\* with two analyzers, or still on the way when it was stored or given up.
THEOREM OnePlaceAtATime == Spec => []OnePlace
<1>1. Init => Places
    BY PlacesInit
<1>2. TypeOK /\ Places /\ [Next]_vars => Places'
    BY PlacesNext
<1>3. Spec => []TypeOK
    BY TypeCorrect
<1> QED
    BY <1>1, <1>2, <1>3, PTL DEF Spec, Places

(***************************************************************************)
(* Traces that are past a stage of the analysis                            *)
(***************************************************************************)

\* The trace was reported, and whoever still holds it is in one of the stages.
Past(t, stages) ==
    /\ t \in sent /\ ~InCollector(t) /\ ~InQueue(t)
    /\ \A a \in Analyzer : cur[a] = t => pc[a] \in stages

LateStages == {{"committed"}, {"pushed", "committed"}}

\* What is past a late stage never returns to an earlier one: no trace is
\* reported, queued or popped twice, and no transaction starts over after the
\* trace was pushed to the redis list.
LEMMA PastStable ==
    ASSUME TypeOK, [Next]_vars, NEW t \in Trace, NEW stages \in LateStages,
           Past(t, stages)
    PROVE  Past(t, stages)'
<1> USE DEF LateStages
<1>1. ASSUME NEW c \in Collector, Accept(c) \/ CollectorStep(c) \/ AbortRequest(c)
      PROVE  Past(t, stages)'
    <2>1. UNCHANGED <<cur, pc>>
        BY <1>1 DEF CollectorStep, Accept, DropOverload, Admit, RejectInvalid,
           Enqueue, AbortRequest, analyzerVars
    <2>2. t \in sent'
        BY <1>1 DEF Past, CollectorStep, Accept, DropOverload, Admit,
           RejectInvalid, Enqueue, AbortRequest
    <2>3. \A d \in Collector : d # c => batch'[d] = batch[d]
        BY <1>1 DEF TypeOK, CollectorStep, Accept, DropOverload, Admit,
           RejectInvalid, Enqueue, AbortRequest
    <2>4. t \notin SeqSet(batch'[c])
        <3>1. CASE Accept(c)
            <4> PICK n \in 1..MaxBatch : \E b \in [1..n -> Trace \ sent] :
                        batch' = [batch EXCEPT ![c] = b]
                BY <3>1 DEF Accept
            <4> PICK b \in [1..n -> Trace \ sent] :
                        batch' = [batch EXCEPT ![c] = b]
                OBVIOUS
            <4>1. b \in Seq(Trace \ sent) /\ batch'[c] = b
                BY BoundAssumption DEF TypeOK
            <4>2. SeqSet(b) \subseteq Trace \ sent
                BY <4>1, SeqSetType
            <4> QED
                BY <4>1, <4>2 DEF Past
        <3>2. CASE DropOverload(c) \/ Enqueue(c)
            <4>1. batch[c] # <<>> /\ batch'[c] = Tail(batch[c])
                BY <3>2 DEF TypeOK, DropOverload, Enqueue
            <4>2. SeqSet(batch[c]) = {Head(batch[c])} \cup SeqSet(batch'[c])
                BY <4>1, TailSet DEF TypeOK
            <4> QED
                BY <4>2 DEF Past, InCollector
        <3>3. CASE RejectInvalid(c) \/ AbortRequest(c)
            BY <3>3, EmptySeqSet DEF TypeOK, RejectInvalid, AbortRequest
        <3>4. CASE Admit(c)
            BY <3>4 DEF Admit, Past, InCollector
        <3> QED
            BY <1>1, <3>1, <3>2, <3>3, <3>4 DEF CollectorStep
    <2>5. t \notin SeqSet(queue')
        <3>1. CASE Enqueue(c)
            <4> DEFINE x == Head(batch[c])
            <4>1. /\ batch[c] \in Seq(Trace) /\ batch[c] # <<>>
                  /\ queue' = Append(queue, x) /\ queue \in Seq(Trace)
                BY <3>1 DEF TypeOK, Enqueue
            <4>2. x \in SeqSet(batch[c]) /\ x \in Trace
                BY <4>1, TailSet, SeqSetType
            <4> HIDE DEF x
            <4>3. SeqSet(queue') = SeqSet(queue) \cup {x}
                BY <4>1, <4>2, AppendSet
            <4> QED
                BY <4>2, <4>3 DEF Past, InCollector, InQueue
        <3>2. CASE ~Enqueue(c)
            BY <1>1, <3>2 DEF CollectorStep, Accept, DropOverload, Admit,
               RejectInvalid, AbortRequest, Past, InQueue
        <3> QED
            BY <3>1, <3>2
    <2> QED
        BY <2>1, <2>2, <2>3, <2>4, <2>5 DEF Past, InCollector, InQueue
<1>2. ASSUME NEW a \in Analyzer, AnalyzerStep(a) \/ FailAnalysis(a)
      PROVE  Past(t, stages)'
    <2>1. CASE Pop(a)
        <3> DEFINE x == Head(queue)
        <3>1. /\ UNCHANGED <<batch, sent>>
              /\ queue # <<>> /\ queue' = Tail(queue) /\ queue \in Seq(Trace)
              /\ cur'[a] = x
              /\ \A b \in Analyzer : b # a => cur'[b] = cur[b] /\ pc'[b] = pc[b]
            BY <2>1 DEF TypeOK, Pop, Goto, collectorVars
        <3>2. x \in SeqSet(queue) /\ SeqSet(queue) = {x} \cup SeqSet(queue')
            BY <3>1, TailSet
        <3> QED
            BY <3>1, <3>2 DEF Past, InCollector, InQueue
    <2>2. CASE ~Pop(a)
        <3>1. UNCHANGED <<batch, sent, queue>>
            BY <1>2, <2>2 DEF AnalyzerStep, LookupFound, LookupMissing,
               LookupIgnored, CreateEndpoint, LoseCreationRace, RecoverFound,
               RecoverMissing, InsertTrace, FieldsClash, PushRecent, Commit,
               Notify, FailAnalysis, collectorVars
        <3>2. \A b \in Analyzer : b # a => cur'[b] = cur[b] /\ pc'[b] = pc[b]
            BY <1>2, <2>2 DEF TypeOK, AnalyzerStep, LookupFound, LookupMissing,
               LookupIgnored, CreateEndpoint, LoseCreationRace, RecoverFound,
               RecoverMissing, InsertTrace, FieldsClash, PushRecent, Commit,
               Notify, FailAnalysis, AnalyzeWith, Release, Goto
        <3>3. CASE cur'[a] = None
            BY <3>1, <3>2, <3>3, NoneAssumption DEF Past, InCollector, InQueue
        <3>4. CASE cur'[a] # None
            <4>1. /\ cur' = cur
                  /\ pc[a] \in stages => pc'[a] \in stages
                BY <1>2, <2>2, <3>4, NoneAssumption DEF TypeOK, AnalyzerStep,
                   LookupFound, LookupMissing, LookupIgnored, CreateEndpoint,
                   LoseCreationRace, RecoverFound, RecoverMissing, InsertTrace,
                   FieldsClash, PushRecent, Commit, Notify, FailAnalysis,
                   AnalyzeWith, Release, Goto
            <4> QED
                BY <3>1, <3>2, <4>1 DEF Past, InCollector, InQueue
        <3> QED
            BY <3>3, <3>4
    <2> QED
        BY <2>1, <2>2
<1>3. ASSUME NEW e \in Trace, DeleteEndpoint(e)
      PROVE  Past(t, stages)'
    BY <1>3 DEF Past, InCollector, InQueue, DeleteEndpoint, collectorVars,
       analyzerVars
<1>4. CASE UNCHANGED vars
    BY <1>4 DEF Past, InCollector, InQueue, vars
<1> QED
    BY <1>1, <1>2, <1>3, <1>4 DEF Next

\* The trace of an analyzer is in no batch, not in the queue and with no other.
LEMMA HeldTrace ==
    ASSUME TypeOK, Places, NEW a \in Analyzer, cur[a] # None
    PROVE  /\ cur[a] \in Trace /\ cur[a] \in sent
           /\ ~InCollector(cur[a]) /\ ~InQueue(cur[a])
           /\ \A b \in Analyzer : b # a => cur[b] # cur[a]
<1>1. cur[a] \in Trace /\ InAnalyzer(cur[a])
    BY DEF TypeOK, InAnalyzer
<1> QED
    BY <1>1 DEF Places, OnePlace, UnsentNowhere

(***************************************************************************)
(* One announcement                                                        *)
(***************************************************************************)

AnnouncedInv ==
    /\ AnnouncedOnce
    /\ \A e \in Trace : newAlerts[e] > 0 => Past(e, {"committed"})

LEMMA AnnouncedNext ==
    TypeOK /\ Places /\ RowInvariants /\ AnnouncedInv /\ [Next]_vars
        => AnnouncedInv'
<1> SUFFICES ASSUME TypeOK, Places, RowInvariants, AnnouncedInv, [Next]_vars
             PROVE  AnnouncedInv'
    OBVIOUS
<1>1. \A e \in Trace : newAlerts[e] > 0 => Past(e, {"committed"})'
    BY PastStable DEF AnnouncedInv, LateStages
<1>2. ASSUME NEW a \in Analyzer, Commit(a)
      PROVE  AnnouncedInv'
    <2>1. /\ pc[a] = "pushed" /\ pc'[a] = "committed" /\ cur' = cur
          /\ UNCHANGED <<batch, queue, sent>>
        BY <1>2 DEF TypeOK, Commit, Goto, collectorVars
    <2>2. cur[a] # None
        BY <2>1 DEF TypeOK
    <2> PICK t \in Trace : t = cur[a]
        BY <2>2, HeldTrace
    <2>3. newAlerts[t] = 0
        <3>1. ~Past(t, {"committed"})
            BY <2>1 DEF Past
        <3> QED
            BY <3>1 DEF AnnouncedInv, TypeOK
    <2>4. Past(t, {"committed"})'
        BY <2>1, <2>2, HeldTrace DEF Past, InCollector, InQueue
    <2>5. CASE isNew[a]
        <3>1. target[a] = t
            BY <2>1, <2>5 DEF RowInvariants, RaceInv, Analyzing
        <3>2. \A e \in Trace : newAlerts'[e] = IF e = t THEN newAlerts[e] + 1
                                                     ELSE newAlerts[e]
            BY <1>2, <2>5, <3>1 DEF Commit, TypeOK
        <3>3. \A e \in Trace : newAlerts'[e] <= 1
            BY <2>3, <3>2 DEF AnnouncedInv, AnnouncedOnce
        <3>4. ASSUME NEW e \in Trace, newAlerts'[e] > 0
              PROVE  Past(e, {"committed"})'
            <4>1. CASE e = t
                BY <2>4, <4>1
            <4>2. CASE e # t
                BY <1>1, <3>2, <3>4, <4>2
            <4> QED
                BY <4>1, <4>2
        <3> QED
            BY <3>3, <3>4 DEF AnnouncedInv, AnnouncedOnce
    <2>6. CASE ~isNew[a]
        <3>1. \A e \in Trace : newAlerts'[e] = newAlerts[e]
            BY <1>2, <2>6 DEF Commit, TypeOK
        <3> QED
            BY <1>1, <3>1 DEF AnnouncedInv, AnnouncedOnce
    <2> QED
        BY <2>5, <2>6
<1>3. ASSUME NEW e \in Trace, DeleteEndpoint(e)
      PROVE  AnnouncedInv'
    <2>1. \A f \in Trace : newAlerts'[f] \in {newAlerts[f], 0}
        BY <1>3 DEF DeleteEndpoint, TypeOK
    <2>2. \A f \in Trace : newAlerts'[f] <= 1
        BY <2>1 DEF AnnouncedInv, AnnouncedOnce
    <2>3. \A f \in Trace : newAlerts'[f] > 0 => newAlerts[f] > 0
        BY <2>1
    <2> QED
        BY <1>1, <2>2, <2>3 DEF AnnouncedInv, AnnouncedOnce
<1>4. CASE UNCHANGED newAlerts
    BY <1>1, <1>4 DEF AnnouncedInv, AnnouncedOnce
<1>5. ASSUME NEW a \in Analyzer, AnalyzerStep(a) \/ FailAnalysis(a), ~Commit(a)
      PROVE  UNCHANGED newAlerts
    BY <1>5 DEF AnalyzerStep, Pop, LookupFound, LookupMissing, LookupIgnored,
       CreateEndpoint, LoseCreationRace, RecoverFound, RecoverMissing,
       InsertTrace, FieldsClash, PushRecent, Notify, FailAnalysis, dbVars
<1>6. ASSUME NEW c \in Collector, Accept(c) \/ CollectorStep(c) \/ AbortRequest(c)
      PROVE  UNCHANGED newAlerts
    BY <1>6 DEF CollectorStep, Accept, DropOverload, Admit, RejectInvalid,
       Enqueue, AbortRequest, dbVars
<1> QED
    BY <1>2, <1>3, <1>4, <1>5, <1>6 DEF Next, vars

\* However many analyzers race to create an endpoint, fail or retry, an endpoint
\* that lives has at most one alert that says it is new.
THEOREM NewEndpointAnnouncedOnce == Spec => []AnnouncedOnce
<1>1. Init => AnnouncedInv
    BY DEF Init, AnnouncedInv, AnnouncedOnce
<1>2. TypeOK /\ Places /\ RowInvariants /\ AnnouncedInv /\ [Next]_vars
        => AnnouncedInv'
    BY AnnouncedNext
<1>3. Spec => [](TypeOK /\ Places /\ RowInvariants)
    BY PlacesInit, PlacesNext, TypeCorrect, RowInvariantsHold, PTL DEF Spec
<1>4. AnnouncedInv => AnnouncedOnce
    BY DEF AnnouncedInv
<1> QED
    BY <1>1, <1>2, <1>3, <1>4, PTL DEF Spec

(***************************************************************************)
(* One entry in the lists                                                  *)
(***************************************************************************)

\* The list after a push: the new trace first, the old ones one place later.
LEMMA NewestFront ==
    ASSUME NEW S, NEW s \in Seq(S), NEW x \in S
    PROVE  /\ Newest(<<x>> \o s) \in Seq(S)
           /\ \A i \in DOMAIN Newest(<<x>> \o s) :
                IF i = 1 THEN Newest(<<x>> \o s)[i] = x
                ELSE i - 1 \in DOMAIN s /\ Newest(<<x>> \o s)[i] = s[i - 1]
<1> DEFINE r == <<x>> \o s
           n == IF Len(r) < Retention THEN Len(r) ELSE Retention
<1>1. /\ r \in Seq(S) /\ Len(r) = Len(s) + 1 /\ Len(s) \in Nat
      /\ \A i \in 1..Len(r) : r[i] = IF i = 1 THEN x ELSE s[i - 1]
    OBVIOUS
<1>2. Newest(r) = SubSeq(r, 1, n) /\ Newest(r) \in Seq(S)
    BY <1>1, NewestType DEF Newest
<1> HIDE DEF r
<1>3. n \in 0..Len(r)
    BY <1>1, BoundAssumption
<1> HIDE DEF n
<1>4. Len(SubSeq(r, 1, n)) = n /\ \A i \in 1..n : SubSeq(r, 1, n)[i] = r[i]
    BY <1>1, <1>3
<1>5. DOMAIN Newest(r) = 1..n
    BY <1>2, <1>4
<1>6. \A i \in 1..n : i = 1 \/ i - 1 \in DOMAIN s
    BY <1>1, <1>3
<1>7. \A i \in DOMAIN Newest(r) :
            IF i = 1 THEN Newest(r)[i] = x
            ELSE i - 1 \in DOMAIN s /\ Newest(r)[i] = s[i - 1]
    BY <1>1, <1>2, <1>3, <1>4, <1>5, <1>6
<1> QED
    BY <1>2, <1>7 DEF r

Listed(t) == \E e \in Trace : \E i \in DOMAIN recent[e] : recent[e][i] = t

ListedInv ==
    /\ ListedOnce
    /\ \A t \in Trace : Listed(t) => Past(t, {"pushed", "committed"})

LEMMA ListedPush ==
    ASSUME TypeOK, Places, ListedInv, NEW a \in Analyzer, PushRecent(a),
           \A t \in Trace : Listed(t) => Past(t, {"pushed", "committed"})'
    PROVE  ListedInv'
<1>0. cur[a] \in Trace /\ target[a] \in Trace
    BY DEF TypeOK, PushRecent
<1> PICK x \in Trace, g \in Trace : x = cur[a] /\ g = target[a]
    BY <1>0
<1> DEFINE r == Newest(<<x>> \o recent[g])
<1>1. /\ pc[a] = "inserted" /\ pc'[a] = "pushed" /\ cur' = cur
      /\ UNCHANGED <<batch, queue, sent>>
      /\ x # None
    BY NoneAssumption DEF TypeOK, PushRecent, Goto, collectorVars
<1>2. ~Listed(x)
    BY <1>1 DEF ListedInv, Past
<1>3. Past(x, {"pushed", "committed"})'
    BY <1>1, HeldTrace DEF Past, InCollector, InQueue
<1>4. recent' = [recent EXCEPT ![g] = r] \/ recent' = recent
    BY DEF PushRecent
<1>5. recent[g] \in Seq(Trace) /\ recent \in [Trace -> Seq(Trace)]
    BY <1>1 DEF TypeOK
<1>6. \A i \in DOMAIN r : IF i = 1 THEN r[i] = x
                          ELSE i - 1 \in DOMAIN recent[g] /\ r[i] = recent[g][i - 1]
    BY ONLY <1>5, NewestFront, x \in Trace
<1>6a. \A i \in DOMAIN r : i \in Int
    <2>1. r \in Seq(Trace)
        BY <1>1, <1>5, NewestFront
    <2> QED
        BY <2>1
<1> HIDE DEF r
<1>7. CASE recent' = recent
    BY <1>7 DEF ListedInv, ListedOnce, Listed
<1>8. CASE recent' = [recent EXCEPT ![g] = r]
    <2>1. recent'[g] = r /\ \A e \in Trace : e # g => recent'[e] = recent[e]
        BY <1>1, <1>5, <1>8
    <2>2. \A i \in DOMAIN r : r[i] = x \/ Listed(r[i])
        BY <1>1, <1>6 DEF Listed
    <2>3. \A t \in Trace : Listed(t)' => Listed(t) \/ t = x
        BY <1>1, <2>1, <2>2 DEF Listed
    <2>4. \A t \in Trace : Listed(t)' => Past(t, {"pushed", "committed"})'
        BY <1>3, <2>3
    <2>5. ASSUME NEW e \in Trace, NEW f \in Trace,
                 NEW i \in DOMAIN recent'[e], NEW j \in DOMAIN recent'[f],
                 recent'[e][i] = recent'[f][j]
          PROVE  e = f /\ i = j
        <3>1. CASE e # g /\ f # g
            BY <2>1, <2>5, <3>1 DEF ListedInv, ListedOnce
        <3>2. CASE e = g /\ f # g
            BY <1>1, <1>2, <1>6, <2>1, <2>5, <3>2 DEF ListedInv, ListedOnce, Listed
        <3>3. CASE e # g /\ f = g
            BY <1>1, <1>2, <1>6, <2>1, <2>5, <3>3 DEF ListedInv, ListedOnce, Listed
        <3>4. CASE e = g /\ f = g
            <4>1. CASE i = 1 /\ j = 1
                BY <3>4, <4>1
            <4>2. CASE (i = 1) # (j = 1)
                BY <1>1, <1>2, <1>6, <2>1, <2>5, <3>4, <4>2 DEF Listed
            <4>3. CASE i # 1 /\ j # 1
                <5>1. i - 1 = j - 1
                    BY <1>1, <1>6, <2>1, <2>5, <3>4, <4>3 DEF ListedInv, ListedOnce
                <5>2. i \in Int /\ j \in Int
                    BY <1>6a, <2>1, <3>4
                <5> QED
                    BY <3>4, <5>1, <5>2
            <4> QED
                BY <4>1, <4>2, <4>3
        <3> QED
            BY <3>1, <3>2, <3>3, <3>4
    <2>6. ListedOnce'
        BY <2>5 DEF ListedOnce
    <2> QED
        BY <2>4, <2>6 DEF ListedInv
<1> QED
    BY <1>4, <1>7, <1>8

LEMMA ListedNext ==
    TypeOK /\ Places /\ ListedInv /\ [Next]_vars => ListedInv'
<1> SUFFICES ASSUME TypeOK, Places, ListedInv, [Next]_vars
             PROVE  ListedInv'
    OBVIOUS
<1>1. \A t \in Trace : Listed(t) => Past(t, {"pushed", "committed"})'
    BY PastStable DEF ListedInv, LateStages
<1>2. ASSUME NEW a \in Analyzer, PushRecent(a)
      PROVE  ListedInv'
    BY <1>1, <1>2, ListedPush
<1>3. CASE UNCHANGED recent
    BY <1>1, <1>3 DEF ListedInv, ListedOnce, Listed
<1>4. ASSUME NEW a \in Analyzer, AnalyzerStep(a) \/ FailAnalysis(a), ~PushRecent(a)
      PROVE  UNCHANGED recent
    BY <1>4 DEF AnalyzerStep, Pop, LookupFound, LookupMissing, LookupIgnored,
       CreateEndpoint, LoseCreationRace, RecoverFound, RecoverMissing,
       InsertTrace, FieldsClash, Commit, Notify, FailAnalysis
<1>5. ASSUME NEW c \in Collector, Accept(c) \/ CollectorStep(c) \/ AbortRequest(c)
      PROVE  UNCHANGED recent
    BY <1>5 DEF CollectorStep, Accept, DropOverload, Admit, RejectInvalid,
       Enqueue, AbortRequest
<1>6. ASSUME NEW e \in Trace, DeleteEndpoint(e)
      PROVE  UNCHANGED recent
    BY <1>6 DEF DeleteEndpoint
<1> QED
    BY <1>2, <1>3, <1>4, <1>5, <1>6 DEF Next, vars

\* Although the redis lists are no part of the transaction that stores a trace,
\* and a clash makes an analyzer start it again, no trace is listed twice.
THEOREM TraceListedOnce == Spec => []ListedOnce
<1>1. Init => ListedInv
    <2> SUFFICES ASSUME Init PROVE ListedInv
        OBVIOUS
    <2>1. \A e \in Trace : recent[e] = <<>>
        BY DEF Init
    <2>2. \A e \in Trace : DOMAIN recent[e] = {}
        BY <2>1
    <2> QED
        BY <2>2 DEF ListedInv, ListedOnce, Listed
<1>2. TypeOK /\ Places /\ ListedInv /\ [Next]_vars => ListedInv'
    BY ListedNext
<1>3. Spec => [](TypeOK /\ Places)
    BY PlacesInit, PlacesNext, TypeCorrect, PTL DEF Spec
<1>4. ListedInv => ListedOnce
    BY DEF ListedInv
<1> QED
    BY <1>1, <1>2, <1>3, <1>4, PTL DEF Spec

(***************************************************************************)
(* Delivery at most once                                                   *)
(***************************************************************************)

OnTheWay(t) == InCollector(t) \/ InQueue(t) \/ Waiting(t)

StatusStep == \/ Delivery!Next
              \/ UNCHANGED [t \in Trace |-> StatusOf(t)]

LEMMA StatusMoves ==
    ASSUME NEW T \in SUBSET Trace, NEW from, NEW to,
           \A t \in T : StatusOf(t) = from,
           \A t \in Trace : StatusOf(t)' = IF t \in T THEN to ELSE StatusOf(t)
    PROVE  Delivery!Move(T, from, to)
<1> DEFINE f == [t \in Trace |-> StatusOf(t)]
<1>1. f' = [t \in Trace |-> IF t \in T THEN to ELSE f[t]]
    OBVIOUS
<1>2. \A t \in T : f[t] = from
    OBVIOUS
<1> QED
    BY <1>1, <1>2 DEF Delivery!Move

\* A step that moves no trace between the places is a stutter.
LEMMA StatusSame ==
    ASSUME UNCHANGED <<stored, sent>>,
           \A t \in Trace : OnTheWay(t)' <=> OnTheWay(t)
    PROVE  StatusStep
BY DEF StatusStep, StatusOf, OnTheWay

LEMMA StatusOnTheWay ==
    ASSUME Places, NEW t \in Trace, OnTheWay(t)
    PROVE  StatusOf(t) = "pending" /\ stored[t] = None /\ t \in sent
<1>1. stored[t] = None
    BY DEF Places, OnePlace, OnTheWay
<1>2. t \in sent
    BY DEF Places, UnsentNowhere, OnTheWay, Waiting, InAnalyzer
<1> QED
    BY <1>1, <1>2 DEF StatusOf, OnTheWay

\* Giving up the traces T, which are on the way, and nothing else.
LEMMA StatusGivesUp ==
    ASSUME Places, NEW T \in SUBSET Trace, UNCHANGED <<stored, sent>>,
           \A t \in T : OnTheWay(t) /\ ~OnTheWay(t)',
           \A t \in Trace \ T : OnTheWay(t)' <=> OnTheWay(t)
    PROVE  StatusStep
<1>1. \A t \in T : StatusOf(t) = "pending" /\ StatusOf(t)' = "gone"
    BY StatusOnTheWay DEF StatusOf, OnTheWay
<1>2. \A t \in Trace \ T : StatusOf(t)' = StatusOf(t)
    BY DEF StatusOf, OnTheWay
<1>3. Delivery!Move(T, "pending", "gone")
    BY <1>1, <1>2, StatusMoves
<1> QED
    BY <1>3 DEF StatusStep, Delivery!Next, Delivery!GiveUp

LEMMA StatusAccept ==
    ASSUME TypeOK, Places, NEW c \in Collector, Accept(c)
    PROVE  StatusStep
<1> PICK n \in 1..MaxBatch : \E b \in [1..n -> Trace \ sent] :
        batch' = [batch EXCEPT ![c] = b] /\ sent' = sent \cup SeqSet(b)
    BY DEF Accept
<1> PICK b \in [1..n -> Trace \ sent] :
        batch' = [batch EXCEPT ![c] = b] /\ sent' = sent \cup SeqSet(b)
    OBVIOUS
<1> DEFINE T == SeqSet(b)
<1>1. b \in Seq(Trace \ sent)
    BY BoundAssumption
<1>2. T \subseteq Trace \ sent
    BY <1>1, SeqSetType
<1>3. /\ batch[c] = <<>> /\ SeqSet(batch[c]) = {}
      /\ UNCHANGED <<queue, cur, pc, stored>>
    BY EmptySeqSet DEF Accept, analyzerVars, dbVars
<1>4. \A d \in Collector : SeqSet(batch'[d]) = IF d = c THEN T ELSE SeqSet(batch[d])
    BY DEF TypeOK
<1>5. sent' = sent \cup T
    OBVIOUS
<1> HIDE DEF T
<1>6. \A t \in Trace : OnTheWay(t)' <=> OnTheWay(t) \/ t \in T
    <2>1. \A t \in Trace : InCollector(t)' <=> InCollector(t) \/ t \in T
        BY <1>3, <1>4 DEF InCollector
    <2> QED
        BY <1>3, <2>1 DEF OnTheWay, InQueue, Waiting
<1>7. \A t \in T : StatusOf(t) = "unsent" /\ StatusOf(t)' = "pending"
    BY <1>2, <1>3, <1>5, <1>6 DEF Places, UnsentNowhere, StatusOf, OnTheWay
<1>8. \A t \in Trace \ T : StatusOf(t)' = StatusOf(t)
    BY <1>3, <1>5, <1>6 DEF StatusOf, OnTheWay
<1>9. T \in SUBSET Trace
    BY <1>2
<1>10. PICK U \in SUBSET Trace : U = T
    BY <1>9
<1>11. Delivery!Move(U, "unsent", "pending")
    BY <1>7, <1>8, <1>10, StatusMoves
<1> QED
    BY <1>11 DEF StatusStep, Delivery!Next, Delivery!Send

LEMMA StatusDrop ==
    ASSUME TypeOK, Places, NEW c \in Collector, DropOverload(c) \/ ClearsBatch(c)
    PROVE  StatusStep
<1> DEFINE lost == SeqSet(batch[c]) \ SeqSet(batch'[c])
<1>1. /\ UNCHANGED <<queue, cur, pc, stored, sent>>
      /\ \A d \in Collector : d # c => batch'[d] = batch[d]
    BY DEF TypeOK, DropOverload, ClearsBatch, analyzerVars, dbVars
<1>2. SeqSet(batch'[c]) \subseteq SeqSet(batch[c])
    <2>1. CASE DropOverload(c)
        <3>1. batch'[c] = Tail(batch[c]) /\ batch[c] # <<>>
            BY <2>1 DEF TypeOK, DropOverload
        <3> QED
            BY <3>1, TailSet DEF TypeOK
    <2>2. CASE ClearsBatch(c)
        BY <2>2, EmptySeqSet DEF TypeOK, ClearsBatch
    <2> QED
        BY <2>1, <2>2
<1>3. SeqSet(batch[c]) \subseteq Trace
    BY SeqSetType DEF TypeOK
<1>4. PICK T \in SUBSET Trace : T = lost
    BY <1>3
<1>5. \A t \in Trace : InCollector(t)' <=> InCollector(t) /\ t \notin T
    <2>1. \A t \in T : InCollector(t) /\ ~InCollector(t)'
        BY <1>1, <1>4 DEF Places, OnePlace, InCollector
    <2>2. \A t \in Trace \ T : InCollector(t)' <=> InCollector(t)
        BY <1>1, <1>2, <1>4 DEF InCollector
    <2> QED
        BY <2>1, <2>2
<1>6. \A t \in T : InCollector(t) /\ ~InQueue(t) /\ ~InAnalyzer(t)
    BY <1>4 DEF Places, OnePlace, InCollector
<1>7. \A t \in Trace : /\ InQueue(t)' <=> InQueue(t)
                       /\ Waiting(t)' <=> Waiting(t)
                       /\ Waiting(t) => InAnalyzer(t)
    BY <1>1 DEF InQueue, Waiting, InAnalyzer
<1>8. \A t \in T : OnTheWay(t) /\ ~OnTheWay(t)'
    BY <1>5, <1>6, <1>7 DEF OnTheWay
<1>9. \A t \in Trace \ T : OnTheWay(t)' <=> OnTheWay(t)
    BY <1>5, <1>7 DEF OnTheWay
<1> QED
    BY <1>1, <1>8, <1>9, StatusGivesUp

LEMMA StatusEnqueue ==
    ASSUME TypeOK, Places, NEW c \in Collector, Enqueue(c)
    PROVE  StatusStep
<1> DEFINE x == Head(batch[c])
<1>1. /\ UNCHANGED <<cur, pc, stored, sent>>
      /\ batch[c] \in Seq(Trace) /\ batch[c] # <<>>
      /\ queue' = Append(queue, x) /\ queue \in Seq(Trace)
      /\ batch'[c] = Tail(batch[c])
      /\ \A d \in Collector : d # c => batch'[d] = batch[d]
    BY DEF TypeOK, Enqueue, analyzerVars, dbVars
<1>2. SeqSet(batch[c]) = {x} \cup SeqSet(batch'[c]) /\ x \in Trace
    <2>1. SeqSet(batch[c]) = {x} \cup SeqSet(batch'[c])
        BY <1>1, TailSet
    <2> QED
        BY <1>1, <2>1, SeqSetType
<1>3. SeqSet(queue') = SeqSet(queue) \cup {x}
    BY <1>1, <1>2, AppendSet
<1> HIDE DEF x
<1>4. \A t \in Trace : /\ InCollector(t)' => InCollector(t)
                       /\ InCollector(t) => InCollector(t)' \/ t = x
                       /\ InQueue(t)' <=> InQueue(t) \/ t = x
    BY <1>1, <1>2, <1>3 DEF InCollector, InQueue
<1>5. InCollector(x)
    BY <1>2 DEF InCollector
<1>6. \A t \in Trace : Waiting(t)' <=> Waiting(t)
    BY <1>1 DEF Waiting
<1>7. \A t \in Trace : OnTheWay(t)' <=> OnTheWay(t)
    BY <1>4, <1>5, <1>6 DEF OnTheWay
<1> QED
    BY <1>1, <1>7, StatusSame

LEMMA StatusPop ==
    ASSUME TypeOK, Places, NEW a \in Analyzer, Pop(a)
    PROVE  StatusStep
<1> DEFINE x == Head(queue)
<1>1. /\ UNCHANGED <<batch, stored, sent>>
      /\ queue # <<>> /\ queue' = Tail(queue) /\ queue \in Seq(Trace)
      /\ cur[a] = None /\ cur'[a] = x /\ pc'[a] = "lookup"
      /\ \A b \in Analyzer : b # a => cur'[b] = cur[b] /\ pc'[b] = pc[b]
    BY DEF TypeOK, Pop, Goto, collectorVars, dbVars
<1>2. SeqSet(queue) = {x} \cup SeqSet(queue')
    BY <1>1, TailSet
<1> HIDE DEF x
<1>3. \A t \in Trace : InQueue(t) <=> InQueue(t)' \/ t = x
    BY <1>2 DEF InQueue
<1>4. \A t \in Trace : Waiting(t)' <=> Waiting(t) \/ t = x
    BY <1>1, NoneAssumption DEF Waiting
<1>5. \A t \in Trace : InCollector(t)' <=> InCollector(t)
    BY <1>1 DEF InCollector
<1>6. \A t \in Trace : OnTheWay(t)' <=> OnTheWay(t)
    BY <1>3, <1>4, <1>5 DEF OnTheWay
<1> QED
    BY <1>1, <1>6, StatusSame

LEMMA StatusRelease ==
    ASSUME TypeOK, Places, NEW a \in Analyzer, GivesUp(a) \/ Notify(a)
    PROVE  StatusStep
<1>1. /\ UNCHANGED <<batch, queue, stored, sent>>
      /\ cur'[a] = None /\ pc'[a] = "idle" /\ cur[a] # None
      /\ \A b \in Analyzer : b # a => cur'[b] = cur[b] /\ pc'[b] = pc[b]
    BY DEF TypeOK, GivesUp, Notify, Release, Goto, collectorVars, dbVars
<1>2. PICK x \in Trace : x = cur[a]
    BY <1>1, HeldTrace
<1>3. /\ ~InCollector(x) /\ ~InQueue(x)
      /\ \A b \in Analyzer : b # a => cur[b] # x
    BY <1>1, <1>2, HeldTrace
<1>4. \A t \in Trace : /\ InCollector(t)' <=> InCollector(t)
                       /\ InQueue(t)' <=> InQueue(t)
    BY <1>1 DEF InCollector, InQueue
<1>5. \A t \in Trace \ {x} : Waiting(t)' <=> Waiting(t)
    BY <1>1, <1>2, NoneAssumption DEF Waiting
<1>6. ~Waiting(x)'
    BY <1>1, <1>3, NoneAssumption DEF Waiting
<1>7. \A t \in Trace \ {x} : OnTheWay(t)' <=> OnTheWay(t)
    BY <1>4, <1>5 DEF OnTheWay
<1>8. ~OnTheWay(x)'
    BY <1>3, <1>4, <1>6 DEF OnTheWay
<1>9. CASE Waiting(x)
    <2>1. OnTheWay(x)
        BY <1>9 DEF OnTheWay
    <2> QED
        BY <1>1, <1>7, <1>8, <2>1, StatusGivesUp, {x} \in SUBSET Trace
<1>10. CASE ~Waiting(x)
    <2>1. ~OnTheWay(x)
        BY <1>3, <1>10 DEF OnTheWay
    <2> QED
        BY <1>1, <1>7, <1>8, <2>1, StatusSame
<1> QED
    BY <1>9, <1>10

LEMMA StatusCommit ==
    ASSUME TypeOK, Places, NEW a \in Analyzer, Commit(a)
    PROVE  StatusStep
<1>1. /\ UNCHANGED <<batch, queue, cur, sent>>
      /\ pc[a] = "pushed" /\ pc'[a] = "committed" /\ cur[a] # None
      /\ \A b \in Analyzer : b # a => pc'[b] = pc[b]
    BY DEF TypeOK, Commit, Goto, collectorVars
<1>2. PICK x \in Trace : x = cur[a]
    BY <1>1, HeldTrace
<1>3. /\ stored'[x] # None
      /\ \A t \in Trace \ {x} : stored'[t] = stored[t]
    BY <1>1, <1>2 DEF TypeOK, Commit
<1>4. OnTheWay(x)
    BY <1>1, <1>2 DEF OnTheWay, Waiting
<1>5. StatusOf(x) = "pending" /\ StatusOf(x)' = "stored"
    BY <1>3, <1>4, StatusOnTheWay DEF StatusOf
<1>6. \A t \in Trace \ {x} : OnTheWay(t)' <=> OnTheWay(t)
    BY <1>1, <1>2 DEF OnTheWay, InCollector, InQueue, Waiting
<1>7. \A t \in Trace \ {x} : StatusOf(t)' = StatusOf(t)
    BY <1>1, <1>3, <1>6 DEF StatusOf, OnTheWay
<1>8. Delivery!Move({x}, "pending", "stored")
    <2>1. {x} \in SUBSET Trace
        OBVIOUS
    <2>2. /\ \A t \in {x} : StatusOf(t) = "pending"
          /\ \A t \in Trace : StatusOf(t)' = IF t \in {x} THEN "stored" ELSE StatusOf(t)
        BY <1>5, <1>7
    <2> QED
        BY <2>1, <2>2, StatusMoves
<1> QED
    BY <1>8 DEF StatusStep, Delivery!Next, Delivery!Store

LEMMA StatusDelete ==
    ASSUME TypeOK, Places, NEW e \in Trace, DeleteEndpoint(e)
    PROVE  StatusStep
<1>1. /\ UNCHANGED <<batch, queue, cur, pc, sent>>
      /\ \A t \in Trace : stored'[t] = IF stored[t] = e THEN None ELSE stored[t]
    BY DEF DeleteEndpoint, collectorVars, analyzerVars
<1>2. PICK T \in SUBSET Trace : T = {t \in Trace : stored[t] = e}
    OBVIOUS
<1>3. \A t \in Trace : OnTheWay(t)' <=> OnTheWay(t)
    BY <1>1 DEF OnTheWay, InCollector, InQueue, Waiting
<1>4. \A t \in T : stored[t] # None /\ stored'[t] = None /\ t \in sent /\ ~OnTheWay(t)
    <2>1. \A t \in T : stored[t] # None /\ stored'[t] = None
        BY <1>1, <1>2, NoneAssumption
    <2> QED
        BY <2>1, StatusOnTheWay DEF Places, UnsentNowhere
<1>5. \A t \in T : StatusOf(t) = "stored" /\ StatusOf(t)' = "gone"
    BY <1>1, <1>3, <1>4 DEF StatusOf, OnTheWay
<1>6. \A t \in Trace \ T : StatusOf(t)' = StatusOf(t)
    BY <1>1, <1>2, <1>3 DEF StatusOf, OnTheWay
<1>7. Delivery!Move(T, "stored", "gone")
    BY <1>5, <1>6, StatusMoves
<1> QED
    BY <1>7 DEF StatusStep, Delivery!Next, Delivery!Remove

LEMMA StatusNext == TypeOK /\ Places /\ [Next]_vars => StatusStep
<1> SUFFICES ASSUME TypeOK, Places, [Next]_vars
             PROVE  StatusStep
    OBVIOUS
<1>0. Quiet => StatusStep
    <2> SUFFICES ASSUME Quiet PROVE StatusStep
        OBVIOUS
    <2>1. \A t \in Trace : OnTheWay(t)' <=> OnTheWay(t)
        BY DEF Quiet, OnTheWay, InCollector, InQueue, Waiting
    <2> QED
        BY <2>1, StatusSame DEF Quiet
<1>1. ASSUME NEW c \in Collector, Accept(c) \/ CollectorStep(c) \/ AbortRequest(c)
      PROVE  StatusStep
    <2>1. CASE Accept(c)
        BY <2>1, StatusAccept
    <2>2. CASE DropOverload(c)
        BY <2>2, StatusDrop
    <2>3. CASE Admit(c)
        BY <1>0, <2>3 DEF Admit, Quiet, analyzerVars, dbVars
    <2>4. CASE RejectInvalid(c) \/ AbortRequest(c)
        BY <2>4, ClearingSteps, StatusDrop
    <2>5. CASE Enqueue(c)
        BY <2>5, StatusEnqueue
    <2> QED
        BY <1>1, <2>1, <2>2, <2>3, <2>4, <2>5 DEF CollectorStep
<1>2. ASSUME NEW a \in Analyzer, AnalyzerStep(a) \/ FailAnalysis(a)
      PROVE  StatusStep
    <2>1. CASE Pop(a)
        BY <2>1, StatusPop
    <2>2. CASE LookupIgnored(a) \/ RecoverMissing(a) \/ FailAnalysis(a)
        BY <2>2, GivingUpSteps, StatusRelease
    <2>3. CASE Commit(a)
        BY <2>3, StatusCommit
    <2>4. CASE Notify(a)
        BY <2>4, StatusRelease
    <2>5. CASE \/ LookupFound(a) \/ LookupMissing(a)
               \/ CreateEndpoint(a) \/ LoseCreationRace(a)
               \/ RecoverFound(a) \/ InsertTrace(a) \/ FieldsClash(a)
               \/ PushRecent(a)
        BY <1>0, <2>5, QuietSteps
    <2> QED
        BY <1>2, <2>1, <2>2, <2>3, <2>4, <2>5 DEF AnalyzerStep
<1>3. CASE \E e \in Trace : DeleteEndpoint(e)
    BY <1>3, StatusDelete
<1>4. CASE UNCHANGED vars
    BY <1>0, <1>4 DEF vars, Quiet
<1> QED
    BY <1>1, <1>2, <1>3, <1>4 DEF Next

\* The pipeline implements at-most-once delivery: every step of a collector, an
\* analyzer or a user moves traces from unsent to pending to stored or gone, or
\* is a stutter, and none comes back.
THEOREM PipelineDeliversAtMostOnce == Spec => DeliversAtMostOnce
<1>1. Init => Delivery!Init
    BY DEF Init, Delivery!Init, StatusOf
<1>2. TypeOK /\ Places /\ [Next]_vars
        => [Delivery!Next]_([t \in Trace |-> StatusOf(t)])
    BY StatusNext DEF StatusStep
<1>3. Spec => [](TypeOK /\ Places)
    BY PlacesInit, PlacesNext, TypeCorrect, PTL DEF Spec
<1> QED
    BY <1>1, <1>2, <1>3, PTL DEF Spec, DeliversAtMostOnce, Delivery!Spec
=============================================================================
