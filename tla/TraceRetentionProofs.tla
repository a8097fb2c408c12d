------------------------ MODULE TraceRetentionProofs ------------------------
(***************************************************************************)
(* Proofs about TraceRetention: a call is never counted and stored, is     *)
(* counted twice only by overlapping runs, and is lost only if its trace   *)
(* came between the two statements of a run.                               *)
(***************************************************************************)
EXTENDS TraceRetention, TLAPS

LEMMA TypeInit == Init => TypeOK
BY DEF Init, TypeOK

LEMMA EndRunType ==
    ASSUME TypeOK, NEW j \in Job, EndRun(j)
    PROVE  /\ pc' \in [Job -> {"idle", "begin", "aggregate", "delete"}]
           /\ upTo' = upTo /\ now' = now /\ runs' = runs /\ analyzed' = analyzed
           /\ late' = late /\ contested' = contested
           /\ batch' = [batch EXCEPT ![j] = {}] /\ batch' \in [Job -> SUBSET Trace]
           /\ keys' \in [Job -> SUBSET Key]
           /\ scan' \in [Job -> SUBSET Trace]
           /\ gone' \in [Job -> SUBSET Trace]
           /\ \A i \in Job : pc'[i] \in {"idle", "begin"} => batch'[i] = {}
           /\ \A i \in Job : pc'[i] # "delete" => scan'[i] = {} /\ gone'[i] = {}
BY DEF EndRun, TypeOK

LEMMA TypeStep == ASSUME TypeOK, [Next]_vars PROVE TypeOK'
<1>1. CASE UNCHANGED vars
  BY <1>1 DEF vars, jobVars, TypeOK
<1>2. CASE Tick
  BY <1>2 DEF Tick, jobVars, TypeOK
<1>3. ASSUME NEW t \in Trace, Analyze(t)  PROVE TypeOK'
  BY <1>3 DEF Analyze, jobVars, TypeOK
<1>4. ASSUME NEW j \in Job, ReadMaxTime(j)  PROVE TypeOK'
  BY <1>4, CreatedAssumption DEF ReadMaxTime, Old, TypeOK
<1>5. ASSUME NEW j \in Job, StartAggregate(j)  PROVE TypeOK'
  <2>1. Visible(upTo[j]) \subseteq Trace
    BY DEF Visible, TypeOK
  <2>2. {KeyOf[t] : t \in Visible(upTo[j])} \subseteq Key
    BY <2>1, KeyAssumption
  <2> QED
    BY <1>5, <2>1, <2>2 DEF StartAggregate, TypeOK
<1>6. ASSUME NEW j \in Job, StartDelete(j)  PROVE TypeOK'
  <2>1. Visible(upTo[j]) \subseteq Trace
    BY DEF Visible, TypeOK
  <2> QED
    BY <1>6, <2>1 DEF StartDelete, TypeOK
<1>7. ASSUME NEW j \in Job, Commit(j)  PROVE TypeOK'
  <2>1. counted' \in [Trace -> Nat] /\ stored' \subseteq analyzed
    BY <1>7 DEF Commit, TypeOK
  <2> QED
    BY <1>7, <2>1, EndRunType DEF Commit, TypeOK
<1>8. ASSUME NEW j \in Job, Rollback(j)  PROVE TypeOK'
  BY <1>8, EndRunType DEF Rollback, TypeOK
<1>9. ASSUME NEW j \in Job, NEW k \in Key, Upsert(j, k)  PROVE TypeOK'
  BY <1>9 DEF Upsert, TypeOK
<1>10. ASSUME NEW j \in Job, NEW t \in Trace, DeleteRow(j, t)  PROVE TypeOK'
  BY <1>10 DEF DeleteRow, TypeOK
<1> QED
  BY <1>1, <1>2, <1>3, <1>4, <1>5, <1>6, <1>7, <1>8, <1>9, <1>10 DEF Next, JobStep

(***************************************************************************)
(* The inductive invariant                                                 *)
(***************************************************************************)

\* A run has summed up only what was committed, up to its time.
Summed(j) == \A t \in batch[j] : t \in analyzed /\ Created[t] <= upTo[j]

\* Before the deletion, what the run will find is in its sums or came late.
Covered(j) ==
    pc[j] = "aggregate" =>
        \A t \in stored : Created[t] <= upTo[j] => t \in batch[j] \/ t \in late

\* In the deletion, what is in the sums is visited, and what is deleted is in
\* the sums or came late.
Visited(j) ==
    pc[j] = "delete" =>
        /\ \A t \in batch[j] : t \in stored => t \in scan[j] \/ t \in gone[j]
        /\ \A t \in scan[j] \cup gone[j] : t \in batch[j] \/ t \in late

RunsInv == \A j \in Job : Summed(j) /\ Covered(j) /\ Visited(j)

\* What two runs have in their sums, or a run has that is counted already, is
\* contested.
OverlapInv ==
    /\ \A i, j \in Job : i # j => \A t \in batch[i] : t \in batch[j] => t \in contested
    /\ \A j \in Job : \A t \in batch[j] : counted[t] > 0 => t \in contested

CountsInv ==
    /\ \A t \in Trace : counted[t] > 0 => t \in analyzed
    /\ CountedOrStored
    /\ TwiceOnlyByOverlap
    /\ LostOnlyIfLate

RetentionInv == TypeOK /\ RunsInv /\ OverlapInv /\ CountsInv

LEMMA RetentionInvInit == Init => RetentionInv
BY TypeInit DEF Init, RetentionInv, RunsInv, Summed, Covered, Visited, OverlapInv,
     CountsInv, CountedOrStored, TwiceOnlyByOverlap, LostOnlyIfLate

LEMMA RunsInvStep == ASSUME RetentionInv, [Next]_vars PROVE RunsInv'
<1> USE DEF RetentionInv
<1> SUFFICES ASSUME NEW j \in Job  PROVE (Summed(j) /\ Covered(j) /\ Visited(j))'
  BY DEF RunsInv
<1>0. Summed(j) /\ Covered(j) /\ Visited(j)
  BY DEF RunsInv
<1> USE DEF Summed, Covered, Visited
<1>1. CASE UNCHANGED vars
  BY <1>0, <1>1 DEF vars, jobVars
<1>2. CASE Tick
  BY <1>0, <1>2 DEF Tick, jobVars
<1>3. ASSUME NEW t \in Trace, Analyze(t)  PROVE (Summed(j) /\ Covered(j) /\ Visited(j))'
  <2>1. t \notin batch[j]
    BY <1>0, <1>3 DEF Analyze
  <2>2. late \subseteq late'
    BY <1>3 DEF Analyze
  <2>3. pc[j] = "aggregate" /\ Created[t] <= upTo[j] => t \in late'
    BY <1>3 DEF Analyze
  <2>4. UNCHANGED jobVars /\ stored' = stored \cup {t} /\ analyzed' = analyzed \cup {t}
    BY <1>3 DEF Analyze
  <2> QED
    BY <1>0, <2>1, <2>2, <2>3, <2>4 DEF jobVars, TypeOK
<1>4. ASSUME NEW i \in Job, ReadMaxTime(i)  PROVE (Summed(j) /\ Covered(j) /\ Visited(j))'
  BY <1>0, <1>4 DEF ReadMaxTime, TypeOK
<1>5. ASSUME NEW i \in Job, StartAggregate(i)  PROVE (Summed(j) /\ Covered(j) /\ Visited(j))'
  BY <1>0, <1>5 DEF StartAggregate, Visible, TypeOK
<1>6. ASSUME NEW i \in Job, StartDelete(i)  PROVE (Summed(j) /\ Covered(j) /\ Visited(j))'
  <2>1. CASE i = j
    <3>1. /\ pc[j] = "aggregate" /\ pc'[j] = "delete" /\ scan'[j] = Visible(upTo[j])
          /\ gone'[j] = gone[j] /\ gone[j] = {}
          /\ UNCHANGED <<stored, upTo, batch, late, analyzed>>
      BY <1>6, <2>1 DEF StartDelete, TypeOK
    <3>2. \A t \in scan'[j] : t \in stored /\ Created[t] <= upTo[j]
      BY <3>1 DEF Visible
    <3>3. \A t \in batch[j] : t \in stored => t \in scan'[j]
      BY <1>0, <3>1 DEF Visible
    <3> QED
      BY <1>0, <3>1, <3>2, <3>3
  <2>2. CASE i # j
    BY <1>0, <1>6, <2>2 DEF StartDelete, TypeOK
  <2> QED
    BY <2>1, <2>2
<1>7. ASSUME NEW i \in Job, EndRun(i), stored' \subseteq stored
      PROVE  (Summed(j) /\ Covered(j) /\ Visited(j))'
  <2>1. /\ UNCHANGED <<upTo, late, analyzed>>
        /\ i = j => pc'[j] = "idle" /\ batch'[j] = {}
        /\ i # j => /\ pc'[j] = pc[j] /\ batch'[j] = batch[j]
                    /\ scan'[j] = scan[j] /\ gone'[j] = gone[j]
    BY <1>7 DEF EndRun, TypeOK
  <2> QED
    BY <1>0, <1>7, <2>1
<1>8. ASSUME NEW i \in Job, Commit(i) \/ Rollback(i)
      PROVE  (Summed(j) /\ Covered(j) /\ Visited(j))'
  BY <1>7, <1>8 DEF Commit, Rollback
<1>9. ASSUME NEW i \in Job, NEW k \in Key, Upsert(i, k)
      PROVE  (Summed(j) /\ Covered(j) /\ Visited(j))'
  BY <1>0, <1>9 DEF Upsert
<1>10. ASSUME NEW i \in Job, NEW t \in Trace, DeleteRow(i, t)
       PROVE  (Summed(j) /\ Covered(j) /\ Visited(j))'
  <2>1. CASE i = j
    BY <1>0, <1>10, <2>1 DEF DeleteRow, TypeOK
  <2>2. CASE i # j
    BY <1>0, <1>10, <2>2 DEF DeleteRow, TypeOK
  <2> QED
    BY <2>1, <2>2
<1> QED
  BY <1>1, <1>2, <1>3, <1>4, <1>5, <1>6, <1>8, <1>9, <1>10 DEF Next, JobStep

LEMMA CommitCounts ==
    ASSUME TypeOK, NEW j \in Job, Commit(j)
    PROVE  /\ pc[j] = "delete" /\ scan[j] = {}
           /\ stored' = stored \ gone[j]
           /\ \A t \in batch[j] : counted'[t] = counted[t] + 1
           /\ \A t \in Trace \ batch[j] : counted'[t] = counted[t]
           /\ \A i \in Job : batch'[i] = IF i = j THEN {} ELSE batch[i]
           /\ UNCHANGED <<analyzed, late, contested>>
BY DEF Commit, EndRun, TypeOK

LEMMA OverlapInvStep == ASSUME RetentionInv, [Next]_vars PROVE OverlapInv'
<1> USE DEF RetentionInv, OverlapInv
<1>1. CASE UNCHANGED vars
  BY <1>1 DEF vars, jobVars
<1>2. CASE Tick
  BY <1>2 DEF Tick, jobVars
<1>3. ASSUME NEW t \in Trace, Analyze(t)  PROVE OverlapInv'
  BY <1>3 DEF Analyze, jobVars
<1>4. ASSUME NEW j \in Job, ReadMaxTime(j)  PROVE OverlapInv'
  BY <1>4 DEF ReadMaxTime
<1>5. ASSUME NEW j \in Job, StartAggregate(j)  PROVE OverlapInv'
  <2>1. \A t \in Visible(upTo[j]) : counted[t] = 0
    BY DEF Visible, CountsInv, CountedOrStored
  <2>2. \A t \in Visible(upTo[j]), i \in Job \ {j} : t \in batch[i] => t \in contested'
    BY <1>5 DEF StartAggregate
  <2>3. \A i \in Job : batch'[i] = IF i = j THEN Visible(upTo[j]) ELSE batch[i]
    BY <1>5 DEF StartAggregate, TypeOK
  <2>4. contested \subseteq contested' /\ counted' = counted
    BY <1>5 DEF StartAggregate
  <2> QED
    BY <2>1, <2>2, <2>3, <2>4
<1>6. ASSUME NEW j \in Job, StartDelete(j)  PROVE OverlapInv'
  BY <1>6 DEF StartDelete
<1>7. ASSUME NEW j \in Job, Commit(j)  PROVE OverlapInv'
  <2>1. /\ \A t \in Trace \ batch[j] : counted'[t] = counted[t]
        /\ \A i \in Job : batch'[i] = IF i = j THEN {} ELSE batch[i]
        /\ contested' = contested
    BY <1>7, CommitCounts
  <2>2. \A i \in Job : batch[i] \subseteq Trace
    BY DEF TypeOK
  <2> QED
    BY <2>1, <2>2
<1>8. ASSUME NEW j \in Job, Rollback(j)  PROVE OverlapInv'
  BY <1>8, EndRunType DEF Rollback, TypeOK
<1>9. ASSUME NEW j \in Job, NEW k \in Key, Upsert(j, k)  PROVE OverlapInv'
  BY <1>9 DEF Upsert
<1>10. ASSUME NEW j \in Job, NEW t \in Trace, DeleteRow(j, t)  PROVE OverlapInv'
  BY <1>10 DEF DeleteRow
<1> QED
  BY <1>1, <1>2, <1>3, <1>4, <1>5, <1>6, <1>7, <1>8, <1>9, <1>10 DEF Next, JobStep

LEMMA CountsInvStep == ASSUME RetentionInv, [Next]_vars PROVE CountsInv'
<1> USE DEF RetentionInv, CountsInv, CountedOrStored, TwiceOnlyByOverlap, LostOnlyIfLate
<1>1. ASSUME stored' = stored, counted' = counted, analyzed' = analyzed,
             late \subseteq late', contested \subseteq contested'
      PROVE  CountsInv'
  BY <1>1
<1>2. CASE UNCHANGED vars
  BY <1>1, <1>2 DEF vars
<1>3. CASE Tick
  BY <1>1, <1>3 DEF Tick
<1>4. ASSUME NEW t \in Trace, Analyze(t)  PROVE CountsInv'
  BY <1>4 DEF Analyze, TypeOK
<1>5. ASSUME NEW j \in Job, ReadMaxTime(j)  PROVE CountsInv'
  BY <1>1, <1>5 DEF ReadMaxTime
<1>6. ASSUME NEW j \in Job, StartAggregate(j)  PROVE CountsInv'
  BY <1>1, <1>6 DEF StartAggregate
<1>7. ASSUME NEW j \in Job, StartDelete(j)  PROVE CountsInv'
  BY <1>1, <1>7 DEF StartDelete
<1>8. ASSUME NEW j \in Job, Commit(j)  PROVE CountsInv'
  <2>1. /\ pc[j] = "delete" /\ scan[j] = {}
        /\ stored' = stored \ gone[j]
        /\ \A t \in batch[j] : counted'[t] = counted[t] + 1
        /\ \A t \in Trace \ batch[j] : counted'[t] = counted[t]
        /\ UNCHANGED <<analyzed, late, contested>>
    BY <1>8, CommitCounts
  <2>2. /\ \A t \in batch[j] : t \in stored => t \in gone[j]
        /\ \A t \in gone[j] : t \in batch[j] \/ t \in late
        /\ \A t \in batch[j] : t \in analyzed
    BY <2>1 DEF RunsInv, Summed, Visited
  <2>3. \A t \in Trace : counted[t] \in Nat
    BY DEF TypeOK
  <2>4. batch[j] \subseteq Trace /\ stored \subseteq Trace /\ analyzed \subseteq Trace
    BY DEF TypeOK
  <2>5. \A t \in Trace : counted'[t] > 0 => t \in analyzed'
    BY <2>1, <2>2, <2>3, <2>4
  <2>6. \A t \in stored' : counted'[t] = 0
    BY <2>1, <2>2, <2>3, <2>4
  <2>7. \A t \in Trace : counted'[t] > 1 => t \in contested'
    BY <2>1, <2>2, <2>3, <2>4 DEF OverlapInv
  <2>8. \A t \in analyzed' \ stored' : counted'[t] = 0 => t \in late'
    BY <2>1, <2>2, <2>3, <2>4
  <2> QED
    BY <2>5, <2>6, <2>7, <2>8
<1>9. ASSUME NEW j \in Job, Rollback(j)  PROVE CountsInv'
  BY <1>1, <1>9 DEF Rollback, EndRun
<1>10. ASSUME NEW j \in Job, NEW k \in Key, Upsert(j, k)  PROVE CountsInv'
  BY <1>1, <1>10 DEF Upsert
<1>11. ASSUME NEW j \in Job, NEW t \in Trace, DeleteRow(j, t)  PROVE CountsInv'
  BY <1>1, <1>11 DEF DeleteRow
<1> QED
  BY <1>2, <1>3, <1>4, <1>5, <1>6, <1>7, <1>8, <1>9, <1>10, <1>11 DEF Next, JobStep

LEMMA RetentionInvStep == ASSUME RetentionInv, [Next]_vars PROVE RetentionInv'
BY TypeStep, RunsInvStep, OverlapInvStep, CountsInvStep DEF RetentionInv

LEMMA RetentionInvHolds == Spec => []RetentionInv
BY RetentionInvInit, RetentionInvStep, PTL DEF Spec

\* Types of the tables and of what a run has in memory.
THEOREM TypeCorrect == Spec => []TypeOK
<1>1. RetentionInv => TypeOK
  BY DEF RetentionInv
<1> QED
  BY <1>1, RetentionInvHolds, PTL

\* A trace is never both counted and stored, for any number of traces, counters,
\* overlapping runs and failures.
THEOREM NoneCountedAndStored == Spec => []CountedOrStored
<1>1. RetentionInv => CountedOrStored
  BY DEF RetentionInv, CountsInv
<1> QED
  BY <1>1, RetentionInvHolds, PTL

\* Without two runs that have a trace in their sums at the same time, none is
\* counted twice.
THEOREM TwiceNeedsOverlap == Spec => []TwiceOnlyByOverlap
<1>1. RetentionInv => TwiceOnlyByOverlap
  BY DEF RetentionInv, CountsInv
<1> QED
  BY <1>1, RetentionInvHolds, PTL

\* A trace that is deleted without being counted was committed between the two
\* snapshots of a run.
THEOREM LossNeedsLateness == Spec => []LostOnlyIfLate
<1>1. RetentionInv => LostOnlyIfLate
  BY DEF RetentionInv, CountsInv
<1> QED
  BY <1>1, RetentionInvHolds, PTL
=============================================================================
