-------------------------- MODULE JobRunnerProofs --------------------------
(***************************************************************************)
(* Proofs about JobRunner: its types, that the watchdog kills no job that  *)
(* has not taken too long, and none but the one it means, with the         *)
(* exceptions that the two properties name.                                *)
(***************************************************************************)
EXTENDS JobRunner, TLAPS

(***************************************************************************)
(* The inductive invariant                                                 *)
(***************************************************************************)

\* What is known of a job that was added since the runner last stopped: it has
\* no pid before its child stored one, and its age is that of its run.
YoungJobs ==
    \A n \in Queue : n \notin outlived =>
        /\ job[n] # "lost"
        /\ job[n] \in {"waiting", "storing"} => pid[n] = None
        /\ job[n] = "waiting" => age[n] = 0
        /\ n \in Busy => run[n] = age[n]

\* A job at work has the pid of its child, and no two queues share a child.
OwnChildren ==
    /\ \A n \in Queue : job[n] = "working" => pid[n] = child[n]
    /\ \A n, m \in Queue : child[n] # None /\ child[n] = child[m] => n = m

\* The job that the watchdog found overdue is still there, is one that was
\* there when the runner stopped, or has ended.
OverdueStill ==
    over /\ up = "up" =>
        /\ at \in Queue
        /\ \/ replaced
           \/ at \in outlived /\ job[at] # "none"
           \/ at \in Busy /\ age[at] > Threshold

\* While the runner is down no job runs; while it stops no job of a closed
\* queue is left.
Stopped ==
    /\ up = "down" => at = 0 /\ ~over /\ \A n \in Queue : job[n] # "none" => n \in outlived
    /\ up = "stopping" => at \in Queue /\ \A n \in Queue : n < at => job[n] = "none"

JobInv == TypeOK /\ YoungJobs /\ OwnChildren /\ OverdueStill /\ Stopped

LEMMA NoQueue == /\ 0 \in 0..Queues /\ 0 \in 0..MaxStops
                 /\ 0 \in 0..Threshold + 1
BY BoundAssumption

LEMMA OnwardType ==
    ASSUME at \in 0..Queues  PROVE Onward => at' \in 0..Queues
BY BoundAssumption DEF Onward

LEMMA JobInvInit == Init => JobInv
BY BoundAssumption, PidAssumption, NoQueue
   DEF Init, JobInv, TypeOK, States, YoungJobs, OwnChildren, OverdueStill, Stopped,
       Busy, Queue, Active

LEMMA TypeStep == ASSUME TypeOK, [Next]_vars PROVE TypeOK'
<1> USE BoundAssumption, PidAssumption
<1>1. CASE UNCHANGED vars
  BY <1>1 DEF vars, watchVars, TypeOK, States
<1>2. ASSUME NEW n \in Queue, Add(n)  PROVE TypeOK'
  BY <1>2 DEF Add, NewData, watchVars, TypeOK, States
<1>3. ASSUME NEW n \in Queue, Start(n)  PROVE TypeOK'
  BY <1>3 DEF Start, watchVars, TypeOK, States
<1>4. ASSUME NEW n \in Queue, Wrap(n)  PROVE TypeOK'
  BY <1>4 DEF Wrap, watchVars, TypeOK, States
<1>5. ASSUME NEW n \in Queue, Finish(n)  PROVE TypeOK'
  BY <1>5 DEF Finish, End, watchVars, TypeOK, States
<1>6. ASSUME NEW n \in Queue, Stalled(n)  PROVE TypeOK'
  BY <1>6 DEF Stalled, End, watchVars, TypeOK, States
<1>7. CASE Tick
  BY <1>7 DEF Tick, Older, watchVars, TypeOK, States
<1>8. CASE Watch
  BY <1>8 DEF Watch, watchVars, TypeOK, States
<1>9. CASE Inspect
  BY <1>9, OnwardType DEF Inspect, Overdue, watchVars, TypeOK, States
<1>10. CASE Kill
  BY <1>10, OnwardType DEF Kill, Terminate, watchVars, TypeOK, States
<1>11. CASE KillRejects
  BY <1>11, NoQueue DEF KillRejects, watchVars, TypeOK, States
<1>12. CASE StopQueue
  BY <1>12 DEF StopQueue, Terminate, watchVars, TypeOK, States
<1>13. CASE CloseQueue
  BY <1>13, OnwardType DEF CloseQueue, watchVars, TypeOK, States
<1>14. CASE GiveUp
  BY <1>14, NoQueue DEF GiveUp, Gone, watchVars, TypeOK, States
<1>15. CASE Crash
  <2>1. stops' \in 0..MaxStops
    BY <1>15 DEF Crash, TypeOK
  <2> QED
    BY <1>15, <2>1, NoQueue DEF Crash, Gone, TypeOK, States
<1>16. CASE Shutdown
  BY <1>16 DEF Shutdown, watchVars, TypeOK, States
<1>17. CASE Restart
  BY <1>17 DEF Restart, watchVars, TypeOK, States
<1> QED
  BY <1>1, <1>2, <1>3, <1>4, <1>5, <1>6, <1>7, <1>8, <1>9, <1>10, <1>11, <1>12, <1>13, <1>14, <1>15, <1>16, <1>17
     DEF Next, Runner, Stopping

LEMMA YoungJobsStep == ASSUME JobInv, [Next]_vars PROVE YoungJobs'
<1> USE BoundAssumption, PidAssumption
<1>1. CASE UNCHANGED vars
  BY <1>1 DEF vars, watchVars, JobInv, TypeOK, YoungJobs, Stopped, Busy
<1>2. ASSUME NEW n \in Queue, Add(n)  PROVE YoungJobs'
  BY <1>2 DEF Add, NewData, watchVars, JobInv, TypeOK, YoungJobs, Stopped, Busy
<1>3. ASSUME NEW n \in Queue, Start(n)  PROVE YoungJobs'
  BY <1>3 DEF Start, watchVars, JobInv, TypeOK, YoungJobs, Stopped, Busy
<1>4. ASSUME NEW n \in Queue, Wrap(n)  PROVE YoungJobs'
  BY <1>4 DEF Wrap, watchVars, JobInv, TypeOK, YoungJobs, Stopped, Busy
<1>5. ASSUME NEW n \in Queue, Finish(n)  PROVE YoungJobs'
  BY <1>5 DEF Finish, End, watchVars, JobInv, TypeOK, YoungJobs, Stopped, Busy
<1>6. ASSUME NEW n \in Queue, Stalled(n)  PROVE YoungJobs'
  BY <1>6 DEF Stalled, End, watchVars, JobInv, TypeOK, YoungJobs, Stopped, Busy
<1>7. CASE Tick
  BY <1>7 DEF Tick, Older, watchVars, JobInv, TypeOK, YoungJobs, Stopped, Busy
<1>8. CASE Watch
  BY <1>8 DEF Watch, watchVars, JobInv, TypeOK, YoungJobs, Stopped, Busy
<1>9. CASE Inspect
  BY <1>9 DEF Inspect, Onward, Overdue, watchVars, JobInv, TypeOK, YoungJobs, Stopped, Busy
<1>10. CASE Kill
  BY <1>10 DEF Kill, Onward, Terminate, Victims, watchVars, JobInv, TypeOK, YoungJobs, Stopped, Busy
<1>11. CASE KillRejects
  BY <1>11 DEF KillRejects, watchVars, JobInv, TypeOK, YoungJobs, Stopped, Busy
<1>12. CASE StopQueue
  BY <1>12 DEF StopQueue, Terminate, Victims, watchVars, JobInv, TypeOK, YoungJobs, Stopped, Busy
<1>13. CASE CloseQueue
  BY <1>13 DEF CloseQueue, Onward, watchVars, JobInv, TypeOK, YoungJobs, Stopped, Busy
<1>14. CASE GiveUp
  BY <1>14 DEF GiveUp, Gone, watchVars, JobInv, TypeOK, YoungJobs, Stopped, Busy
<1>15. CASE Crash
  BY <1>15 DEF Crash, Gone, watchVars, JobInv, TypeOK, YoungJobs, Stopped, Busy
<1>16. CASE Shutdown
  BY <1>16 DEF Shutdown, watchVars, JobInv, TypeOK, YoungJobs, Stopped, Busy
<1>17. CASE Restart
  BY <1>17 DEF Restart, watchVars, JobInv, TypeOK, YoungJobs, Stopped, Busy
<1> QED
  BY <1>1, <1>2, <1>3, <1>4, <1>5, <1>6, <1>7, <1>8, <1>9, <1>10, <1>11, <1>12, <1>13, <1>14, <1>15, <1>16, <1>17
     DEF Next, Runner, Stopping

LEMMA OwnChildrenStep == ASSUME JobInv, [Next]_vars PROVE OwnChildren'
<1> USE BoundAssumption, PidAssumption
<1>1. CASE UNCHANGED vars
  BY <1>1 DEF vars, watchVars, JobInv, TypeOK, OwnChildren, Stopped, Busy, Queue
<1>2. ASSUME NEW n \in Queue, Add(n)  PROVE OwnChildren'
  BY <1>2 DEF Add, NewData, watchVars, JobInv, TypeOK, OwnChildren, Stopped, Busy, Queue
<1>3. ASSUME NEW n \in Queue, Start(n)  PROVE OwnChildren'
  BY SMTT(60), <1>3 DEF Start, watchVars, JobInv, TypeOK, OwnChildren, Stopped, Busy, Queue
<1>4. ASSUME NEW n \in Queue, Wrap(n)  PROVE OwnChildren'
  BY <1>4 DEF Wrap, watchVars, JobInv, TypeOK, OwnChildren, Stopped, Busy, Queue
<1>5. ASSUME NEW n \in Queue, Finish(n)  PROVE OwnChildren'
  BY <1>5 DEF Finish, End, watchVars, JobInv, TypeOK, OwnChildren, Stopped, Busy, Queue
<1>6. ASSUME NEW n \in Queue, Stalled(n)  PROVE OwnChildren'
  BY <1>6 DEF Stalled, End, watchVars, JobInv, TypeOK, OwnChildren, Stopped, Busy, Queue
<1>7. CASE Tick
  BY <1>7 DEF Tick, Older, watchVars, JobInv, TypeOK, OwnChildren, Stopped, Busy, Queue
<1>8. CASE Watch
  BY <1>8 DEF Watch, watchVars, JobInv, TypeOK, OwnChildren, Stopped, Busy, Queue
<1>9. CASE Inspect
  BY <1>9 DEF Inspect, Onward, Overdue, watchVars, JobInv, TypeOK, OwnChildren, Stopped, Busy, Queue
<1>10. CASE Kill
  BY SMTT(60), <1>10 DEF Kill, Onward, Terminate, Victims, watchVars, JobInv, TypeOK, OwnChildren, Stopped, Busy, Queue
<1>11. CASE KillRejects
  BY <1>11 DEF KillRejects, watchVars, JobInv, TypeOK, OwnChildren, Stopped, Busy, Queue
<1>12. CASE StopQueue
  <2>1. \A m \in Queue : /\ job'[m] = "working" => job[m] = "working" /\ child'[m] = child[m]
                         /\ child'[m] # None => child'[m] = child[m]
    BY <1>12 DEF StopQueue, Terminate, Victims, JobInv, TypeOK, Busy
  <2> QED
    BY <1>12, <2>1 DEF StopQueue, JobInv, OwnChildren
<1>13. CASE CloseQueue
  <2>1. CASE at = Queues
    <3>1. \A m \in Queue : job'[m] = "none" /\ child'[m] = None
      BY <1>13, <2>1 DEF CloseQueue, JobInv, TypeOK, Stopped, Queue
    <3> QED
      BY <3>1 DEF OwnChildren
  <2>2. CASE at # Queues
    BY <1>13, <2>2 DEF CloseQueue, JobInv, TypeOK, OwnChildren
  <2> QED
    BY <2>1, <2>2
<1>14. CASE GiveUp
  BY <1>14 DEF GiveUp, Gone, watchVars, JobInv, TypeOK, OwnChildren, Stopped, Busy, Queue
<1>15. CASE Crash
  BY <1>15 DEF Crash, Gone, watchVars, JobInv, TypeOK, OwnChildren, Stopped, Busy, Queue
<1>16. CASE Shutdown
  BY <1>16 DEF Shutdown, watchVars, JobInv, TypeOK, OwnChildren, Stopped, Busy, Queue
<1>17. CASE Restart
  BY <1>17 DEF Restart, watchVars, JobInv, TypeOK, OwnChildren, Stopped, Busy, Queue
<1> QED
  BY <1>1, <1>2, <1>3, <1>4, <1>5, <1>6, <1>7, <1>8, <1>9, <1>10, <1>11, <1>12, <1>13, <1>14, <1>15, <1>16, <1>17
     DEF Next, Runner, Stopping

LEMMA OverdueStillStep == ASSUME JobInv, [Next]_vars PROVE OverdueStill'
<1> USE BoundAssumption, PidAssumption
<1>1. CASE UNCHANGED vars
  BY <1>1 DEF vars, watchVars, JobInv, TypeOK, YoungJobs, OverdueStill, Stopped, Busy, Active, Queue
<1>2. ASSUME NEW n \in Queue, Add(n)  PROVE OverdueStill'
  BY <1>2 DEF Add, NewData, watchVars, JobInv, TypeOK, YoungJobs, OverdueStill, Stopped, Busy, Active, Queue
<1>3. ASSUME NEW n \in Queue, Start(n)  PROVE OverdueStill'
  BY <1>3 DEF Start, watchVars, JobInv, TypeOK, YoungJobs, OverdueStill, Stopped, Busy, Active, Queue
<1>4. ASSUME NEW n \in Queue, Wrap(n)  PROVE OverdueStill'
  BY <1>4 DEF Wrap, watchVars, JobInv, TypeOK, YoungJobs, OverdueStill, Stopped, Busy, Active, Queue
<1>5. ASSUME NEW n \in Queue, Finish(n)  PROVE OverdueStill'
  BY <1>5 DEF Finish, End, watchVars, JobInv, TypeOK, YoungJobs, OverdueStill, Stopped, Busy, Active, Queue
<1>6. ASSUME NEW n \in Queue, Stalled(n)  PROVE OverdueStill'
  <2>1. n \in outlived /\ n \notin Busy
    BY <1>6 DEF Stalled, JobInv, YoungJobs, Busy
  <2>2. CASE n = at
    BY <1>6, <2>1, <2>2 DEF Stalled, End, JobInv, TypeOK, OverdueStill
  <2>3. CASE n # at
    BY <1>6, <2>3 DEF Stalled, End, JobInv, TypeOK, OverdueStill, Busy
  <2> QED
    BY <2>2, <2>3
<1>7. CASE Tick
  BY <1>7 DEF Tick, Older, watchVars, JobInv, TypeOK, YoungJobs, OverdueStill, Stopped, Busy, Active, Queue
<1>8. CASE Watch
  BY <1>8 DEF Watch, watchVars, JobInv, TypeOK, YoungJobs, OverdueStill, Stopped, Busy, Active, Queue
<1>9. CASE Inspect
  BY <1>9 DEF Inspect, Onward, Overdue, watchVars, JobInv, TypeOK, YoungJobs, OverdueStill, Stopped, Busy, Active, Queue
<1>10. CASE Kill
  BY <1>10 DEF Kill, Onward, Terminate, Victims, watchVars, JobInv, TypeOK, YoungJobs, OverdueStill, Stopped, Busy, Active, Queue
<1>11. CASE KillRejects
  BY <1>11 DEF KillRejects, watchVars, JobInv, TypeOK, YoungJobs, OverdueStill, Stopped, Busy, Active, Queue
<1>12. CASE StopQueue
  BY <1>12 DEF StopQueue, Terminate, Victims, watchVars, JobInv, TypeOK, YoungJobs, OverdueStill, Stopped, Busy, Active, Queue
<1>13. CASE CloseQueue
  BY <1>13 DEF CloseQueue, Onward, watchVars, JobInv, TypeOK, YoungJobs, OverdueStill, Stopped, Busy, Active, Queue
<1>14. CASE GiveUp
  BY <1>14 DEF GiveUp, Gone, watchVars, JobInv, TypeOK, YoungJobs, OverdueStill, Stopped, Busy, Active, Queue
<1>15. CASE Crash
  BY <1>15 DEF Crash, Gone, watchVars, JobInv, TypeOK, YoungJobs, OverdueStill, Stopped, Busy, Active, Queue
<1>16. CASE Shutdown
  BY <1>16 DEF Shutdown, watchVars, JobInv, TypeOK, YoungJobs, OverdueStill, Stopped, Busy, Active, Queue
<1>17. CASE Restart
  BY <1>17 DEF Restart, watchVars, JobInv, TypeOK, YoungJobs, OverdueStill, Stopped, Busy, Active, Queue
<1> QED
  BY <1>1, <1>2, <1>3, <1>4, <1>5, <1>6, <1>7, <1>8, <1>9, <1>10, <1>11, <1>12, <1>13, <1>14, <1>15, <1>16, <1>17
     DEF Next, Runner, Stopping

LEMMA StoppedStep == ASSUME JobInv, [Next]_vars PROVE Stopped'
<1> USE BoundAssumption, PidAssumption
<1>1. CASE UNCHANGED vars
  BY <1>1 DEF vars, watchVars, JobInv, TypeOK, Stopped, Busy, Queue
<1>2. ASSUME NEW n \in Queue, Add(n)  PROVE Stopped'
  BY <1>2 DEF Add, NewData, watchVars, JobInv, TypeOK, Stopped, Busy, Queue
<1>3. ASSUME NEW n \in Queue, Start(n)  PROVE Stopped'
  BY <1>3 DEF Start, watchVars, JobInv, TypeOK, Stopped, Busy, Queue
<1>4. ASSUME NEW n \in Queue, Wrap(n)  PROVE Stopped'
  BY <1>4 DEF Wrap, watchVars, JobInv, TypeOK, Stopped, Busy, Queue
<1>5. ASSUME NEW n \in Queue, Finish(n)  PROVE Stopped'
  BY <1>5 DEF Finish, End, watchVars, JobInv, TypeOK, Stopped, Busy, Queue
<1>6. ASSUME NEW n \in Queue, Stalled(n)  PROVE Stopped'
  BY <1>6 DEF Stalled, End, watchVars, JobInv, TypeOK, Stopped, Busy, Queue
<1>7. CASE Tick
  BY <1>7 DEF Tick, Older, watchVars, JobInv, TypeOK, Stopped, Busy, Queue
<1>8. CASE Watch
  BY <1>8 DEF Watch, watchVars, JobInv, TypeOK, Stopped, Busy, Queue
<1>9. CASE Inspect
  BY <1>9 DEF Inspect, Onward, Overdue, watchVars, JobInv, TypeOK, Stopped, Busy, Queue
<1>10. CASE Kill
  BY <1>10 DEF Kill, Onward, Terminate, Victims, watchVars, JobInv, TypeOK, Stopped, Busy, Queue
<1>11. CASE KillRejects
  BY <1>11 DEF KillRejects, watchVars, JobInv, TypeOK, Stopped, Busy, Queue
<1>12. CASE StopQueue
  BY <1>12 DEF StopQueue, Terminate, Victims, watchVars, JobInv, TypeOK, Stopped, Busy, Queue
<1>13. CASE CloseQueue
  BY <1>13 DEF CloseQueue, Onward, watchVars, JobInv, TypeOK, Stopped, Busy, Queue
<1>14. CASE GiveUp
  BY <1>14 DEF GiveUp, Gone, watchVars, JobInv, TypeOK, Stopped, Busy, Queue
<1>15. CASE Crash
  BY <1>15 DEF Crash, Gone, watchVars, JobInv, TypeOK, Stopped, Busy, Queue
<1>16. CASE Shutdown
  BY <1>16 DEF Shutdown, watchVars, JobInv, TypeOK, Stopped, Busy, Queue
<1>17. CASE Restart
  BY <1>17 DEF Restart, watchVars, JobInv, TypeOK, Stopped, Busy, Queue
<1> QED
  BY <1>1, <1>2, <1>3, <1>4, <1>5, <1>6, <1>7, <1>8, <1>9, <1>10, <1>11, <1>12, <1>13, <1>14, <1>15, <1>16, <1>17
     DEF Next, Runner, Stopping

LEMMA JobInvariant == Spec => []JobInv
<1>1. ASSUME JobInv, [Next]_vars  PROVE JobInv'
  BY <1>1, TypeStep, YoungJobsStep, OwnChildrenStep, OverdueStillStep, StoppedStep
     DEF JobInv
<1> QED
  BY JobInvInit, <1>1, PTL DEF Spec

(***************************************************************************)
(* The theorems                                                            *)
(***************************************************************************)

\* Every reachable state of the runner, the queues and the watchdog has the
\* types of TypeOK.
THEOREM TypeCorrect == Spec => []TypeOK
<1>1. JobInv => TypeOK
  BY DEF JobInv
<1> QED
  BY <1>1, JobInvariant, PTL

\* The only step that may take a child away from a job at work while the
\* runner is up is the kill of a job, by its pid.
LEMMA OnlyKill ==
    ASSUME JobInv, [Next]_vars, over, up = "up", up' = "up",
           NEW n \in Busy, child'[n] # child[n]
    PROVE  Kill /\ job[at] # "none" /\ pid[at] # None /\ child[n] = pid[at]
<1> USE DEF JobInv, TypeOK
<1> n \in Queue
  BY DEF Busy
<1>1. ~UNCHANGED vars
  BY DEF vars
<1>2. ~Tick /\ ~Watch /\ ~Inspect /\ ~KillRejects
  BY DEF Tick, Watch, Inspect, KillRejects
<1>3. ~StopQueue /\ ~CloseQueue /\ ~GiveUp /\ ~Crash /\ ~Shutdown /\ ~Restart
  BY DEF StopQueue, CloseQueue, GiveUp, Gone, Crash, Shutdown, Restart
<1>4. ASSUME NEW m \in Queue, Add(m) \/ Wrap(m) \/ Finish(m) \/ Stalled(m)
      PROVE  FALSE
  BY <1>4 DEF Add, Wrap, Finish, Stalled
<1>5. ASSUME NEW m \in Queue, Start(m)  PROVE FALSE
  BY <1>5 DEF Start, Busy
<1>6. Kill
  BY <1>1, <1>2, <1>3, <1>4, <1>5 DEF Next, Runner, Stopping
<1> QED
  BY <1>6 DEF Kill, Terminate, Victims

\* The pid of a job that was added since the runner last stopped is that of the
\* child that works on it.
LEMMA PidIsOfChild ==
    ASSUME JobInv, at \in Queue, at \notin outlived, job[at] # "none", pid[at] # None,
           NEW n \in Queue, child[n] = pid[at]
    PROVE  job[at] = "working" /\ n = at
<1>1. job[at] \in States
  BY DEF JobInv, TypeOK
<1>2. job[at] = "working"
  BY <1>1 DEF JobInv, YoungJobs, States
<1> QED
  BY <1>2 DEF JobInv, OwnChildren

\* The watchdog ends the work on a job only if it has taken too long, unless the
\* job was there when the runner stopped or took the place of the one that had
\* taken too long; for any number of queues and stops and any threshold.
THEOREM KillsAreJust == Spec => KillsHaveCause
<1>1. ASSUME JobInv, [Next]_vars, over, up = "up", up' = "up",
             NEW n \in Busy, child'[n] # child[n],
             ~replaced, at \notin outlived
      PROVE  run[n] > Threshold
  <2>1. job[at] # "none" /\ pid[at] # None /\ child[n] = pid[at]
    BY <1>1, OnlyKill
  <2>2. at \in Queue /\ at \in Busy /\ age[at] > Threshold
    BY <1>1 DEF JobInv, OverdueStill
  <2>3. n = at
    BY <1>1, <2>1, <2>2, PidIsOfChild DEF Busy
  <2> QED
    BY <1>1, <2>2, <2>3 DEF JobInv, YoungJobs
<1>2. JobInv /\ [Next]_vars =>
        (over /\ up = "up" /\ up' = "up" =>
           \A n \in Busy : child'[n] # child[n] =>
             run[n] > Threshold \/ replaced \/ at \in outlived)
  BY <1>1
<1> QED
  BY <1>2, JobInvariant, PTL DEF Spec, KillsHaveCause

\* A signal of the watchdog ends the work on the job it was meant for, unless
\* that job was there when the runner stopped; for any number of queues and
\* processes.
THEOREM SignalsHitTheirJob == Spec => SignalsAreAimed
<1>1. ASSUME JobInv, [Next]_vars, over, up = "up", up' = "up",
             NEW n \in Busy, child'[n] # child[n],
             at \notin outlived
      PROVE  n = at
  <2>1. job[at] # "none" /\ pid[at] # None /\ child[n] = pid[at]
    BY <1>1, OnlyKill
  <2>2. at \in Queue
    BY <1>1 DEF JobInv, OverdueStill
  <2> QED
    BY <1>1, <2>1, <2>2, PidIsOfChild DEF Busy
<1>2. JobInv /\ [Next]_vars =>
        (over /\ up = "up" /\ up' = "up" =>
           \A n \in Busy : child'[n] # child[n] => n = at \/ at \in outlived)
  BY <1>1
<1> QED
  BY <1>2, JobInvariant, PTL DEF Spec, SignalsAreAimed
=============================================================================
