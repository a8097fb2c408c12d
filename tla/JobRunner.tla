----------------------------- MODULE JobRunner -----------------------------
(***************************************************************************)
(* The job runner: a queue in redis per job name, filled by a schedule and *)
(* worked off in a child process per queue, and a watchdog that looks      *)
(* through the queues every minute and kills jobs that take too long. The  *)
(* id of a job is its name, so that a queue holds one job at most.         *)
(*                                                                         *)
(* Time is counted in ticks. The queue itself (Bull) is external.          *)
(***************************************************************************)
EXTENDS Naturals, FiniteSets

CONSTANTS
    Queues,    \* number of queues; they are named 1..Queues in their order
    Pid,       \* process ids
    Threshold, \* ticks after which a job takes too long
    MaxStops,  \* model bound: how often the runner stops
    None       \* no process

Queue == 1..Queues

ASSUME BoundAssumption == /\ Queues \in Nat \ {0}
                          /\ Threshold \in Nat
                          /\ MaxStops \in Nat
ASSUME PidAssumption == None \notin Pid

VARIABLES
    up,       \* the runner: "up", "stopping" or "down"
    job,      \* queue -> state of its job
    age,      \* queue -> time since job.timestamp, the creation of the job
    pid,      \* queue -> job.data.pid
    child,    \* queue -> its child process
    run,      \* queue -> how long the child has been working on the job
    at,       \* the queue the watchdog, or a shutdown, is at; 0 if none
    over,     \* the watchdog found the job of this queue overdue
    stops,    \* history: how often the runner stopped
    outlived, \* history: queues whose job was there when the runner stopped
    replaced  \* history: the job the watchdog found overdue has ended since

watchVars == <<at, over, replaced>>
vars == <<up, job, age, pid, child, run, watchVars, stops, outlived>>

\* The child of an active job first stores its pid, then works.
States == {"none", "waiting", "storing", "working", "lost"}
Active == {n \in Queue : job[n] \in {"storing", "working", "lost"}}
Busy   == {n \in Queue : job[n] \in {"storing", "working"}}

TypeOK ==
    /\ up \in {"up", "stopping", "down"}
    /\ job \in [Queue -> States]
    /\ age \in [Queue -> 0..Threshold + 1]
    /\ pid \in [Queue -> Pid \cup {None}]
    /\ child \in [Queue -> Pid \cup {None}]
    /\ run \in [Queue -> 0..Threshold + 1]
    /\ at \in 0..Queues
    /\ over \in BOOLEAN
    /\ stops \in 0..MaxStops
    /\ outlived \subseteq Queue
    /\ replaced \in BOOLEAN

Init ==
    /\ up = "up"
    /\ job = [n \in Queue |-> "none"]
    /\ age = [n \in Queue |-> 0]
    /\ pid = [n \in Queue |-> None]
    /\ child = [n \in Queue |-> None]
    /\ run = [n \in Queue |-> 0]
    /\ at = 0
    /\ over = FALSE
    /\ stops = 0
    /\ outlived = {}
    /\ replaced = FALSE

(***************************************************************************)
(* The life of a job                                                       *)
(***************************************************************************)

\* Mutant: the data of the last job is added again.
LastData(n) == pid

\* A job is added with no data.
NewData(n) == [pid EXCEPT ![n] = None]

\* The schedule adds the job; while one with its id is there nothing happens.
Add(n) ==
    /\ up = "up"
    /\ job[n] = "none"
    /\ job' = [job EXCEPT ![n] = "waiting"]
    /\ age' = [age EXCEPT ![n] = 0]
    /\ pid' = NewData(n)
    /\ outlived' = outlived \ {n}
    /\ UNCHANGED <<up, child, run, watchVars, stops>>

\* A child is started, or the one that is there takes the job.
Start(n) ==
    /\ up # "down"
    /\ job[n] = "waiting"
    /\ job' = [job EXCEPT ![n] = "storing"]
    /\ run' = [run EXCEPT ![n] = 0]
    /\ \E p \in Pid :
        /\ IF child[n] = None THEN \A m \in Queue : child[m] # p ELSE p = child[n]
        /\ child' = [child EXCEPT ![n] = p]
    /\ UNCHANGED <<up, age, pid, watchVars, stops, outlived>>

\* wrapProcessor.
Wrap(n) ==
    /\ job[n] = "storing"
    /\ pid' = [pid EXCEPT ![n] = child[n]]
    /\ job' = [job EXCEPT ![n] = "working"]
    /\ UNCHANGED <<up, age, child, run, watchVars, stops, outlived>>

\* removeOnComplete, removeOnFail: jobs that end leave no trace.
End(N) ==
    /\ job' = [n \in Queue |-> IF n \in N THEN "none" ELSE job[n]]
    /\ replaced' = (replaced \/ (over /\ at \in N))

\* The processor returns or fails; the child stays. A job may also hang.
Finish(n) ==
    /\ job[n] = "working"
    /\ End({n})
    /\ UNCHANGED <<up, age, pid, child, run, at, over, stops, outlived>>

\* Bull finds an active job that no process renews the lock of: it waits again,
\* or fails when that happened before.
Stalled(n) ==
    /\ up # "down"
    /\ job[n] = "lost"
    /\ \/ job' = [job EXCEPT ![n] = "waiting"] /\ UNCHANGED replaced
       \/ End({n})
    /\ UNCHANGED <<up, age, pid, child, run, at, over, stops, outlived>>

\* Jobs start within a tick of being added or found stalled.
Older(a) == IF a > Threshold THEN a ELSE a + 1
Tick ==
    /\ up = "down" \/ \A n \in Queue : job[n] # "waiting"
    /\ age' = [n \in Queue |-> IF job[n] = "none" THEN age[n] ELSE Older(age[n])]
    /\ run' = [n \in Queue |-> IF n \in Busy THEN Older(run[n]) ELSE run[n]]
    /\ UNCHANGED <<up, job, pid, child, watchVars, stops, outlived>>

(***************************************************************************)
(* The watchdog                                                            *)
(***************************************************************************)

Watch ==
    /\ up = "up"
    /\ at = 0
    /\ at' = 1
    /\ UNCHANGED <<up, job, age, pid, child, run, over, replaced, stops, outlived>>

\* Mutant: a queue without an overdue job ends the round.
OnwardEnds == at' = 0

Onward == at' = (IF at = Queues THEN 0 ELSE at + 1)

\* Mutant: at the threshold is over it.
OverdueAt(n) == n \in Active /\ age[n] >= Threshold

\* The age of the job is compared, not of its run.
Overdue(n) == n \in Active /\ age[n] > Threshold

Inspect ==
    /\ up = "up"
    /\ at # 0 /\ ~over
    /\ IF Overdue(at) THEN over' = TRUE /\ UNCHANGED at
                      ELSE Onward /\ UNCHANGED over
    /\ UNCHANGED <<up, job, age, pid, child, run, replaced, stops, outlived>>

\* tree-kill sends SIGTERM to a process. If it is a child, the handler of
\* wrapProcessor exits at once, and the job it works on fails.
Victims(p) == {n \in Queue : child[n] = p}
Terminate(p) ==
    /\ child' = [n \in Queue |-> IF n \in Victims(p) THEN None ELSE child[n]]
    /\ job' = [n \in Queue |-> IF n \in Victims(p) \cap Busy THEN "none" ELSE job[n]]

\* killJob reads the job again, by its id, which may be gone by now.
Kill ==
    /\ up = "up"
    /\ over
    /\ \/ job[at] = "none" /\ UNCHANGED <<job, child>>
       \/ job[at] # "none" /\ pid[at] # None /\ Terminate(pid[at])
    /\ Onward
    /\ over' = FALSE /\ replaced' = FALSE
    /\ UNCHANGED <<up, age, pid, run, stops, outlived>>

\* Without a pid killJob rejects: the queues after this one are not inspected.
KillRejects ==
    /\ up = "up"
    /\ over
    /\ job[at] # "none" /\ pid[at] = None
    /\ at' = 0
    /\ over' = FALSE /\ replaced' = FALSE
    /\ UNCHANGED <<up, job, age, pid, child, run, stops, outlived>>

(***************************************************************************)
(* The runner stops                                                        *)
(***************************************************************************)

\* The process is gone, and its children with it.
Gone ==
    /\ up' = "down"
    /\ job' = [n \in Queue |-> IF n \in Busy THEN "lost" ELSE job[n]]
    /\ child' = [n \in Queue |-> None]
    /\ outlived' = {n \in Queue : job[n] # "none"}
    /\ at' = 0 /\ over' = FALSE /\ replaced' = FALSE
    /\ UNCHANGED <<age, pid, run>>

Crash ==
    /\ up = "up"
    /\ stops < MaxStops
    /\ stops' = stops + 1
    /\ Gone

\* SIGINT or SIGTERM: the schedule ends, a callback that runs is waited for.
Shutdown ==
    /\ up = "up"
    /\ at = 0
    /\ stops < MaxStops
    /\ stops' = stops + 1
    /\ up' = "stopping"
    /\ at' = 1
    /\ UNCHANGED <<job, age, pid, child, run, over, replaced, outlived>>

\* The active job of the queue is killed.
StopQueue ==
    /\ up = "stopping"
    /\ ~over
    /\ at \in Active => pid[at] # None
    /\ IF at \in Active THEN Terminate(pid[at]) ELSE UNCHANGED <<job, child>>
    /\ over' = TRUE
    /\ UNCHANGED <<up, age, pid, run, at, replaced, stops, outlived>>

\* It is cleaned and closed once its child is idle. After the last one the
\* runner exits.
CloseQueue ==
    /\ up = "stopping"
    /\ over
    /\ at \notin Busy
    /\ job' = [job EXCEPT ![at] = "none"]
    /\ over' = FALSE
    /\ Onward
    /\ IF at = Queues THEN /\ up' = "down"
                           /\ child' = [n \in Queue |-> None]
                           /\ outlived' = {n \in Queue : job'[n] # "none"}
                      ELSE UNCHANGED <<up, child, outlived>>
    /\ UNCHANGED <<age, pid, run, replaced, stops>>

\* A shutdown that has failed, because a job had no pid, or that takes too long
\* ends with the process.
GiveUp == up = "stopping" /\ Gone /\ UNCHANGED stops

Restart ==
    /\ up = "down"
    /\ up' = "up"
    /\ UNCHANGED <<job, age, pid, child, run, watchVars, stops, outlived>>

Runner == Watch \/ Inspect \/ Kill \/ KillRejects
Stopping == StopQueue \/ CloseQueue \/ GiveUp
Next ==
    \/ \E n \in Queue : Add(n) \/ Start(n) \/ Wrap(n) \/ Finish(n) \/ Stalled(n)
    \/ Runner
    \/ Stopping
    \/ Crash \/ Shutdown \/ Restart
    \/ Tick

Spec == Init /\ [][Next]_vars

\* The schedule, the queues, the watchdog and time go on, and a runner that
\* stopped is started again. A job need not end by itself.
FairSpec ==
    /\ Spec
    /\ \A n \in Queue : WF_vars(Add(n)) /\ WF_vars(Start(n)) /\ WF_vars(Wrap(n))
                         /\ WF_vars(Stalled(n))
    /\ WF_vars(Runner) /\ WF_vars(Stopping) /\ WF_vars(GiveUp)
    /\ WF_vars(Restart) /\ SF_vars(Tick)

(***************************************************************************)
(* Properties                                                              *)
(***************************************************************************)

\* The watchdog ends the work on a job only if it has taken too long, unless
\* the job was there when the runner stopped, so that its age counts from
\* before, or took the place of the one that had taken too long.
KillsHaveCause ==
    [][over /\ up = "up" /\ up' = "up" =>
         \A n \in Busy : child'[n] # child[n] =>
           run[n] > Threshold \/ replaced \/ at \in outlived]_vars

\* A signal of the watchdog ends the work on the job it was meant for, unless
\* the pid is from before the runner stopped.
SignalsAreAimed ==
    [][over /\ up = "up" /\ up' = "up" =>
         \A n \in Busy : child'[n] # child[n] => n = at \/ at \in outlived]_vars

\* If the watchdog is not cut short time and again, every job is started time
\* and again: no hung job, and no job that was lost with the runner, keeps its
\* id taken for ever.
EveryJobRunsAgain ==
    <>[][~KillRejects]_vars => \A n \in Queue : []<>(job[n] = "storing")
=============================================================================
