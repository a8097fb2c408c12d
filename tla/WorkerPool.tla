----------------------------- MODULE WorkerPool -----------------------------
(***************************************************************************)
(* The worker pool of the Node agent. The instrumented program hands every *)
(* API call to runTask; a worker thread posts it to the collector. Tasks   *)
(* wait in a list while all workers are busy, a worker that fails is       *)
(* replaced by a new one.                                                  *)
(*                                                                         *)
(* The event loop of the program runs a handler to its end, so that an     *)
(* action is a handler; worker threads run beside it and are heard of      *)
(* through their events.                                                   *)
(***************************************************************************)
EXTENDS Naturals, Sequences, FiniteSets

CONSTANTS
    Task,       \* the calls of runTask
    Worker,     \* the Worker objects the pool can create
    NumThreads, \* os.cpus().length
    None        \* no task

ASSUME NoneAssumption == None \notin Task
ASSUME ThreadsAssumption == NumThreads \in Nat

VARIABLES
    tasks,    \* the tasks that wait
    workers,  \* the Worker objects of the pool
    free,     \* freeWorkers, a stack
    info,     \* worker -> the task of its kTaskInfo
    thread,   \* worker -> what its thread does
    doing,    \* worker -> the task its thread was sent
    events,   \* worker -> events of the thread the program has not handled
    up,       \* the instrumented program runs
    closed,   \* close was called
    arrived,  \* history: the calls of runTask
    started,  \* history: the tasks that were given to a worker
    outcome   \* history: task -> how it ended for the pool

poolVars    == <<tasks, workers, free, info>>
threadVars  == <<thread, doing>>
historyVars == <<arrived, started, outcome>>
vars == <<tasks, workers, free, info, thread, doing, events, up, closed,
          arrived, started, outcome>>

SeqSet(s) == {s[i] : i \in 1..Len(s)}

TypeOK ==
    /\ tasks \in Seq(Task)
    /\ workers \subseteq Worker
    /\ free \in Seq(workers)
    /\ info \in [Worker -> Task \cup {None}]
    /\ thread \in [Worker -> {"none", "live", "dead"}]
    /\ doing \in [Worker -> Task \cup {None}]
    /\ events \in [Worker -> Seq({"message", "error"})]
    /\ up \in BOOLEAN /\ closed \in BOOLEAN
    /\ arrived \in Seq(Task) /\ started \in Seq(Task)
    /\ outcome \in [Task -> {"none", "done", "failed"}]
    /\ \A w \in Worker : w \in workers => thread[w] # "none"

\* The constructor adds NumThreads workers to an empty pool.
Init ==
    /\ tasks = <<>>
    /\ \E first \in [1..NumThreads -> Worker] :
        /\ \A i, j \in 1..NumThreads : i # j => first[i] # first[j]
        /\ free = first
        /\ workers = SeqSet(first)
        /\ thread = [w \in Worker |-> IF w \in SeqSet(first) THEN "live" ELSE "none"]
    /\ info = [w \in Worker |-> None]
    /\ doing = [w \in Worker |-> None]
    /\ events = [w \in Worker |-> <<>>]
    /\ up = TRUE
    /\ closed = FALSE
    /\ arrived = <<>>
    /\ started = <<>>
    /\ outcome = [t \in Task |-> "none"]

(***************************************************************************)
(* Handlers of the program                                                 *)
(***************************************************************************)

\* Give t to w. A message to a thread that is gone is lost.
Give(t, w, live) ==
    /\ info' = [info EXCEPT ![w] = t]
    /\ doing' = IF live THEN [doing EXCEPT ![w] = t] ELSE doing
    /\ started' = Append(started, t)

\* Mutants: the event is not emitted; the newest task is taken.
PushOnly(w, live) ==
    /\ free' = Append(free, w)
    /\ info' = [info EXCEPT ![w] = None]
    /\ UNCHANGED <<tasks, doing, started>>
ServeNewest(w, live) ==
    IF tasks # <<>>
    THEN /\ Give(tasks[Len(tasks)], w, live)
         /\ tasks' = SubSeq(tasks, 1, Len(tasks) - 1)
         /\ UNCHANGED free
    ELSE PushOnly(w, live)

\* Mutant: the task is not taken off the list.
ServeAgain(w, live) ==
    IF tasks # <<>>
    THEN Give(Head(tasks), w, live) /\ UNCHANGED <<tasks, free>>
    ELSE PushOnly(w, live)

\* w is pushed to the stack and kWorkerFreedEvent emitted: the handler takes
\* the first task and runs it on the worker on top, which is w.
Freed(w, live) ==
    IF tasks # <<>>
    THEN /\ Give(Head(tasks), w, live)
         /\ tasks' = Tail(tasks)
         /\ UNCHANGED free
    ELSE /\ free' = Append(free, w)
         /\ info' = [info EXCEPT ![w] = None]
         /\ UNCHANGED <<tasks, doing, started>>

RunTask(t) ==
    /\ up /\ t \notin SeqSet(arrived)
    /\ arrived' = Append(arrived, t)
    /\ IF free = <<>>
       THEN /\ tasks' = Append(tasks, t)
            /\ UNCHANGED <<free, info, doing, started>>
       ELSE LET w == free[Len(free)] IN
            /\ Give(t, w, thread[w] = "live")
            /\ free' = SubSeq(free, 1, Len(free) - 1)
            /\ UNCHANGED tasks
    /\ UNCHANGED <<workers, thread, events, up, closed, outcome>>

\* "done" from the thread ends the task of its worker.
OnMessage(w) ==
    /\ up /\ events[w] # <<>> /\ Head(events[w]) = "message"
    /\ events' = [events EXCEPT ![w] = Tail(@)]
    /\ outcome' = [outcome EXCEPT ![info[w]] = "done"]
    /\ Freed(w, thread[w] = "live")
    /\ UNCHANGED <<workers, thread, up, closed, arrived>>

\* Mutant: the failed worker is not replaced.
ErrorNotReplaced(w) ==
    /\ up /\ events[w] # <<>> /\ Head(events[w]) = "error" /\ info[w] # None
    /\ events' = [events EXCEPT ![w] = Tail(@)]
    /\ outcome' = [outcome EXCEPT ![info[w]] = "failed"]
    /\ info' = [info EXCEPT ![w] = None]
    /\ workers' = workers \ {w}
    /\ UNCHANGED <<tasks, free, threadVars, up, closed, arrived, started>>

\* A thread that had a task failed: the task fails, a new worker replaces it.
OnError(w) ==
    /\ up /\ events[w] # <<>> /\ Head(events[w]) = "error" /\ info[w] # None
    /\ events' = [events EXCEPT ![w] = Tail(@)]
    /\ outcome' = [outcome EXCEPT ![info[w]] = "failed"]
    /\ \E n \in {v \in Worker : thread[v] = "none"} :
        /\ thread' = [thread EXCEPT ![n] = "live"]
        /\ workers' = (workers \ {w}) \cup {n}
        /\ Freed(n, TRUE)
    /\ UNCHANGED <<up, closed, arrived>>

\* A thread without a task failed: the pool emits "error", nobody listens, so
\* emit throws. The program dies of it, or has a handler for uncaught
\* exceptions: then the dead worker stays in the pool.
OnIdleError(w) ==
    /\ up /\ events[w] # <<>> /\ Head(events[w]) = "error" /\ info[w] = None
    /\ events' = [events EXCEPT ![w] = Tail(@)]
    /\ up' \in BOOLEAN
    /\ UNCHANGED <<poolVars, threadVars, closed, historyVars>>

\* SIGTERM: the threads are terminated, which is no error. The program goes on
\* unless it has a handler of its own.
Close ==
    /\ up /\ ~closed
    /\ closed' = TRUE
    /\ up' \in BOOLEAN
    /\ thread' = [w \in Worker |-> IF w \in workers THEN "dead" ELSE thread[w]]
    /\ doing' = [w \in Worker |-> None]
    /\ UNCHANGED <<poolVars, events, historyVars>>

(***************************************************************************)
(* Worker threads                                                          *)
(***************************************************************************)

\* The task was posted, with or without success, and the thread says so.
Work(w) ==
    /\ up /\ thread[w] = "live" /\ doing[w] # None
    /\ doing' = [doing EXCEPT ![w] = None]
    /\ events' = [events EXCEPT ![w] = Append(@, "message")]
    /\ UNCHANGED <<poolVars, thread, up, closed, arrived, started, outcome>>

\* Model bound: a thread dies only while there is a Worker to replace it.
Spare == Cardinality({v \in Worker : thread[v] = "none"})

\* An uncaught exception or lack of memory, before or after the task was posted.
Die(w) ==
    /\ up /\ thread[w] = "live"
    /\ Spare > Cardinality({v \in workers : thread[v] = "dead"})
    /\ thread' = [thread EXCEPT ![w] = "dead"]
    /\ doing' = [doing EXCEPT ![w] = None]
    /\ events' = [events EXCEPT ![w] = Append(@, "error")]
    /\ UNCHANGED <<poolVars, up, closed, arrived, started, outcome>>

(***************************************************************************)
(* Specification                                                           *)
(***************************************************************************)

Handle(w) == OnMessage(w) \/ OnError(w) \/ OnIdleError(w)

Next == \/ \E t \in Task : RunTask(t)
        \/ \E w \in Worker : Handle(w) \/ Work(w) \/ Die(w)
        \/ Close

Spec == Init /\ [][Next]_vars

\* Events are handled, and requests to the collector end.
FairSpec == Spec /\ \A w \in Worker : WF_vars(Handle(w)) /\ WF_vars(Work(w))

(***************************************************************************)
(* Properties                                                              *)
(***************************************************************************)

\* No worker idles while a task waits, whatever the order in which calls,
\* answers and failures come.
NoIdleWhileWaiting == tasks # <<>> => free = <<>>

\* The pool keeps its strength through all failures of busy workers: every
\* Worker of the pool is either once in the free stack or has a task.
FullStrength ==
    /\ Cardinality(workers) = NumThreads
    /\ \A i, j \in 1..Len(free) : free[i] = free[j] => i = j
    /\ \A w \in workers : w \in SeqSet(free) <=> info[w] = None

\* Tasks are given to workers in the order in which runTask was called, so
\* that none is overtaken for ever, none is given twice, and what was not
\* given yet waits.
RunInOrder == arrived = started \o tasks

\* A worker that cannot answer and of which the pool knows nothing.
LostWorker == \E w \in workers : thread[w] = "dead" /\ events[w] = <<>>

\* Every task ends for the pool, unless the pool was closed, the program ended,
\* or a thread failed while it had no task and the program survived that.
TasksEnd ==
    \A t \in Task : t \in SeqSet(arrived) ~>
        outcome[t] # "none" \/ ~up \/ LostWorker

\* The calls that workers of the pool have.
Running == {info[w] : w \in workers} \ {None}

Service == INSTANCE TaskService WITH waiting <- tasks, running <- Running

\* The pool, with its events, failures and replacements, serves calls as a
\* queue with NumThreads servers does: no call is held by two workers, none ends
\* twice or before it was given to a worker, and the worker that is freed takes
\* the next one in the same step.
ServesCalls == Service!Spec
=============================================================================
