---------------------------- MODULE TaskService ----------------------------
(***************************************************************************)
(* What the worker pool of the Node agent promises: calls are served in    *)
(* the order in which they come, as many at a time as there are threads,   *)
(* none waits while a thread is free, and each ends once.                  *)
(***************************************************************************)
EXTENDS Naturals, Sequences, FiniteSets

CONSTANTS
    Task,        \* the calls
    NumThreads   \* how many are served at a time

VARIABLES
    waiting,  \* the calls that wait, in order
    running,  \* the calls that are served
    outcome   \* call -> how it ended

Init ==
    /\ waiting = <<>>
    /\ running = {}
    /\ outcome = [t \in Task |-> "none"]

New(t) == /\ t \notin running /\ outcome[t] = "none"
          /\ \A i \in 1..Len(waiting) : waiting[i] # t

Serve(t) ==
    /\ New(t) /\ Cardinality(running) < NumThreads
    /\ running' = running \cup {t}
    /\ UNCHANGED <<waiting, outcome>>

Queue(t) ==
    /\ New(t) /\ Cardinality(running) = NumThreads
    /\ waiting' = Append(waiting, t)
    /\ UNCHANGED <<running, outcome>>

\* t ends, and the call that waited longest is served in its place.
End(t) ==
    /\ t \in running
    /\ \E how \in {"done", "failed"} : outcome' = [outcome EXCEPT ![t] = how]
    /\ IF waiting = <<>>
       THEN running' = running \ {t} /\ UNCHANGED waiting
       ELSE /\ running' = (running \ {t}) \cup {Head(waiting)}
            /\ waiting' = Tail(waiting)

Next == \E t \in Task : Serve(t) \/ Queue(t) \/ End(t)

Spec == Init /\ [][Next]_<<waiting, running, outcome>>
=============================================================================
