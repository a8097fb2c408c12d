---------------------------- MODULE RateLimiter ----------------------------
(***************************************************************************)
(* The limit of traces per second in the Go, Java and Kotlin agents. Every *)
(* agent keeps a list of time stamps; a thread of the instrumented program *)
(* that wants to report a call takes the lock, drops the stamps that are   *)
(* older than a second and, if fewer than rps are left, adds its own.      *)
(*                                                                         *)
(* Stamps come from the wall clock, which may be set while the program     *)
(* runs. Which stamp belongs to which granted call matters, their order in *)
(* the list does not: ts holds the indices of granted calls.               *)
(***************************************************************************)
EXTENDS Integers, Sequences, FiniteSets

CONSTANTS
    Thread,   \* threads of the instrumented program
    Rps,      \* traces that may be reported in a window
    Window,   \* 1000 ms
    Jump,     \* what the clock is set forward (> 0) or back (< 0) by
    MaxJumps, \* model bound: how often the clock is set
    MaxTime,  \* model bound: time units
    None      \* no thread

ASSUME RpsAssumption == Rps \in Nat \ {0}
ASSUME WindowAssumption == Window \in Nat
ASSUME JumpAssumption == Jump \subseteq Int
ASSUME ThreadAssumption == None \notin Thread

VARIABLES
    lock,    \* the thread that holds the mutex
    pc,      \* thread -> "out" or "in" allow
    reading, \* thread -> its reading of the clock
    tmp,     \* thread -> tmp_ts, the stamps it keeps
    ts,      \* the stamps
    granted, \* history: the readings of the calls that were granted
    now,     \* time
    offset,  \* what the wall clock is ahead of it
    epoch,   \* how often the clock was set forward
    jumps    \* how often the clock was set

vars == <<lock, pc, reading, tmp, ts, granted, now, offset, epoch, jumps>>

Reading == [real : Int, stamp : Int, epoch : Nat]
NoReading == [real |-> 0, stamp |-> 0, epoch |-> 0]

TypeOK ==
    /\ lock \in Thread \cup {None}
    /\ pc \in [Thread -> {"out", "in"}]
    /\ reading \in [Thread -> Reading]
    /\ tmp \in [Thread -> SUBSET (1..Len(granted))]
    /\ ts \subseteq 1..Len(granted)
    /\ granted \in Seq(Reading)
    /\ now \in Nat /\ offset \in Int /\ epoch \in Nat /\ jumps \in Nat
    /\ \A t \in Thread : pc[t] = "in" <=> lock = t

Init ==
    /\ lock = None
    /\ pc = [t \in Thread |-> "out"]
    /\ reading = [t \in Thread |-> NoReading]
    /\ tmp = [t \in Thread |-> {}]
    /\ ts = {}
    /\ granted = <<>>
    /\ now = 0
    /\ offset = 0
    /\ epoch = 0
    /\ jumps = 0

Clock == [real |-> now, stamp |-> now + offset, epoch |-> epoch]

\* Mutant: old stamps are kept.
KeepAll(stamp) == ts

\* The stamps of the last second, and any that lie in the future because the
\* clock was set back.
Recent(stamp) == {i \in ts : stamp - granted[i].stamp <= Window}

\* Mutant: no mutex.
EnterUnlocked(t) ==
    /\ pc[t] = "out"
    /\ lock' = t
    /\ pc' = [pc EXCEPT ![t] = "in"]
    /\ reading' = [reading EXCEPT ![t] = Clock]
    /\ tmp' = [tmp EXCEPT ![t] = Recent(Clock.stamp)]
    /\ UNCHANGED <<ts, granted, now, offset, epoch, jumps>>

\* Lock, read the clock, filter the list.
Enter(t) ==
    /\ pc[t] = "out" /\ lock = None
    /\ lock' = t
    /\ pc' = [pc EXCEPT ![t] = "in"]
    /\ reading' = [reading EXCEPT ![t] = Clock]
    /\ tmp' = [tmp EXCEPT ![t] = Recent(Clock.stamp)]
    /\ UNCHANGED <<ts, granted, now, offset, epoch, jumps>>

\* Fewer than rps are left: the call is granted and stamped.
Grant(t) ==
    /\ Cardinality(tmp[t]) < Rps
    /\ granted' = Append(granted, reading[t])
    /\ ts' = tmp[t] \cup {Len(granted) + 1}

Refuse(t) ==
    /\ Cardinality(tmp[t]) >= Rps
    /\ ts' = tmp[t]
    /\ UNCHANGED granted

\* The list is replaced, the mutex released.
Leave(t) ==
    /\ pc[t] = "in"
    /\ Grant(t) \/ Refuse(t)
    /\ lock' = None
    /\ pc' = [pc EXCEPT ![t] = "out"]
    /\ tmp' = [tmp EXCEPT ![t] = {}]
    /\ UNCHANGED <<reading, now, offset, epoch, jumps>>

Tick ==
    /\ now < MaxTime
    /\ now' = now + 1
    /\ UNCHANGED <<lock, pc, reading, tmp, ts, granted, offset, epoch, jumps>>

\* The wall clock is set.
SetClock ==
    /\ jumps < MaxJumps
    /\ \E j \in Jump :
        /\ offset' = offset + j
        /\ epoch' = IF j > 0 THEN epoch + 1 ELSE epoch
    /\ jumps' = jumps + 1
    /\ UNCHANGED <<lock, pc, reading, tmp, ts, granted, now>>

Next == (\E t \in Thread : Enter(t) \/ Leave(t)) \/ Tick \/ SetClock

Spec == Init /\ [][Next]_vars

(***************************************************************************)
(* Properties                                                              *)
(***************************************************************************)

\* Of any rps + 1 successive calls that are granted, the last came more than a
\* second after the first: no second has more than rps, wherever it begins,
\* whatever the threads do, also when the clock is set back. Only a clock that
\* is set forward in between lets more through.
SteadyRate ==
    \A i \in 1..Len(granted) :
        i + Rps <= Len(granted) /\ granted[i].epoch = granted[i + Rps].epoch
            => granted[i + Rps].real - granted[i].real > Window

Refuses(t) == pc[t] = "in" /\ pc'[t] = "out" /\ granted' = granted

\* A call is refused only when rps granted calls are at most a window old by
\* the clock: permits that expired are usable at once.
RefusesOnlyWhenFull ==
    [][\A t \in Thread : Refuses(t) =>
        Cardinality({i \in 1..Len(granted) :
            reading[t].stamp - granted[i].stamp <= Window}) >= Rps]_vars
=============================================================================
