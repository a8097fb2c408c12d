--------------------------- MODULE TraceRetention ---------------------------
(***************************************************************************)
(* The job that turns old traces into counts of calls per hour. In one     *)
(* READ COMMITTED transaction it adds the traces up to maxTime to their    *)
(* counters and deletes the traces up to maxTime: two statements, each     *)
(* with a snapshot of its own. Analyzers commit traces meanwhile, some of  *)
(* which waited in the queue for long, and a run of the job may overlap    *)
(* another one that was started again after it seemed to have stalled.     *)
(*                                                                         *)
(* numCalls is represented by what was counted into it: counted[t] says    *)
(* how often t was. A key is a row of aggregate_trace_data_hourly.         *)
(***************************************************************************)
EXTENDS Integers

CONSTANTS
    Trace,
    Key,
    KeyOf,      \* trace -> its endpoint and hour
    Created,    \* trace -> createdAt
    Retention,  \* RETENTION_HOURS
    Job,        \* processes that run the job
    MaxTime,    \* model bound: time
    MaxRuns     \* model bound: runs of a process

ASSUME KeyAssumption == KeyOf \in [Trace -> Key]
ASSUME CreatedAssumption == Created \in [Trace -> Nat]
ASSUME RetentionAssumption == Retention \in Nat

VARIABLES
    now,
    stored,    \* traces in api_trace
    counted,   \* trace -> how often it was added to numCalls
    pc,        \* job -> where it is
    upTo,      \* job -> maxTime
    batch,     \* job -> traces in the sums of its aggregation
    keys,      \* job -> keys it must still insert or update
    scan,      \* job -> traces its DELETE has still to visit
    gone,      \* job -> traces it deleted in its transaction
    runs,      \* job -> how many runs it began
    analyzed,  \* history: traces that were committed
    late,      \* history: committed between the snapshots of a run
    contested  \* history: in the sums of two transactions at a time

jobVars == <<pc, upTo, batch, keys, scan, gone>>
vars == <<now, stored, counted, jobVars, runs, analyzed, late, contested>>

TypeOK ==
    /\ now \in Nat
    /\ stored \subseteq analyzed
    /\ counted \in [Trace -> Nat]
    /\ pc \in [Job -> {"idle", "begin", "aggregate", "delete"}]
    /\ upTo \in [Job -> Nat]
    /\ batch \in [Job -> SUBSET Trace]
    /\ keys \in [Job -> SUBSET Key]
    /\ scan \in [Job -> SUBSET Trace]
    /\ gone \in [Job -> SUBSET Trace]
    /\ runs \in [Job -> Nat]
    /\ analyzed \subseteq Trace
    /\ late \subseteq Trace
    /\ contested \subseteq Trace
    /\ \A j \in Job : pc[j] \in {"idle", "begin"} => batch[j] = {}
    /\ \A j \in Job : pc[j] # "delete" => scan[j] = {} /\ gone[j] = {}

Init ==
    /\ now = 0
    /\ stored = {}
    /\ counted = [t \in Trace |-> 0]
    /\ pc = [j \in Job |-> "idle"]
    /\ upTo = [j \in Job |-> 0]
    /\ batch = [j \in Job |-> {}]
    /\ keys = [j \in Job |-> {}]
    /\ scan = [j \in Job |-> {}]
    /\ gone = [j \in Job |-> {}]
    /\ runs = [j \in Job |-> 0]
    /\ analyzed = {}
    /\ late = {}
    /\ contested = {}

(***************************************************************************)
(* Analyzers                                                               *)
(***************************************************************************)

Tick == /\ now < MaxTime /\ now' = now + 1
        /\ UNCHANGED <<stored, counted, jobVars, runs, analyzed, late, contested>>

\* The trace gets its createdAt from the collector and is committed later.
Analyze(t) ==
    /\ t \notin analyzed /\ Created[t] <= now
    /\ stored' = stored \cup {t}
    /\ analyzed' = analyzed \cup {t}
    /\ late' = IF \E j \in Job : pc[j] = "aggregate" /\ Created[t] <= upTo[j]
               THEN late \cup {t} ELSE late
    /\ UNCHANGED <<now, counted, jobVars, runs, contested>>

(***************************************************************************)
(* The job                                                                 *)
(***************************************************************************)

Old == {t \in stored : Created[t] < now - Retention}

Visible(m) == {t \in stored : Created[t] <= m}

\* The newest old trace decides up to which time; without one the run is over.
ReadMaxTime(j) ==
    /\ pc[j] = "idle" /\ runs[j] < MaxRuns
    /\ \E t \in Old :
        /\ \A u \in Old : Created[u] <= Created[t]
        /\ upTo' = [upTo EXCEPT ![j] = Created[t]]
    /\ pc' = [pc EXCEPT ![j] = "begin"]
    /\ runs' = [runs EXCEPT ![j] = @ + 1]
    /\ UNCHANGED <<now, stored, counted, batch, keys, scan, gone, analyzed,
                   late, contested>>

\* Mutant: the newest trace is deleted and not counted.
StartAggregateOlder(j) ==
    /\ pc[j] = "begin"
    /\ batch' = [batch EXCEPT ![j] = {t \in stored : Created[t] < upTo[j]}]
    /\ keys' = [keys EXCEPT ![j] = {KeyOf[t] : t \in batch'[j]}]
    /\ pc' = [pc EXCEPT ![j] = "aggregate"]
    /\ contested' = contested \cup
         {t \in batch'[j] : \E i \in Job \ {j} : t \in batch[i]}
    /\ UNCHANGED <<now, stored, counted, upTo, scan, gone, runs, analyzed, late>>

\* The aggregation takes its snapshot and sums up.
StartAggregate(j) ==
    /\ pc[j] = "begin"
    /\ batch' = [batch EXCEPT ![j] = Visible(upTo[j])]
    /\ keys' = [keys EXCEPT ![j] = {KeyOf[t] : t \in Visible(upTo[j])}]
    /\ pc' = [pc EXCEPT ![j] = "aggregate"]
    /\ contested' = contested \cup
         {t \in Visible(upTo[j]) : \E i \in Job \ {j} : t \in batch[i]}
    /\ UNCHANGED <<now, stored, counted, upTo, scan, gone, runs, analyzed, late>>

\* Keys whose rows the transaction of a job has inserted or updated.
Locked(j) == {KeyOf[t] : t \in batch[j]} \ keys[j]

\* A sum is added to what is in the row, or becomes the row. A row that another
\* transaction wrote is waited for.
Upsert(j, k) ==
    /\ pc[j] = "aggregate" /\ k \in keys[j]
    /\ \A i \in Job \ {j} : k \notin Locked(i)
    /\ keys' = [keys EXCEPT ![j] = @ \ {k}]
    /\ UNCHANGED <<now, stored, counted, pc, upTo, batch, scan, gone, runs,
                   analyzed, late, contested>>

\* Mutant: the newest trace is counted and stays.
StartDeleteOlder(j) ==
    /\ pc[j] = "aggregate" /\ keys[j] = {}
    /\ scan' = [scan EXCEPT ![j] = {t \in stored : Created[t] < upTo[j]}]
    /\ pc' = [pc EXCEPT ![j] = "delete"]
    /\ UNCHANGED <<now, stored, counted, upTo, batch, keys, gone, runs, analyzed,
                   late, contested>>

\* The DELETE takes its snapshot: what was committed since the aggregation is
\* in it.
StartDelete(j) ==
    /\ pc[j] = "aggregate" /\ keys[j] = {}
    /\ scan' = [scan EXCEPT ![j] = Visible(upTo[j])]
    /\ pc' = [pc EXCEPT ![j] = "delete"]
    /\ UNCHANGED <<now, stored, counted, upTo, batch, keys, gone, runs, analyzed,
                   late, contested>>

\* A row that another transaction deletes is waited for, and skipped if it is
\* gone then.
DeleteRow(j, t) ==
    /\ pc[j] = "delete" /\ t \in scan[j]
    /\ \A i \in Job \ {j} : t \notin gone[i]
    /\ scan' = [scan EXCEPT ![j] = @ \ {t}]
    /\ gone' = [gone EXCEPT ![j] = @ \cup ({t} \cap stored)]
    /\ UNCHANGED <<now, stored, counted, pc, upTo, batch, keys, runs, analyzed,
                   late, contested>>

EndRun(j) ==
    /\ pc' = [pc EXCEPT ![j] = "idle"]
    /\ batch' = [batch EXCEPT ![j] = {}]
    /\ keys' = [keys EXCEPT ![j] = {}]
    /\ scan' = [scan EXCEPT ![j] = {}]
    /\ gone' = [gone EXCEPT ![j] = {}]
    /\ UNCHANGED <<now, upTo, runs, analyzed, late, contested>>

Commit(j) ==
    /\ pc[j] = "delete" /\ scan[j] = {}
    /\ stored' = stored \ gone[j]
    /\ counted' = [t \in Trace |-> IF t \in batch[j] THEN counted[t] + 1
                                   ELSE counted[t]]
    /\ EndRun(j)

\* Mutant: the sums stay when the run fails.
RollbackKeeps(j) ==
    /\ pc[j] # "idle"
    /\ counted' = [t \in Trace |-> IF t \in batch[j] THEN counted[t] + 1
                                   ELSE counted[t]]
    /\ EndRun(j)
    /\ UNCHANGED stored

\* A statement fails, two transactions wait for each other, or the process is
\* killed: the transaction is rolled back.
Rollback(j) ==
    /\ pc[j] # "idle"
    /\ EndRun(j)
    /\ UNCHANGED <<stored, counted>>

JobStep(j) ==
    \/ ReadMaxTime(j) \/ StartAggregate(j) \/ StartDelete(j)
    \/ Commit(j) \/ Rollback(j)
    \/ \E k \in Key : Upsert(j, k)
    \/ \E t \in Trace : DeleteRow(j, t)

Next == Tick \/ (\E t \in Trace : Analyze(t)) \/ (\E j \in Job : JobStep(j))

Spec == Init /\ [][Next]_vars

(***************************************************************************)
(* Properties                                                              *)
(***************************************************************************)

\* The calls of an endpoint are its counts plus its traces: a trace is never
\* both, so that a failed or repeated run does not count a call twice.
CountedOrStored == \A t \in stored : counted[t] = 0

\* A call is counted twice only if two transactions had it in their sums at the
\* same time.
TwiceOnlyByOverlap == \A t \in Trace : counted[t] > 1 => t \in contested

\* A call disappears without being counted only if its trace was committed
\* between the aggregation and the deletion of a run.
LostOnlyIfLate ==
    \A t \in analyzed \ stored : counted[t] = 0 => t \in late
=============================================================================
