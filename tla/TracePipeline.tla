--------------------------- MODULE TracePipeline ---------------------------
(***************************************************************************)
(* The path of a reported API call through Metlo: collectors check the     *)
(* length of a redis list and push the trace to it, analyzer processes pop *)
(* it, find or create the ApiEndpoint row it belongs to and store it in    *)
(* one Postgres transaction, while users delete endpoints.                 *)
(*                                                                         *)
(* An ApiEndpoint row is named by the trace whose analysis created it: one *)
(* call of generateEndpoint inserts at most one row, under a fresh uuid.   *)
(* Host and method are the same for all traces, so that the unique key     *)
(* (path, method, host) of api_endpoint is the path.                       *)
(***************************************************************************)
EXTENDS Naturals, Sequences, FiniteSets

CONSTANTS
    Collector,    \* logRequest / logRequestBatch calls that run at a time
    Analyzer,     \* analyzer processes
    Trace,        \* the API calls that agents report, each reported once
    Path,         \* request paths and endpoint paths
    BadPath,      \* the paths getValidPath refuses
    PathOf,       \* the request path of a trace
    Parameterize, \* the endpoint path generateEndpoint derives from a path
    Regex,        \* <<e, p>>: the regex of endpoint path e matches path p
    NumParams,    \* number of {parameter} tokens of an endpoint path
    Suspected,    \* number of tokens of a path isSuspectedParamater accepts
    NotFound,     \* the traces whose response status is 404 or 405
    QueueLimit,   \* a collector drops a trace when the queue is longer
    Retention,    \* traces kept per endpoint in redis
    MaxBatch,     \* model bound: traces in one request
    MaxLlenFailures, \* model bound: failed length checks
    None          \* no trace, no endpoint

ASSUME NoneAssumption == None \notin Trace
ASSUME SetsAssumption == /\ IsFiniteSet(Collector)
                         /\ BadPath \subseteq Path
                         /\ NotFound \subseteq Trace
                         /\ Regex \subseteq Path \X Path
ASSUME PathAssumption == /\ PathOf \in [Trace -> Path]
                         /\ Parameterize \in [Path -> Path]
                         /\ NumParams \in [Path -> Nat]
                         /\ Suspected \in [Path -> Nat]
ASSUME BoundAssumption == /\ QueueLimit \in Nat
                          /\ Retention \in Nat \ {0}
                          /\ MaxBatch \in Nat
                          /\ MaxLlenFailures \in Nat

VARIABLES
    batch,        \* collector -> traces of its request still to be logged
    admitted,     \* collector -> the first of them passed the checks
    queue,        \* the redis list TRACES_QUEUE
    pc,           \* analyzer -> where it is in analyzeTraces
    cur,          \* analyzer -> the trace it popped
    target,       \* analyzer -> the endpoint object it analyzes the trace with
    isNew,        \* analyzer -> the newEndpoint argument of analyzeFunc
    endpoints,    \* the rows of api_endpoint
    stored,       \* trace -> apiEndpointUuid of its api_trace row, or None
    newAlerts,    \* endpoint -> number of its NEW_ENDPOINT rows in alert
    recent,       \* endpoint -> the redis list endpointTraces:e#uuid
    sent,         \* history: the traces some request has carried
    deleted,      \* history: the endpoints users deleted
    notified,     \* history: endpoints whose NEW_ENDPOINT webhook was sent
    cause,        \* history: why a trace was given up
    llenFailures  \* history: number of failed length checks

collectorVars == <<batch, admitted>>
analyzerVars  == <<pc, cur, target, isNew>>
dbVars        == <<endpoints, stored, newAlerts>>
vars == <<batch, admitted, queue, pc, cur, target, isNew, endpoints, stored,
          newAlerts, recent, sent, deleted, notified, cause, llenFailures>>

PC    == {"idle", "lookup", "generate", "recover", "analyze", "inserted",
          "pushed", "committed"}
Cause == {"none", "overload", "invalid", "status", "race", "fault"}

SeqSet(s) == {s[i] : i \in 1..Len(s)}

TypeOK ==
    /\ batch \in [Collector -> Seq(Trace)]
    /\ admitted \in [Collector -> BOOLEAN]
    /\ queue \in Seq(Trace)
    /\ pc \in [Analyzer -> PC]
    /\ cur \in [Analyzer -> Trace \cup {None}]
    /\ target \in [Analyzer -> Trace \cup {None}]
    /\ isNew \in [Analyzer -> BOOLEAN]
    /\ endpoints \subseteq Trace
    /\ stored \in [Trace -> Trace \cup {None}]
    /\ newAlerts \in [Trace -> Nat]
    /\ recent \in [Trace -> Seq(Trace)]
    /\ sent \subseteq Trace
    /\ deleted \subseteq Trace
    /\ notified \subseteq Trace
    /\ cause \in [Trace -> Cause]
    /\ llenFailures \in Nat
    /\ \A a \in Analyzer :
        /\ pc[a] = "idle" <=> cur[a] = None
        /\ pc[a] \in {"analyze", "inserted", "pushed", "committed"}
              => target[a] # None
    /\ \A c \in Collector : admitted[c] => batch[c] # <<>>

Init ==
    /\ batch = [c \in Collector |-> <<>>]
    /\ admitted = [c \in Collector |-> FALSE]
    /\ queue = <<>>
    /\ pc = [a \in Analyzer |-> "idle"]
    /\ cur = [a \in Analyzer |-> None]
    /\ target = [a \in Analyzer |-> None]
    /\ isNew = [a \in Analyzer |-> FALSE]
    /\ endpoints = {}
    /\ stored = [t \in Trace |-> None]
    /\ newAlerts = [t \in Trace |-> 0]
    /\ recent = [t \in Trace |-> <<>>]
    /\ sent = {}
    /\ deleted = {}
    /\ notified = {}
    /\ cause = [t \in Trace |-> "none"]
    /\ llenFailures = 0

(***************************************************************************)
(* Collectors                                                              *)
(***************************************************************************)

GiveUp(T, why) == cause' = [t \in Trace |-> IF t \in T THEN why ELSE cause[t]]

\* An HTTP request reports a batch of traces; a single trace is a batch of one.
Accept(c) ==
    /\ batch[c] = <<>>
    /\ \E n \in 1..MaxBatch : \E b \in [1..n -> Trace \ sent] :
        /\ \A i, j \in 1..n : i # j => b[i] # b[j]
        /\ batch' = [batch EXCEPT ![c] = b]
        /\ sent' = sent \cup SeqSet(b)
    /\ UNCHANGED <<admitted, queue, analyzerVars, dbVars, recent, deleted,
                   notified, cause, llenFailures>>

\* The queue is too long: the trace is dropped, the call returns without an
\* error, and the loop goes on with the next trace of the batch.
DropOverload(c) ==
    /\ batch[c] # <<>> /\ ~admitted[c]
    /\ Len(queue) > QueueLimit
    /\ batch' = [batch EXCEPT ![c] = Tail(@)]
    /\ GiveUp({Head(batch[c])}, "overload")
    /\ UNCHANGED <<admitted, queue, analyzerVars, dbVars, recent, sent,
                   deleted, notified, llenFailures>>

\* Mutant: the length of the queue is not compared with the limit.
LengthIgnored(failed) ==
    /\ llenFailures < MaxLlenFailures \/ ~failed
    /\ UNCHANGED llenFailures

\* The length was read and is within the limit, or could not be read, in
\* which case it counts as 0.
LengthAccepted(failed) ==
    IF failed
    THEN /\ llenFailures < MaxLlenFailures
         /\ llenFailures' = llenFailures + 1
    ELSE /\ Len(queue) <= QueueLimit
         /\ UNCHANGED llenFailures

Admit(c) ==
    /\ batch[c] # <<>> /\ ~admitted[c]
    /\ \E failed \in BOOLEAN : LengthAccepted(failed)
    /\ PathOf[Head(batch[c])] \notin BadPath
    /\ admitted' = [admitted EXCEPT ![c] = TRUE]
    /\ UNCHANGED <<batch, queue, analyzerVars, dbVars, recent, sent, deleted,
                   notified, cause>>

\* An invalid path raises a 400 error, which ends the request: the traces of
\* the batch that come after it are not logged.
RejectInvalid(c) ==
    /\ batch[c] # <<>> /\ ~admitted[c]
    /\ \E failed \in BOOLEAN : LengthAccepted(failed)
    /\ PathOf[Head(batch[c])] \in BadPath
    /\ batch' = [batch EXCEPT ![c] = <<>>]
    /\ GiveUp(SeqSet(batch[c]), "invalid")
    /\ UNCHANGED <<admitted, queue, analyzerVars, dbVars, recent, sent,
                   deleted, notified>>

\* rpush, once the block fields and the authentication config were applied.
Enqueue(c) ==
    /\ batch[c] # <<>> /\ admitted[c]
    /\ queue' = Append(queue, Head(batch[c]))
    /\ batch' = [batch EXCEPT ![c] = Tail(@)]
    /\ admitted' = [admitted EXCEPT ![c] = FALSE]
    /\ UNCHANGED <<analyzerVars, dbVars, recent, sent, deleted, notified,
                   cause, llenFailures>>

\* An error after the checks (config lookup, rpush) is a 500 error, and the
\* process may stop at any point: the rest of the batch is given up.
AbortRequest(c) ==
    /\ batch[c] # <<>>
    /\ batch' = [batch EXCEPT ![c] = <<>>]
    /\ admitted' = [admitted EXCEPT ![c] = FALSE]
    /\ GiveUp(SeqSet(batch[c]), "fault")
    /\ UNCHANGED <<queue, analyzerVars, dbVars, recent, sent, deleted,
                   notified, llenFailures>>

(***************************************************************************)
(* Analyzers                                                               *)
(***************************************************************************)

EndpointPath(e) == Parameterize[PathOf[e]]

Goto(a, label) == pc' = [pc EXCEPT ![a] = label]

\* Mutant: the endpoint counts as new whoever created it.
AnalyzeAsNew(a, e, new) ==
    /\ Goto(a, "analyze")
    /\ target' = [target EXCEPT ![a] = e]
    /\ isNew' = [isNew EXCEPT ![a] = TRUE]
    /\ UNCHANGED cur

AnalyzeWith(a, e, new) ==
    /\ Goto(a, "analyze")
    /\ target' = [target EXCEPT ![a] = e]
    /\ isNew' = [isNew EXCEPT ![a] = new]
    /\ UNCHANGED cur

\* Back to the head of the loop; nothing of the trace is kept.
Release(a) ==
    /\ Goto(a, "idle")
    /\ cur' = [cur EXCEPT ![a] = None]
    /\ target' = [target EXCEPT ![a] = None]
    /\ isNew' = [isNew EXCEPT ![a] = FALSE]

\* Mutant: the analyzer reads the head of the queue without removing it.
Peek(a) ==
    /\ pc[a] = "idle"
    /\ queue # <<>>
    /\ cur' = [cur EXCEPT ![a] = Head(queue)]
    /\ Goto(a, "lookup")
    /\ UNCHANGED <<collectorVars, queue, target, isNew, dbVars, recent, sent,
                   deleted, notified, cause, llenFailures>>

\* lpop: from here on the trace exists only in the memory of the analyzer.
Pop(a) ==
    /\ pc[a] = "idle"
    /\ queue # <<>>
    /\ queue' = Tail(queue)
    /\ cur' = [cur EXCEPT ![a] = Head(queue)]
    /\ Goto(a, "lookup")
    /\ UNCHANGED <<collectorVars, target, isNew, dbVars, recent, sent,
                   deleted, notified, cause, llenFailures>>

SkipAutoGeneratedMatch(e, p) ==
    \/ Suspected[p] < NumParams[EndpointPath(e)]
    \/ Suspected[p] = 0 /\ p # EndpointPath(e)

\* The rows the regex query may return first: those with fewest parameters.
BestMatches(p) ==
    LET matching == {e \in endpoints : <<EndpointPath(e), p>> \in Regex}
    IN  {e \in matching : \A f \in matching :
            NumParams[EndpointPath(e)] <= NumParams[EndpointPath(f)]}

LookupFound(a) ==
    /\ pc[a] = "lookup"
    /\ \E e \in BestMatches(PathOf[cur[a]]) :
        /\ ~SkipAutoGeneratedMatch(e, PathOf[cur[a]])
        /\ AnalyzeWith(a, e, FALSE)
    /\ UNCHANGED <<collectorVars, queue, dbVars, recent, sent, deleted,
                   notified, cause, llenFailures>>

NoUsableMatch(p) ==
    \/ BestMatches(p) = {}
    \/ \E e \in BestMatches(p) : SkipAutoGeneratedMatch(e, p)

LookupMissing(a) ==
    /\ pc[a] = "lookup"
    /\ NoUsableMatch(PathOf[cur[a]])
    /\ cur[a] \notin NotFound
    /\ Goto(a, "generate")
    /\ UNCHANGED <<collectorVars, queue, cur, target, isNew, dbVars, recent,
                   sent, deleted, notified, cause, llenFailures>>

\* Mutant: the loop retries a 404 instead of going on.
LookupRetried(a) ==
    /\ pc[a] = "lookup"
    /\ NoUsableMatch(PathOf[cur[a]])
    /\ cur[a] \in NotFound
    /\ UNCHANGED vars

\* A call answered with 404 or 405 makes no endpoint.
LookupIgnored(a) ==
    /\ pc[a] = "lookup"
    /\ NoUsableMatch(PathOf[cur[a]])
    /\ cur[a] \in NotFound
    /\ GiveUp({cur[a]}, "status")
    /\ Release(a)
    /\ UNCHANGED <<collectorVars, queue, dbVars, recent, sent, deleted,
                   notified, llenFailures>>

Conflicts(t) == \E e \in endpoints : EndpointPath(e) = EndpointPath(t)

\* generateEndpoint inserts and commits the row before it analyzes the trace.
CreateEndpoint(a) ==
    /\ pc[a] = "generate"
    /\ ~Conflicts(cur[a])
    /\ endpoints' = endpoints \cup {cur[a]}
    /\ AnalyzeWith(a, cur[a], TRUE)
    /\ UNCHANGED <<collectorVars, queue, stored, newAlerts, recent, sent,
                   deleted, notified, cause, llenFailures>>

\* The unique constraint on (path, method, host) refuses the row (23505).
LoseCreationRace(a) ==
    /\ pc[a] = "generate"
    /\ Conflicts(cur[a])
    /\ Goto(a, "recover")
    /\ UNCHANGED <<collectorVars, queue, cur, target, isNew, dbVars, recent,
                   sent, deleted, notified, cause, llenFailures>>

\* Mutants: the lookup returns some row; the lookup is missing.
AnyRow(t) == endpoints
NoRow(t)  == {}

\* The row of the winner is looked up by the path of the trace, not by the
\* path generateEndpoint derived from it.
WinnersRow(t) == {e \in endpoints : EndpointPath(e) = PathOf[t]}

RecoverFound(a) ==
    /\ pc[a] = "recover"
    /\ \E e \in WinnersRow(cur[a]) : AnalyzeWith(a, e, FALSE)
    /\ UNCHANGED <<collectorVars, queue, dbVars, recent, sent, deleted,
                   notified, cause, llenFailures>>

RecoverMissing(a) ==
    /\ pc[a] = "recover"
    /\ WinnersRow(cur[a]) = {}
    /\ GiveUp({cur[a]}, "race")
    /\ Release(a)
    /\ UNCHANGED <<collectorVars, queue, dbVars, recent, sent, deleted,
                   notified, llenFailures>>

\* The transaction of analyze inserts the data fields and the trace. The
\* foreign key needs the endpoint row, and the row stays locked against
\* deletion until the transaction ends.
InsertTrace(a) ==
    /\ pc[a] = "analyze"
    /\ target[a] \in endpoints
    /\ Goto(a, "inserted")
    /\ UNCHANGED <<collectorVars, queue, cur, target, isNew, dbVars, recent,
                   sent, deleted, notified, cause, llenFailures>>

\* Mutant: the data fields are written after the trace and the redis list.
LateFieldsClash(a) ==
    /\ pc[a] = "pushed"
    /\ isNew[a]
    /\ \E t \in Trace : stored[t] = target[a]
    /\ Goto(a, "recover")
    /\ UNCHANGED <<collectorVars, queue, cur, target, isNew, dbVars, recent,
                   sent, deleted, notified, cause, llenFailures>>

\* The data fields clash with those another analyzer stored for the endpoint
\* (23505). The catch clause around the creation of the endpoint takes the
\* error for a lost race.
FieldsClash(a) ==
    /\ pc[a] = "analyze"
    /\ isNew[a]
    /\ \E t \in Trace : stored[t] = target[a]
    /\ Goto(a, "recover")
    /\ UNCHANGED <<collectorVars, queue, cur, target, isNew, dbVars, recent,
                   sent, deleted, notified, cause, llenFailures>>

Newest(s) == SubSeq(s, 1, IF Len(s) < Retention THEN Len(s) ELSE Retention)

\* lpush and ltrim on the list of the endpoint. They are no part of the
\* transaction, and their errors are swallowed.
PushRecent(a) ==
    /\ pc[a] = "inserted"
    /\ \/ recent' = [recent EXCEPT ![target[a]] = Newest(<<cur[a]>> \o @)]
       \/ UNCHANGED recent
    /\ Goto(a, "pushed")
    /\ UNCHANGED <<collectorVars, queue, cur, target, isNew, dbVars, sent,
                   deleted, notified, cause, llenFailures>>

Commit(a) ==
    /\ pc[a] = "pushed"
    /\ stored' = [stored EXCEPT ![cur[a]] = target[a]]
    /\ newAlerts' = [newAlerts EXCEPT ![target[a]] =
                        IF isNew[a] THEN @ + 1 ELSE @]
    /\ Goto(a, "committed")
    /\ UNCHANGED <<collectorVars, queue, cur, target, isNew, endpoints,
                   recent, sent, deleted, notified, cause, llenFailures>>

\* Webhooks go out after the commit; their errors are swallowed.
Notify(a) ==
    /\ pc[a] = "committed"
    /\ \/ notified' = IF isNew[a] THEN notified \cup {target[a]} ELSE notified
       \/ UNCHANGED notified
    /\ Release(a)
    /\ UNCHANGED <<collectorVars, queue, dbVars, recent, sent, deleted, cause,
                   llenFailures>>

\* A failed query rolls the transaction back and the loop goes on with the
\* next trace; so does a restart of the process. The foreign key error after
\* a deletion of the endpoint is one of these failures.
FailAnalysis(a) ==
    /\ pc[a] \notin {"idle", "committed"}
    /\ GiveUp({cur[a]}, "fault")
    /\ Release(a)
    /\ UNCHANGED <<collectorVars, queue, dbVars, recent, sent, deleted,
                   notified, llenFailures>>

(***************************************************************************)
(* Users                                                                   *)
(***************************************************************************)

\* Mutant: the foreign keys take no lock on the endpoint.
NeverLocked(e) == FALSE

Locked(e) == \E a \in Analyzer : pc[a] \in {"inserted", "pushed"} /\ target[a] = e

\* deleteEndpoint removes the row and all that refers to it in one
\* serializable transaction. It waits for, and then fails against, a
\* transaction of an analyzer that refers to the row.
DeleteEndpoint(e) ==
    /\ e \in endpoints
    /\ ~Locked(e)
    /\ endpoints' = endpoints \ {e}
    /\ stored' = [t \in Trace |-> IF stored[t] = e THEN None ELSE stored[t]]
    /\ newAlerts' = [newAlerts EXCEPT ![e] = 0]
    /\ deleted' = deleted \cup {e}
    /\ UNCHANGED <<collectorVars, queue, analyzerVars, recent, sent, notified,
                   cause, llenFailures>>

(***************************************************************************)
(* Specification                                                           *)
(***************************************************************************)

CollectorStep(c) == \/ DropOverload(c)
                    \/ Admit(c)
                    \/ RejectInvalid(c)
                    \/ Enqueue(c)

AnalyzerStep(a) == \/ Pop(a)
                   \/ LookupFound(a) \/ LookupMissing(a) \/ LookupIgnored(a)
                   \/ CreateEndpoint(a) \/ LoseCreationRace(a)
                   \/ RecoverFound(a) \/ RecoverMissing(a)
                   \/ InsertTrace(a) \/ FieldsClash(a)
                   \/ PushRecent(a)
                   \/ Commit(a)
                   \/ Notify(a)

Next == \/ \E c \in Collector : Accept(c) \/ CollectorStep(c) \/ AbortRequest(c)
        \/ \E a \in Analyzer : AnalyzerStep(a) \/ FailAnalysis(a)
        \/ \E e \in Trace : DeleteEndpoint(e)

Spec == Init /\ [][Next]_vars

\* A process that can take a step takes one in the end. Requests, failures
\* and deletions need not happen; only a foreign key error must be raised.
ForeignKeyError(a) == /\ pc[a] = "analyze"
                      /\ target[a] \notin endpoints
                      /\ FailAnalysis(a)

FairSpec == /\ Spec
            /\ \A c \in Collector : WF_vars(CollectorStep(c))
            /\ \A a \in Analyzer : WF_vars(AnalyzerStep(a) \/ ForeignKeyError(a))

(***************************************************************************)
(* Properties                                                              *)
(***************************************************************************)

AdmittedCollectors == {c \in Collector : admitted[c]}

\* The length check and the push are separate commands, so the queue can grow
\* past the limit, but only by one trace for each request that was between
\* the two and by one for each length check that failed.
QueueBounded ==
    Len(queue) + Cardinality(AdmittedCollectors)
        <= QueueLimit + Cardinality(Collector) + llenFailures

\* Whatever is deleted while it is analyzed, a stored trace and an alert
\* belong to an existing endpoint.
RowsHaveEndpoint ==
    /\ \A t \in Trace : stored[t] # None => stored[t] \in endpoints
    /\ \A e \in Trace : newAlerts[e] > 0 => e \in endpoints

\* A trace is stored under an endpoint whose path describes it: one whose
\* regex matches it, or the one derived from it.
StoredUnderOwnPath ==
    \A t \in Trace : stored[t] # None =>
        \/ <<EndpointPath(stored[t]), PathOf[t]>> \in Regex
        \/ EndpointPath(stored[t]) \in {PathOf[t], EndpointPath(t)}

\* A path is announced as new at most once for as long as its endpoint lives:
\* analyzers that lose the race to create it do not announce it again.
AnnouncedOnce ==
    \A e \in Trace : newAlerts[e] <= 1

InCollector(t) == \E c \in Collector : t \in SeqSet(batch[c])
InQueue(t)     == t \in SeqSet(queue)
InAnalyzer(t)  == \E a \in Analyzer : cur[a] = t
Waiting(t)     == \E a \in Analyzer : cur[a] = t /\ pc[a] # "committed"

Injective(s) == \A i, j \in 1..Len(s) : s[i] = s[j] => i = j

\* A trace is never at two places: it is in one batch, once in the queue, with
\* one analyzer, or stored, or given up.
OnePlace ==
    /\ Injective(queue)
    /\ \A c \in Collector : Injective(batch[c])
    /\ \A c, d \in Collector :
        c # d => SeqSet(batch[c]) \cap SeqSet(batch[d]) = {}
    /\ \A a, b \in Analyzer : cur[a] # None /\ cur[a] = cur[b] => a = b
    /\ \A t \in Trace :
        /\ InCollector(t) => ~InQueue(t) /\ ~InAnalyzer(t)
        /\ InQueue(t) => ~InAnalyzer(t)
        /\ InCollector(t) \/ InQueue(t) \/ Waiting(t)
             => stored[t] = None /\ cause[t] = "none"

\* A trace shows up at most once in the redis lists of all endpoints, also
\* when it is analyzed a second time after a clash.
ListedOnce ==
    \A e, f \in Trace : \A i \in DOMAIN recent[e], j \in DOMAIN recent[f] :
        recent[e][i] = recent[f][j] => e = f /\ i = j

\* Without a failure the only trace with a fine path that is lost in silence
\* is one that lost the race to create its endpoint, and then only if its
\* path has parameters or the endpoint of the winner was deleted.
RaceLosesOnlyParameterized ==
    \A t \in Trace : cause[t] = "race" =>
        \/ Parameterize[PathOf[t]] # PathOf[t]
        \/ \E e \in deleted : EndpointPath(e) = PathOf[t]

StatusOf(t) == IF stored[t] # None THEN "stored"
               ELSE IF t \notin sent THEN "unsent"
               ELSE IF InCollector(t) \/ InQueue(t) \/ Waiting(t) THEN "pending"
               ELSE "gone"

Delivery == INSTANCE TraceDelivery
                WITH status <- [t \in Trace |-> StatusOf(t)]

\* The pipeline delivers at most once: whatever collectors, analyzers, failures
\* and deletions do, a trace goes from unsent to pending to stored or given up,
\* and what was given up or removed with its endpoint is never stored again.
DeliversAtMostOnce == Delivery!Spec

\* In addition no trace stays pending while the processes go on.
DeliversInTheEnd == Delivery!FairSpec
=============================================================================
