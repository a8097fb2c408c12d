------------------------------ MODULE Webhooks ------------------------------
(***************************************************************************)
(* Alerts that an analyzer has committed are sent to the webhooks that ask *)
(* for them. sendWebhookRequests takes one alert after the other, reads    *)
(* the webhooks for it, posts it to each with retries, and appends the     *)
(* result to the runs it read before. Other analyzers do the same, and     *)
(* users create, change and delete webhooks meanwhile.                     *)
(*                                                                         *)
(* Alerts have types of their own and one host, so that the filter of a    *)
(* webhook is a set of alerts; the empty set lets all through.             *)
(*                                                                         *)
(* The names that every module has (Init, TypeOK, ...) say here which one  *)
(* this is: AlertProofs extends this module and AlertLifecycle.            *)
(***************************************************************************)
EXTENDS Naturals, Sequences, FiniteSets

CONSTANTS
    Sender,        \* calls of sendWebhookRequests
    Alert,
    AlertsOf,      \* sender -> its alerts
    Webhook,       \* rows the table may get
    Past,          \* the run that webhooks have at first
    MaxRetries,    \* maxRetries, 3 for every webhook
    MaxRuns,       \* runs kept, 10
    MaxEdits,      \* model bound: operations of users
    FilterChoices, \* what users may ask for: sets of alerts
    NoHook         \* no webhook

Run == [alert : Alert, ok : BOOLEAN]

ASSUME PastAssumption == Past \in Run /\ ~Past.ok
ASSUME FiltersAssumption == FilterChoices \subseteq SUBSET Alert
ASSUME NoHookAssumption == NoHook \notin Webhook
\* An analysis creates the alerts that it sends, after those of earlier runs.
ASSUME AlertAssumption ==
    /\ AlertsOf \in [Sender -> Seq(Alert)]
    /\ \A s, t \in Sender :
         \A i \in 1..Len(AlertsOf[s]), j \in 1..Len(AlertsOf[t]) :
            AlertsOf[s][i] = AlertsOf[t][j] => s = t /\ i = j
    /\ \A s \in Sender : \A i \in 1..Len(AlertsOf[s]) : AlertsOf[s][i] # Past.alert
ASSUME BoundAssumption == /\ MaxRetries \in Nat /\ MaxEdits \in Nat
                          /\ MaxRuns \in Nat \ {0}

VARIABLES
    rows,     \* the webhooks that exist
    filter,   \* webhook -> the alerts it asks for
    runs,     \* webhook -> its runs
    pc,       \* sender -> where it is
    no,       \* sender -> which of its alerts it is at
    todo,     \* sender -> webhooks read for the alert and not yet posted to
    snap,     \* sender -> runs of the webhooks when they were read
    hook,     \* sender -> the webhook it posts to
    attempt,  \* sender -> number of the attempt
    edits,    \* history: number of operations of users
    accepted, \* history: pairs of an alert and a webhook that accepted it
    written,  \* history: webhook -> the runs that were written, in order
    chosen,   \* history: sender -> pairs of an alert and a webhook read for it
    tried,    \* history: sender -> pairs it posted
    failed    \* history: sender -> the database failed it

senderVars == <<pc, no, todo, snap, hook, attempt>>
tableVars  == <<rows, filter, runs>>
history    == <<accepted, written, chosen, tried, failed>>
webhookVars == <<rows, filter, runs, pc, no, todo, snap, hook, attempt, edits,
                 accepted, written, chosen, tried, failed>>

NoSnap == [runs |-> <<>>, seen |-> 0]
PC  == {"read", "next", "post", "record", "recordBad", "done"}

WebhooksTypeOK ==
    /\ rows \subseteq Webhook
    /\ filter \in [Webhook -> SUBSET Alert]
    /\ runs \in [Webhook -> Seq(Run)]
    /\ pc \in [Sender -> PC]
    /\ no \in [Sender -> Nat \ {0}]
    /\ todo \in [Sender -> SUBSET Webhook]
    /\ snap \in [Sender -> [Webhook -> [runs : Seq(Run), seen : Nat]]]
    /\ hook \in [Sender -> Webhook \cup {NoHook}]
    /\ attempt \in [Sender -> 1..(MaxRetries + 1)]
    /\ edits \in 0..MaxEdits
    /\ accepted \subseteq Alert \X Webhook
    /\ chosen \in [Sender -> SUBSET (Alert \X Webhook)]
    /\ tried \in [Sender -> SUBSET (Alert \X Webhook)]
    /\ failed \in [Sender -> BOOLEAN]
    /\ \A w \in Webhook : Len(runs[w]) <= MaxRuns
    /\ \A s \in Sender : pc[s] \in {"read", "next", "post", "record", "recordBad"}
                            => no[s] <= Len(AlertsOf[s])

WebhooksInit ==
    /\ rows \in SUBSET Webhook
    /\ filter = [w \in Webhook |-> {}]
    /\ runs = [w \in Webhook |-> IF w \in rows THEN <<Past>> ELSE <<>>]
    /\ pc = [s \in Sender |-> IF AlertsOf[s] = <<>> THEN "done" ELSE "read"]
    /\ no = [s \in Sender |-> 1]
    /\ todo = [s \in Sender |-> {}]
    /\ snap = [s \in Sender |-> [w \in Webhook |-> NoSnap]]
    /\ hook = [s \in Sender |-> NoHook]
    /\ attempt = [s \in Sender |-> 1]
    /\ edits = 0
    /\ accepted = {}
    /\ written = [w \in Webhook |-> IF w \in rows THEN <<[run |-> Past, seen |-> 0]>>
                                     ELSE <<>>]
    /\ chosen = [s \in Sender |-> {}]
    /\ tried = [s \in Sender |-> {}]
    /\ failed = [s \in Sender |-> FALSE]

(***************************************************************************)
(* Sending                                                                 *)
(***************************************************************************)

Goto(s, label) == pc' = [pc EXCEPT ![s] = label]
Current(s) == AlertsOf[s][no[s]]

\* The webhooks that exist and whose filter lets the alert through.
Matching(a) == {w \in rows : filter[w] = {} \/ a \in filter[w]}

ReadWebhooks(s) ==
    /\ pc[s] = "read"
    /\ todo' = [todo EXCEPT ![s] = Matching(Current(s))]
    /\ snap' = [snap EXCEPT ![s] = [w \in Webhook |->
                  IF w \in Matching(Current(s))
                  THEN [runs |-> runs[w], seen |-> Len(written[w])]
                  ELSE NoSnap]]
    /\ chosen' = [chosen EXCEPT ![s] = @ \cup ({Current(s)} \X Matching(Current(s)))]
    /\ Goto(s, "next")
    /\ UNCHANGED <<tableVars, no, hook, attempt, edits, accepted, written,
                   tried, failed>>

\* The order of the rows is that of the database: any.
NextWebhook(s) ==
    /\ pc[s] = "next"
    /\ \E w \in todo[s] :
        /\ hook' = [hook EXCEPT ![s] = w]
        /\ todo' = [todo EXCEPT ![s] = @ \ {w}]
    /\ Goto(s, "post")
    /\ UNCHANGED <<tableVars, no, snap, attempt, edits, history>>

NextAlert(s) ==
    /\ pc[s] = "next" /\ todo[s] = {}
    /\ IF no[s] < Len(AlertsOf[s])
       THEN no' = [no EXCEPT ![s] = @ + 1] /\ Goto(s, "read")
       ELSE UNCHANGED no /\ Goto(s, "done")
    /\ snap' = [snap EXCEPT ![s] = [w \in Webhook |-> NoSnap]]
    /\ UNCHANGED <<tableVars, todo, hook, attempt, edits, history>>

Pair(s) == <<Current(s), hook[s]>>
Try(s) == tried' = [tried EXCEPT ![s] = @ \cup {Pair(s)}]

PostAccepted(s) ==
    /\ pc[s] = "post"
    /\ accepted' = accepted \cup {Pair(s)}
    /\ Try(s)
    /\ Goto(s, "record")
    /\ UNCHANGED <<tableVars, no, todo, snap, hook, attempt, edits, written,
                   chosen, failed>>

AttemptsLeft(s) == attempt[s] <= MaxRetries

\* Mutant: the delay does not resolve its promise.
PostRetriesHangs(s) ==
    /\ pc[s] = "post" /\ AttemptsLeft(s)
    /\ Try(s)
    /\ Goto(s, "waiting")
    /\ UNCHANGED <<tableVars, no, todo, snap, hook, attempt, edits, accepted,
                   written, chosen, failed>>

\* Answered with a status of 500 or more: tried again after half a second.
PostRetries(s) ==
    /\ pc[s] = "post" /\ AttemptsLeft(s)
    /\ Try(s)
    /\ attempt' = [attempt EXCEPT ![s] = @ + 1]
    /\ UNCHANGED <<tableVars, pc, no, todo, snap, hook, edits, accepted, written,
                   chosen, failed>>

\* No answer within 250 ms, whether the request arrived or not, another status,
\* or no attempt left.
PostFails(s) ==
    /\ pc[s] = "post"
    /\ Try(s)
    /\ Goto(s, "recordBad")
    /\ UNCHANGED <<tableVars, no, todo, snap, hook, attempt, edits, accepted,
                   written, chosen, failed>>

\* The oldest run is dropped when there are as many as are kept.
Kept(r) == IF Len(r) >= MaxRuns THEN Tail(r) ELSE r

\* Mutant: the run is appended twice.
WriteTwice(s, ok) ==
    LET w == hook[s]
        r == [alert |-> Current(s), ok |-> ok]
    IN  IF w \in rows
        THEN /\ runs' = [runs EXCEPT ![w] = Append(Append(Kept(Kept(snap[s][w].runs)), r), r)]
             /\ written' = [written EXCEPT ![w] = Append(@,
                             [run |-> r, seen |-> snap[s][w].seen])]
        ELSE UNCHANGED <<runs, written>>

\* Mutant: the other runs are forgotten.
WriteAlone(s, ok) ==
    LET w == hook[s]
        r == [alert |-> Current(s), ok |-> ok]
    IN  IF w \in rows
        THEN /\ runs' = [runs EXCEPT ![w] = <<r>>]
             /\ written' = [written EXCEPT ![w] = Append(@,
                             [run |-> r, seen |-> snap[s][w].seen])]
        ELSE UNCHANGED <<runs, written>>

\* The runs that were read, and the new one, replace what is in the row; there
\* is no error when the row is gone.
WriteRun(s, ok) ==
    LET w == hook[s]
        r == [alert |-> Current(s), ok |-> ok]
    IN  IF w \in rows
        THEN /\ runs' = [runs EXCEPT ![w] = Append(Kept(snap[s][w].runs), r)]
             /\ written' = [written EXCEPT ![w] = Append(@,
                             [run |-> r, seen |-> snap[s][w].seen])]
        ELSE UNCHANGED <<runs, written>>

\* The loop goes on, with attempts counted from 1 again.
NextRound(s) ==
    /\ Goto(s, "next")
    /\ hook' = [hook EXCEPT ![s] = NoHook]
    /\ attempt' = [attempt EXCEPT ![s] = 1]

\* The update is inside the try block: if it fails, a run that went well is
\* recorded as one that failed.
RecordGood(s) ==
    /\ pc[s] = "record"
    /\ \/ WriteRun(s, TRUE) /\ NextRound(s)
       \/ Goto(s, "recordBad") /\ UNCHANGED <<runs, written, hook, attempt>>
    /\ UNCHANGED <<rows, filter, no, todo, snap, edits, accepted, chosen, tried,
                   failed>>

\* Mutant: an error ends the call.
RecordBadStops(s) ==
    /\ pc[s] = "recordBad"
    /\ WriteRun(s, FALSE) /\ Goto(s, "done")
    /\ UNCHANGED <<rows, filter, no, todo, snap, hook, attempt, edits, accepted,
                   chosen, tried, failed>>

RecordBad(s) ==
    /\ pc[s] = "recordBad"
    /\ WriteRun(s, FALSE) /\ NextRound(s)
    /\ UNCHANGED <<rows, filter, no, todo, snap, edits, accepted, chosen, tried,
                   failed>>

\* A query fails outside the inner try block: the call ends in silence, the
\* rest is not sent.
DatabaseFails(s) ==
    /\ pc[s] \in {"read", "recordBad"}
    /\ failed' = [failed EXCEPT ![s] = TRUE]
    /\ Goto(s, "done")
    /\ UNCHANGED <<tableVars, no, todo, snap, hook, attempt, edits, accepted,
                   written, chosen, tried>>

(***************************************************************************)
(* Users                                                                   *)
(***************************************************************************)

Edit == edits < MaxEdits /\ edits' = edits + 1

\* A row that was deleted does not come back: uuids are fresh.
CreateWebhook(w) ==
    /\ Edit /\ w \notin rows /\ written[w] = <<>>
    /\ \A s \in Sender, a \in Alert : <<a, w>> \notin chosen[s]
    /\ rows' = rows \cup {w}
    /\ \E f \in FilterChoices : filter' = [filter EXCEPT ![w] = f]
    /\ UNCHANGED <<runs, senderVars, history>>

UpdateWebhook(w) ==
    /\ Edit /\ w \in rows
    /\ \E f \in FilterChoices : filter' = [filter EXCEPT ![w] = f]
    /\ UNCHANGED <<rows, runs, senderVars, history>>

DeleteWebhook(w) ==
    /\ Edit /\ w \in rows
    /\ rows' = rows \ {w}
    /\ runs' = [runs EXCEPT ![w] = <<>>]
    /\ UNCHANGED <<filter, senderVars, history>>

(***************************************************************************)
(* Specification                                                           *)
(***************************************************************************)

SenderStep(s) == \/ ReadWebhooks(s) \/ NextWebhook(s) \/ NextAlert(s)
                 \/ PostAccepted(s) \/ PostRetries(s) \/ PostFails(s)
                 \/ RecordGood(s) \/ RecordBad(s) \/ DatabaseFails(s)

WebhooksNext ==
    \/ \E s \in Sender : SenderStep(s)
    \/ \E w \in Webhook : CreateWebhook(w) \/ UpdateWebhook(w) \/ DeleteWebhook(w)

WebhooksSpec == WebhooksInit /\ [][WebhooksNext]_webhookVars

\* Requests are answered or time out, and queries return or fail.
WebhooksFairSpec ==
    WebhooksSpec /\ \A s \in Sender : WF_webhookVars(SenderStep(s))

(***************************************************************************)
(* Properties                                                              *)
(***************************************************************************)

\* The runs tell the truth: one that is shown as ok arrived, and no alert is
\* shown twice, even when the first record of it failed.
RunsAreTrue ==
    \A w \in Webhook : \A i, j \in 1..Len(runs[w]) :
        /\ runs[w][i].ok => <<runs[w][i].alert, w>> \in accepted
        /\ runs[w][i].alert = runs[w][j].alert => i = j

Shown(w, r) == \E i \in 1..Len(runs[w]) : runs[w][i] = r

\* A run is lost from the list of a webhook only if it was pushed out by as
\* many as are kept, or if another sender had read the list before it was
\* written and wrote its own run after it.
LostOnlyByOverlap ==
    \A w \in rows : \A i \in 1..Len(written[w]) :
        \/ Shown(w, written[w][i].run)
        \/ Len(written[w]) - i >= MaxRuns
        \/ \E j \in 1..Len(written[w]) : j > i /\ written[w][j].seen < i

\* One webhook that fails does not keep the others from getting the alert, nor
\* the later alerts from being sent.
NoneLeftOut ==
    \A s \in Sender : pc[s] = "done" /\ ~failed[s] =>
        /\ tried[s] = chosen[s]
        /\ no[s] >= Len(AlertsOf[s])

\* Every call comes to an end, so that the analyzer goes on with its queue.
SendersEnd == \A s \in Sender : <>(pc[s] = "done")
=============================================================================
