--------------------------- MODULE TraceDelivery ---------------------------
(***************************************************************************)
(* What Metlo promises for a reported API call: it is stored at most once. *)
(* It may be given up on the way, and it may be removed with its endpoint, *)
(* but then it never comes back; and it does not stay on the way forever.  *)
(***************************************************************************)
CONSTANTS Trace   \* the API calls that agents report

VARIABLES status  \* trace -> how far it came

Status == {"unsent", "pending", "stored", "gone"}

Init == status = [t \in Trace |-> "unsent"]

Move(T, from, to) ==
    /\ \A t \in T : status[t] = from
    /\ status' = [t \in Trace |-> IF t \in T THEN to ELSE status[t]]

Send(T)   == Move(T, "unsent", "pending")
Store(t)  == Move({t}, "pending", "stored")
GiveUp(T) == Move(T, "pending", "gone")
Remove(T) == Move(T, "stored", "gone")

Next == \/ \E t \in Trace : Store(t)
        \/ \E T \in SUBSET Trace : Send(T) \/ GiveUp(T) \/ Remove(T)

Spec == Init /\ [][Next]_status

Settle(t) == Store(t) \/ \E T \in SUBSET Trace : t \in T /\ GiveUp(T)

FairSpec == Spec /\ \A t \in Trace : WF_status(Settle(t))
=============================================================================
