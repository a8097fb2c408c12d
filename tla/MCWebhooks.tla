----------------------------- MODULE MCWebhooks -----------------------------
(***************************************************************************)
(* A small instance of Webhooks.                                           *)
(***************************************************************************)
EXTENDS Webhooks, TLC

CONSTANTS s1, s2, a0, a1, a2

OneEach == (s1 :> <<a1>>) @@ (s2 :> <<a2>>)
AllOrFirst == {{}, {a1}}
FailedBefore == [alert |-> a0, ok |-> FALSE]
=============================================================================
