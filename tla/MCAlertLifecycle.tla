-------------------------- MODULE MCAlertLifecycle --------------------------
(***************************************************************************)
(* A small instance of AlertLifecycle.                                     *)
(***************************************************************************)
EXTENDS AlertLifecycle, TLC

CONSTANTS d1, d2, d3, s1, s2

TwoSubjects == (d1 :> s1) @@ (d2 :> s1) @@ (d3 :> s2)
Symmetry == Permutations(Request)
=============================================================================
