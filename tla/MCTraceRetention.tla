-------------------------- MODULE MCTraceRetention --------------------------
(***************************************************************************)
(* A small instance of TraceRetention.                                     *)
(***************************************************************************)
EXTENDS TraceRetention, TLC

CONSTANTS t1, t2, t3, k1, k2

ThreeTraces == (t1 :> 0) @@ (t2 :> 1) @@ (t3 :> 1)
TwoKeys     == (t1 :> k1) @@ (t2 :> k2) @@ (t3 :> k1)
Symmetry == Permutations(Job)
=============================================================================
