---------------------------- MODULE MCWorkerPool ----------------------------
(***************************************************************************)
(* Small instances of WorkerPool.                                          *)
(***************************************************************************)
EXTENDS WorkerPool, TLC

Symmetry == Permutations(Task) \cup Permutations(Worker)
=============================================================================
