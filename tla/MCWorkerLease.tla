--------------------------- MODULE MCWorkerLease ---------------------------
(* WorkerLease on a small instance. *)
EXTENDS WorkerLease, TLC

Symmetric == Permutations(Runs)
=============================================================================
