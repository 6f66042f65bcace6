---------------------------- MODULE MCWorkerLease ----------------------------
(* Small instances of WorkerLease for TLC. *)
EXTENDS WorkerLease, TLC

\* Workers are interchangeable.
LeaseSymmetry == Permutations(Workers)
=============================================================================
