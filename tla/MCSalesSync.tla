----------------------------- MODULE MCSalesSync -----------------------------
(* Small instances of SalesSync for TLC. *)
EXTENDS SalesSync, TLC

\* Workers and webhooks are interchangeable.
SyncSymmetry == Permutations(Workers) \union Permutations(Events)
=============================================================================
