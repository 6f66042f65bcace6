---------------------------- MODULE MCSharedServices ----------------------------
(* Small instances of SharedServices for TLC. *)
EXTENDS SharedServices, TLC

\* Workers are interchangeable.
SharedSymmetry == Permutations(Workers)
=============================================================================
