---------------------------- MODULE MCPublication ----------------------------
(* Small instances of Publication for TLC. *)
EXTENDS Publication, TLC

\* Attempts are interchangeable.
PublicationSymmetry == Permutations(Attempts)
=============================================================================
