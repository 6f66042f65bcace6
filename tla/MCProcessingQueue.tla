-------------------------- MODULE MCProcessingQueue --------------------------
(* Small instances of ProcessingQueue for TLC. *)
EXTENDS ProcessingQueue, TLC

\* Items, workers, revisions and pipeline versions are interchangeable.
Symmetry == Permutations(Items) \union Permutations(Workers)
            \union Permutations(Revisions) \union Permutations(Versions)
=============================================================================
