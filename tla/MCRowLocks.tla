------------------------------ MODULE MCRowLocks ------------------------------
(* A small instance of RowLocks for TLC. *)
EXTENDS RowLocks, TLC

CONSTANTS d1, d2, i1, i2

\* Event 2 is delivered twice, the other two have been tried once; two events are of the first item.
ThreeEvents == 1 :> i1 @@ 2 :> i1 @@ 3 :> i2
TriedOnce == 1 :> 1 @@ 3 :> 1
SameEvent == d1 :> 2 @@ d2 :> 2
=============================================================================
