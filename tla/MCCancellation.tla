---------------------------- MODULE MCCancellation ----------------------------
(***************************************************************************)
(* A tracking issue, its child and its grandchild, and two runs of the     *)
(* last; or one run with two requests, as when a candidate is emitted      *)
(* again while its first dispatch is in flight.                            *)
(***************************************************************************)
EXTENDS Cancellation, TLC

CONSTANTS top, mid, leaf, r1, r2

Chain == {<<top, mid>>, <<mid, leaf>>}
LeafRuns == r1 :> leaf @@ r2 :> leaf
TwoDispatches == {1, 2}
Apart == 1 :> r1 @@ 2 :> r2
Together == 1 :> r1 @@ 2 :> r1

\* Both requests carry the parent of their item.
Siblings == 1 :> mid @@ 2 :> mid
=============================================================================
