----------------------------- MODULE MCPoolGrids -----------------------------
(***************************************************************************)
(* Instances of PoolGrids for TLC.                                         *)
(***************************************************************************)
EXTENDS PoolGrids, TLC

CONSTANTS g1, g2, g3, g4, r1, r2, r3

MCTwoGrids == {g1, g2}
MCThreeGrids == {g1, g2, g3}
MCFourGrids == {g1, g2, g3, g4}

MCSlots == {r1, r2}
MCThreeSlots == {r1, r2, r3}

MCAllKinds == Kinds
MCNoCopies == {"create", "delete"}
MCCopies == {"create", "delete", "edit"}
MCDraws == {"draw", "edit"}

\* Ids are opaque and slots are alike.
MCSymmetry == Permutations(GridIds) \cup Permutations(Requests)
=============================================================================
