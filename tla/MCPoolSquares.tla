---------------------------- MODULE MCPoolSquares ----------------------------
(***************************************************************************)
(* Instances of PoolSquares for TLC.                                       *)
(***************************************************************************)
EXTENDS PoolSquares, TLC

CONSTANTS alice, bob, boss, r1, r2, r3

MCPlayers == {alice, bob, boss}
MCPair == {alice, boss}
MCRivals == {alice, bob}
MCManagers == {boss}

MCSlots == {r1, r2}
MCThree == {r1, r2, r3}
MCOne == {r1}

MCBulkOne == {<<1>>}
MCBulkTwo == {<<1, 2>>, <<2, 1>>}

MCAllKinds == Kinds
MCSquareKinds == Kinds \ {"lock"}
MCSingleKinds == Kinds \ {"lock", "bulk"}
MCNobodyUnclaims == {"claim", "rename"}
MCLocking == {"claim", "lock"}

MCPayments == {"unclaimed", "paid-full"}

\* Requests that may all be reused are interchangeable.
MCSlotSymmetry == Permutations(MCSlots)
=============================================================================
