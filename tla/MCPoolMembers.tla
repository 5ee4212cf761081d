---------------------------- MODULE MCPoolMembers ----------------------------
(***************************************************************************)
(* PoolMembers for TLC: a guest and a site administrator with an account,  *)
(* two requests of the owner, two invites.                                 *)
(***************************************************************************)
EXTENDS PoolMembers, TLC

Symmetry == Permutations(Tokens)
=============================================================================
