---------------------------- MODULE MCLiveUpdates ----------------------------
(***************************************************************************)
(* Instances of LiveUpdates for TLC.                                       *)
(***************************************************************************)
EXTENDS LiveUpdates

CONSTANTS s1, s2, h1, h2, p1, p2, k1, k2

MCTwoStreams == {s1, s2}
MCHandlers == {h1}
MCPool == {p1}
MCTwoPools == {p1, p2}
MCKids == {k1}
=============================================================================
