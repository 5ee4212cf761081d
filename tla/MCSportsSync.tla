----------------------------- MODULE MCSportsSync -----------------------------
(***************************************************************************)
(* Instances of SportsSync for TLC: a league of quarters and the one that  *)
(* is played in halves, asked about before, within and after a period.     *)
(***************************************************************************)
EXTENDS SportsSync

\* Quarters: before, within the second and over.  Halves: before and over.
MCMoments == [nba |-> {0, 3, 11}, ncaab |-> {0, 7}]

Straight == [i \in Positions |-> i]
Turned == [i \in Positions |-> (3 * i + 4) % 10]

MCNumbers == {[home |-> Straight, away |-> Turned]}
=============================================================================
