---------------------------- MODULE WinningSquares ----------------------------
(***************************************************************************)
(* Who wins: the periods of a payout configuration, when a period of a game *)
(* is complete, the score it is decided by, and the square that score falls *)
(* on.  Pure operators; scores are those of one team unless both are named. *)
(***************************************************************************)
EXTENDS Integers

CONSTANT None   \* a NULL column, numbers that are not drawn

SetTypes == {"all", "q1", "q2", "q3", "q4", "half", "final"}

\* standard, 123f and hf; any other configuration has no set types.
GetSetTypes(config) ==
  CASE config = "standard" -> {"all"}
    [] config = "123f" -> {"q1", "q2", "q3", "final"}
    [] config = "hf" -> {"half", "final"}
    [] OTHER -> {}

UsesHalves(league) == league = "ncaab"

IsValidNumberSetConfigForLeague(config, league) ==
  GetSetTypes(config) # {} /\ ~(league = "ncaab" /\ config = "123f")

-----------------------------------------------------------------------------
\* Mutant: the second quarter counts as complete once it has begun.
IsPeriodCompleteEarly(e, setType) ==
  LET after(k) == e.period > k \/ (e.period = k /\ e.detail = "end of")
  IN  \/ e.status = "final"
      \/ setType = "q1" /\ after(1)
      \/ setType \in {"q2", "half"} /\ (e.period >= 2 \/ e.detail = "halftime")
      \/ setType = "q3" /\ after(3)

\* An event without a period counts as period 0.
IsPeriodComplete(e, setType) ==
  LET after(k) == e.period > k \/ (e.period = k /\ e.detail = "end of")
      half == IF UsesHalves(e.league) THEN 1 ELSE 2
  IN  \/ e.status = "final"
      \/ setType = "q1" /\ after(1)
      \/ setType \in {"q2", "half"} /\ (after(half) \/ e.detail = "halftime")
      \/ setType = "q3" /\ after(3)

\* Through the first k periods, where all of them are known.
Cumulative(lines, k) ==
  IF \E i \in 1..k : lines[i] = None THEN None
  ELSE CASE k = 1 -> lines[1]
         [] k = 2 -> lines[1] + lines[2]
         [] k = 3 -> lines[1] + lines[2] + lines[3]

\* One team's score for a set type.
ScoreForPeriod(e, setType) ==
  CASE setType = "q1" -> e.lines[1]
    [] setType = "half" -> Cumulative(e.lines, IF UsesHalves(e.league) THEN 1 ELSE 2)
    [] setType = "q2" -> Cumulative(e.lines, 2)
    [] setType = "q3" -> Cumulative(e.lines, 3)
    [] setType \in {"q4", "final", "all"} -> e.score

-----------------------------------------------------------------------------
\* The two lines of numbers: positions 0..9 hold digits.
Positions == 0..9
Digits == 0..9

Lines == {n \in [Positions -> Digits] : \A i, j \in Positions : n[i] = n[j] => i = j}

GridTypes == {"std25", "std50", "std100", "roll100"}

\* How many positions of the home and of the away line a square covers.
Wide(gridType) == IF gridType \in {"std25", "std50"} THEN 2 ELSE 1
High(gridType) == IF gridType = "std25" THEN 2 ELSE 1

PerRow(gridType) == IF gridType \in {"std25", "std50"} THEN 5 ELSE 10
Rows(gridType) == IF gridType = "std25" THEN 5 ELSE 10

\* Mutant: a 50-square board read with home and away swapped.
SquareAtSwapped(homePos, awayPos, gridType) ==
  CASE gridType = "std25" -> (awayPos \div 2) * 5 + homePos \div 2 + 1
    [] gridType = "std50" -> homePos * 5 + awayPos \div 2 + 1
    [] OTHER -> awayPos * 10 + homePos + 1

SquareAt(homePos, awayPos, gridType) ==
  CASE gridType = "std25" -> (awayPos \div 2) * 5 + homePos \div 2 + 1
    [] gridType = "std50" -> awayPos * 5 + homePos \div 2 + 1
    [] OTHER -> awayPos * 10 + homePos + 1

Holds(numbers, digit) == \E i \in Positions : numbers[i] = digit

PositionOf(numbers, digit) ==
  CHOOSE i \in Positions : numbers[i] = digit /\ \A j \in 0..(i - 1) : numbers[j] # digit

\* 0: there is none.
CalculateWinningSquare(homeScore, awayScore, homeNumbers, awayNumbers, gridType) ==
  IF \/ homeNumbers = None \/ awayNumbers = None
     \/ ~Holds(homeNumbers, homeScore % 10) \/ ~Holds(awayNumbers, awayScore % 10)
  THEN 0
  ELSE SquareAt(PositionOf(homeNumbers, homeScore % 10),
                PositionOf(awayNumbers, awayScore % 10), gridType)

\* The numbers a set type is played with: those of its set, where it has been
\* drawn, else the ones of the grid.
NumbersFor(config, setType, gridNumbers, numberSets) ==
  IF config = "standard" \/ numberSets[setType] = None
  THEN gridNumbers ELSE numberSets[setType]

\* For each completed period with a score on both sides, its square.  home and
\* away are the event as either team sees it; numbers are pairs of lines.
GetWinningSquares(home, away, config, gridType, gridNumbers, numberSets) ==
  LET square(t) ==
        LET numbers == NumbersFor(config, t, gridNumbers, numberSets)
        IN  CalculateWinningSquare(ScoreForPeriod(home, t), ScoreForPeriod(away, t),
                                   numbers.home, numbers.away, gridType)
      decided == {t \in GetSetTypes(config) :
                    /\ IsPeriodComplete(home, t)
                    /\ ScoreForPeriod(home, t) # None /\ ScoreForPeriod(away, t) # None}
  IN  [t \in {t \in decided : square(t) # 0} |-> square(t)]

-----------------------------------------------------------------------------
\* The board the players see: squares are numbered row by row, and each covers
\* a block of positions.  This is the reference the calculation is held to.
Column(square, gridType) == (square - 1) % PerRow(gridType)
Row(square, gridType) == (square - 1) \div PerRow(gridType)

Covers(square, gridType, homePos, awayPos) ==
  /\ homePos \div Wide(gridType) = Column(square, gridType)
  /\ awayPos \div High(gridType) = Row(square, gridType)

Board(gridType) == 1..(PerRow(gridType) * Rows(gridType))
=============================================================================
