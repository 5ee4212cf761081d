-------------------------- MODULE SportsSyncProofs --------------------------
(***************************************************************************)
(* Proofs about WinningSquares, for all numbers, scores and boards, and    *)
(* about SportsSync, for any leagues, moments at which somebody asks,      *)
(* number of overtimes and number of failures.                             *)
(***************************************************************************)
EXTENDS SportsSync, FiniteSetTheorems, TLAPS

-----------------------------------------------------------------------------
\* The board.

\* Squares are numbered row by row.
LEMMA RowAndColumn ==
  ASSUME NEW r \in Nat, NEW c \in Nat
  PROVE  /\ c \in 0..4 => (r * 5 + c) % 5 = c /\ (r * 5 + c) \div 5 = r
         /\ c \in 0..9 => (r * 10 + c) % 10 = c /\ (r * 10 + c) \div 10 = r
OBVIOUS

LEMMA SquareOf5 ==
  ASSUME NEW n \in Nat, NEW r \in Nat, NEW c \in Nat, c = n % 5, r = n \div 5
  PROVE  n = r * 5 + c
OBVIOUS

LEMMA SquareOf10 ==
  ASSUME NEW n \in Nat, NEW r \in Nat, NEW c \in Nat, c = n % 10, r = n \div 10
  PROVE  n = r * 10 + c
OBVIOUS

LEMMA Blocks ==
  /\ \A i \in Positions : i \div 2 \in 0..4 /\ i \div 1 = i
  /\ Positions = 0..9
BY DEF Positions

\* Each pair of positions is covered by one square of the board.
LEMMA SquareAtCovers ==
  ASSUME NEW h \in Positions, NEW a \in Positions, NEW g \in GridTypes
  PROVE  /\ SquareAt(h, a, g) \in Board(g)
         /\ Covers(SquareAt(h, a, g), g, h, a)
         /\ \A square \in Board(g) : Covers(square, g, h, a) => square = SquareAt(h, a, g)
<1>. DEFINE c == h \div Wide(g)
            r == a \div High(g)
            n == PerRow(g)
<1>1. /\ g = "std25" => n = 5 /\ Rows(g) = 5 /\ c \in 0..4 /\ r \in 0..4
      /\ g = "std50" => n = 5 /\ Rows(g) = 10 /\ c \in 0..4 /\ r \in 0..9
      /\ g \in {"std100", "roll100"} => n = 10 /\ Rows(g) = 10 /\ c \in 0..9 /\ r \in 0..9
  BY Blocks DEF PerRow, Rows, Wide, High
<1>2. SquareAt(h, a, g) = r * n + c + 1
  BY Blocks DEF SquareAt, PerRow, Wide, High, GridTypes
<1>3. Board(g) = 1..(n * Rows(g))
  BY DEF Board
<1>4. \A square : Covers(square, g, h, a) <=> c = (square - 1) % n /\ r = (square - 1) \div n
  BY DEF Covers, Column, Row
<1>. HIDE DEF c, r, n
<1>5. CASE n = 5
  <2>1. c \in 0..4 /\ r \in 0..9 /\ r * n + c + 1 \in Board(g)
    BY <1>1, <1>3, <1>5 DEF GridTypes
  <2>2. (r * 5 + c + 1) - 1 = r * 5 + c
    BY <2>1
  <2>3. Covers(r * 5 + c + 1, g, h, a)
    <3>1. c = ((r * 5 + c + 1) - 1) % 5 /\ r = ((r * 5 + c + 1) - 1) \div 5
      BY <2>1, <2>2, RowAndColumn
    <3>. QED
      BY <1>4, <1>5, <3>1
  <2>4. ASSUME NEW square \in Board(g), Covers(square, g, h, a)
        PROVE  square = r * 5 + c + 1
    <3>1. square - 1 \in Nat
      BY <1>1, <1>3 DEF GridTypes
    <3>2. c = (square - 1) % 5 /\ r = (square - 1) \div 5
      BY <1>4, <1>5, <2>4
    <3>3. square - 1 = r * 5 + c
      BY <2>1, <3>1, <3>2, SquareOf5
    <3>. QED
      BY <1>1, <1>3, <2>1, <3>3 DEF GridTypes
  <2>. QED
    BY <1>2, <1>5, <2>1, <2>3, <2>4
<1>6. CASE n = 10
  <2>0. Rows(g) = 10 /\ c \in 0..9 /\ r \in 0..9
    BY <1>1, <1>6 DEF GridTypes
  <2>1. c \in 0..9 /\ r \in 0..9 /\ r * n + c + 1 \in Board(g)
    <3>1. r * 10 + c + 1 \in 1..100
      BY <2>0
    <3>. QED
      BY <1>3, <1>6, <2>0, <3>1
  <2>2. (r * 10 + c + 1) - 1 = r * 10 + c
    BY <2>1
  <2>3. Covers(r * 10 + c + 1, g, h, a)
    <3>1. c = ((r * 10 + c + 1) - 1) % 10 /\ r = ((r * 10 + c + 1) - 1) \div 10
      BY <2>1, <2>2, RowAndColumn
    <3>. QED
      BY <1>4, <1>6, <3>1
  <2>4. ASSUME NEW square \in Board(g), Covers(square, g, h, a)
        PROVE  square = r * 10 + c + 1
    <3>1. square - 1 \in Nat
      BY <1>1, <1>3 DEF GridTypes
    <3>2. c = (square - 1) % 10 /\ r = (square - 1) \div 10
      BY <1>4, <1>6, <2>4
    <3>3. square - 1 = r * 10 + c
      BY <2>1, <3>1, <3>2, SquareOf10
    <3>. QED
      BY <1>1, <1>3, <2>1, <3>3 DEF GridTypes
  <2>. QED
    BY <1>2, <1>6, <2>1, <2>3, <2>4
<1>. QED
  BY <1>1, <1>5, <1>6 DEF GridTypes

LEMMA TenOfThem == IsFiniteSet(0..9) /\ Cardinality(0..9) = 10
<1>1. 0 \in Int /\ 9 \in Int /\ ~(0 > 9) /\ 9 - 0 + 1 = 10
  OBVIOUS
<1>2. IsFiniteSet(0..9) /\ Cardinality(0..9) = IF 0 > 9 THEN 0 ELSE 9 - 0 + 1
  BY <1>1, FS_Interval
<1>. QED
  BY <1>1, <1>2

\* A drawn line holds each digit, at the position that is looked up.
LEMMA LinesHold ==
  ASSUME NEW n \in Lines, NEW d \in Digits
  PROVE  /\ Holds(n, d)
         /\ PositionOf(n, d) \in Positions /\ n[PositionOf(n, d)] = d
<1>1. Holds(n, d)
  <2>. SUFFICES ASSUME ~Holds(n, d) PROVE FALSE
    OBVIOUS
  <2>1. n \in [Positions -> Digits \ {d}]
    BY DEF Lines, Holds
  <2>2. IsFiniteSet(Positions) /\ Cardinality(Positions) = 10
    BY TenOfThem DEF Positions
  <2>3. IsFiniteSet(Digits) /\ Cardinality(Digits) = 10
    BY TenOfThem DEF Digits
  <2>4. IsFiniteSet(Digits \ {d}) /\ Cardinality(Digits \ {d}) = 9
    BY <2>3, FS_RemoveElement
  <2>5. \E i, j \in Positions : i # j /\ n[i] = n[j]
    BY <2>1, <2>2, <2>4, FS_PigeonHole
  <2>. QED
    BY <2>5 DEF Lines
<1>2. PICK i \in Positions : n[i] = d
  BY <1>1 DEF Holds
<1>3. \A j \in 0..(i - 1) : n[j] # d
  BY <1>2 DEF Lines, Positions
<1>. QED
  BY <1>1, <1>2, <1>3 DEF PositionOf

\* Whatever the score, the numbers and the board, one square wins, and it is
\* the one whose block of the board the last digits fall in
\* (winning_squares.go:23-66): every game has a winner, and only one.
THEOREM OneSquareWins ==
  ASSUME NEW homeNumbers \in Lines, NEW awayNumbers \in Lines,
         NEW homeScore \in Nat, NEW awayScore \in Nat, NEW g \in GridTypes,
         None \notin Lines
  PROVE  \E h, a \in Positions :
           LET won == CalculateWinningSquare(homeScore, awayScore,
                                             homeNumbers, awayNumbers, g)
           IN  /\ homeNumbers[h] = homeScore % 10 /\ awayNumbers[a] = awayScore % 10
               /\ won \in Board(g)
               /\ \A square \in Board(g) : Covers(square, g, h, a) <=> square = won
<1>. DEFINE h == PositionOf(homeNumbers, homeScore % 10)
            a == PositionOf(awayNumbers, awayScore % 10)
<1>1. homeScore % 10 \in Digits /\ awayScore % 10 \in Digits
  BY DEF Digits
<1>2. /\ Holds(homeNumbers, homeScore % 10) /\ h \in Positions
      /\ homeNumbers[h] = homeScore % 10
  BY <1>1, LinesHold
<1>3. /\ Holds(awayNumbers, awayScore % 10) /\ a \in Positions
      /\ awayNumbers[a] = awayScore % 10
  BY <1>1, LinesHold
<1>4. CalculateWinningSquare(homeScore, awayScore, homeNumbers, awayNumbers, g)
        = SquareAt(h, a, g)
  BY <1>2, <1>3 DEF CalculateWinningSquare
<1>5. /\ SquareAt(h, a, g) \in Board(g)
      /\ \A square \in Board(g) : Covers(square, g, h, a) <=> square = SquareAt(h, a, g)
  BY <1>2, <1>3, SquareAtCovers
<1>. QED
  BY <1>2, <1>3, <1>4, <1>5

-----------------------------------------------------------------------------
\* The game.

AllLeagues == {"nfl", "nba", "wnba", "ncaab", "ncaaf"}

LEMMA GameBounds ==
  ASSUME NEW lg \in AllLeagues, NEW m \in Nat, m <= Last(lg)
  PROVE  /\ Played(lg) \in Nat /\ Last(lg) \in Nat /\ Last(lg) = 2 * Played(lg) + 1
         /\ PeriodAt(lg, m) \in 0..Played(lg)
         /\ DetailAt(lg, m) \in {"other", "halftime", "end of"}
         /\ ScoreAt(lg, m) \in Nat
         /\ LinesAt(lg, m) \in [1..5 -> 0..(7 * (Overtimes + 1)) \cup {None}]
         /\ NoLines \in [1..5 -> 0..(7 * (Overtimes + 1)) \cup {None}]
<1>1. Overtimes \in Nat
  BY SyncAssumption
<1>2. Regular(lg) \in {2, 4}
  BY DEF Regular
<1>3. Played(lg) \in Nat /\ Last(lg) = 2 * Played(lg) + 1 /\ Played(lg) <= 4 + Overtimes
  BY <1>1, <1>2 DEF Played, Last
<1>4. PeriodAt(lg, m) \in 0..Played(lg)
  BY <1>3 DEF PeriodAt
<1>5. DetailAt(lg, m) \in {"other", "halftime", "end of"}
  BY DEF DetailAt
<1>6. ScoreAt(lg, m) \in Nat
  BY <1>3 DEF ScoreAt
<1>7. ASSUME NEW k \in 1..5, ~(m < 2 * k - 1 \/ k > Played(lg)), k = 5
      PROVE  ScoreAt(lg, m) - 28 \in 0..(7 * (Overtimes + 1))
  BY <1>1, <1>3, <1>7 DEF ScoreAt
<1>8. \A k \in 1..5 : PointsIn(lg, m, k) \in 0..(7 * (Overtimes + 1))
  BY <1>1 DEF PointsIn
<1>9. LinesAt(lg, m) \in [1..5 -> 0..(7 * (Overtimes + 1)) \cup {None}]
  BY <1>7, <1>8 DEF LinesAt
<1>10. NoLines \in [1..5 -> 0..(7 * (Overtimes + 1)) \cup {None}]
  BY DEF NoLines
<1>11. Last(lg) \in Nat
  BY <1>3
<1>. QED
  BY <1>3, <1>4, <1>5, <1>6, <1>9, <1>10, <1>11

LEMMA ScoresGrow ==
  ASSUME NEW lg \in AllLeagues, NEW m \in Nat, NEW n \in Nat, m <= n, n <= Last(lg)
  PROVE  ScoreAt(lg, m) <= ScoreAt(lg, n)
<1>1. Last(lg) = 2 * Played(lg) + 1 /\ Played(lg) \in Nat
  BY GameBounds
<1>2. CASE n = Last(lg)
  BY <1>1, <1>2 DEF ScoreAt
<1>3. CASE n # Last(lg)
  <2>1. m # Last(lg)
    BY <1>1, <1>3
  <2>2. 7 * (m \div 2) + 3 * (m % 2) <= 7 * (n \div 2) + 3 * (n % 2)
    OBVIOUS
  <2>. QED
    BY <1>3, <2>1, <2>2 DEF ScoreAt
<1>. QED
  BY <1>2, <1>3

\* Which answers there may be at a moment.
Tellable(e) ==
  /\ e \in EventType
  /\ e.status = "final" => Over /\ e.score = ScoreAt(league, moment)

LEMMA Told ==
  ASSUME TypeOK, NEW type \in TypesAt(league, moment)
  PROVE  /\ Tellable(ParseEvent(league, moment, type, teams))
         /\ \A e \in ParseSummaryEvents(league, moment, type, teams) : Tellable(e)
         /\ Tellable(ParseScheduleEvent(league, moment, type, teams))
<1>1. league \in AllLeagues /\ moment \in Nat /\ moment <= Last(league) /\ teams \in Teams
  BY SyncAssumption DEF TypeOK, AllLeagues
<1>2. /\ EventStatus(type) \in {"scheduled", "in_progress", "final"}
      /\ EventStatus(type) = "final" => Over
  BY DEF EventStatus, TypesAt, Over
<1>3. ASSUME NEW score \in {ScoreAt(league, moment), None},
             NEW lines \in {LinesAt(league, moment), NoLines},
             Over => score = ScoreAt(league, moment)
      PROVE  Tellable(Event(league, moment, type, score, lines, teams))
  <2>. DEFINE e == Event(league, moment, type, score, lines, teams)
  <2>0. /\ PeriodAt(league, moment) \in 0..Played(league)
        /\ DetailAt(league, moment) \in {"other", "halftime", "end of"}
        /\ score \in 0..ScoreAt(league, moment) \cup {None}
        /\ lines \in [1..5 -> 0..(7 * (Overtimes + 1)) \cup {None}]
    <3>0. ScoreAt(league, moment) \in Nat
      BY <1>1, GameBounds
    <3>1. ScoreAt(league, moment) \in 0..ScoreAt(league, moment)
      BY <3>0
    <3>2. score \in 0..ScoreAt(league, moment) \cup {None}
      BY <3>1
    <3>3. lines \in [1..5 -> 0..(7 * (Overtimes + 1)) \cup {None}]
      BY <1>1, GameBounds
    <3>. QED
      BY <1>1, <3>2, <3>3, GameBounds
  <2>1. e \in EventType
    BY <1>1, <1>2, <2>0 DEF Event, EventType
  <2>2. e.status = EventStatus(type) /\ e.score = score
    BY DEF Event
  <2>. QED
    BY <1>2, <1>3, <2>1, <2>2 DEF Tellable
<1>4. Over => moment # 0
  <2>1. Last(league) = 2 * Played(league) + 1 /\ Played(league) \in Nat
    BY <1>1, GameBounds
  <2>. QED
    BY <2>1 DEF Over
<1>. QED
  BY <1>3, <1>4 DEF ParseEvent, ParseSummaryEvents, ParseScheduleEvent

-----------------------------------------------------------------------------
\* Types and final scores.

\* What a job has been told and what is in the row may be from an earlier moment
\* of the game; but where they say how it ended, it has ended like that.
SyncInv ==
  /\ TypeOK
  /\ FinalScoreRight
  /\ \A j \in Jobs : pc[j] \in {"answered", "loaded", "notify"} => Tellable(answer[j])
  /\ linked \/ edit # None => row \in EventType

\* What was tellable stays so when the game goes on.
LEMMA StillTellable ==
  ASSUME TypeOK, Play
  PROVE  /\ EventType \subseteq EventType'
         /\ \A e : Tellable(e) => Tellable(e)'
         /\ ~Over
<1>1. PICK m \in Moments[league] :
        moment < m /\ m <= Last(league) /\ moment' = m /\ UNCHANGED league
  BY DEF Play
<1>2. league \in AllLeagues /\ moment \in Nat /\ m \in Nat /\ moment <= Last(league)
  BY <1>1, SyncAssumption DEF TypeOK, AllLeagues
<1>3. ScoreAt(league, moment) <= ScoreAt(league, m)
  BY <1>1, <1>2, ScoresGrow
<1>4. ScoreAt(league, moment) \in Nat /\ ScoreAt(league, m) \in Nat
  BY <1>1, <1>2, GameBounds
<1>5. 0..ScoreAt(league, moment) \subseteq 0..ScoreAt(league, m)
  BY <1>3, <1>4
<1>6. EventType \subseteq EventType'
  BY <1>1, <1>5 DEF EventType
<1>7. ~Over
  <2>1. Last(league) \in Nat
    BY <1>2, GameBounds
  <2>. QED
    BY <1>1, <1>2, <2>1 DEF Over
<1>. QED
  BY <1>6, <1>7 DEF Tellable

LEMMA UpsertedType ==
  ASSUME NEW old \in EventType \cup {None}, NEW e \in EventType
  PROVE  /\ Upserted(old, e) \in EventType
         /\ Upserted(old, e).status = e.status /\ Upserted(old, e).teams = e.teams
         /\ Upserted(old, e).period = e.period /\ Upserted(old, e).detail = e.detail
         /\ e.score # None => Upserted(old, e).score = e.score
<1>1. CASE old = None
  BY <1>1 DEF Upserted
<1>2. CASE old # None
  <2>. DEFINE score == Coalesce(e.score, old.score)
              lines == [k \in 1..5 |-> Coalesce(e.lines[k], old.lines[k])]
  <2>1. Upserted(old, e) = [e EXCEPT !.score = score, !.lines = lines]
    BY <1>2 DEF Upserted, EventType
  <2>2. old \in EventType
    BY <1>2
  <2>3. score \in 0..ScoreAt(league, moment) \cup {None}
    BY <2>2 DEF Coalesce, EventType
  <2>4. lines \in [1..5 -> 0..(7 * (Overtimes + 1)) \cup {None}]
    BY <2>2 DEF Coalesce, EventType
  <2>5. e.score # None => score = e.score
    BY DEF Coalesce
  <2>. HIDE DEF score, lines
  <2>. QED
    BY <2>1, <2>3, <2>4, <2>5 DEF EventType
<1>. QED
  BY <1>1, <1>2

LEMMA FinalizedType ==
  ASSUME TypeOK, NEW r \in EventType
  PROVE  Finalized(r) \in EventType /\ Finalized(r).score = None
                                    /\ Finalized(r).teams = r.teams
<1>1. league \in AllLeagues /\ moment \in Nat /\ moment <= Last(league)
  BY SyncAssumption DEF TypeOK, AllLeagues
<1>2. Played(league) \in Nat /\ NoLines \in [1..5 -> 0..(7 * (Overtimes + 1)) \cup {None}]
  BY <1>1, GameBounds
<1>3. 0 \in 0..Played(league)
  BY <1>2
<1>. QED
  BY <1>2, <1>3 DEF Finalized, EventType

LEMMA EventTypeKept ==
  ASSUME UNCHANGED <<league, moment>>
  PROVE  /\ EventType' = EventType
         /\ \A e : Tellable(e) => Tellable(e)'
         /\ Over' = Over /\ ScoreAt(league, moment)' = ScoreAt(league, moment)
BY DEF EventType, Tellable, Over

LEMMA SyncStep == SyncInv /\ [Next]_vars => SyncInv'
<1>. SUFFICES ASSUME SyncInv, [Next]_vars PROVE SyncInv'
  OBVIOUS
<1>. USE DEF SyncInv, TypeOK, FinalScoreRight, Jobs
<1>1. ASSUME UNCHANGED gameVars
      PROVE  /\ EventType' = EventType
             /\ \A e : Tellable(e) => Tellable(e)'
             /\ Over' = Over /\ ScoreAt(league, moment)' = ScoreAt(league, moment)
  BY <1>1, EventTypeKept DEF gameVars
<1>2. CASE Tick
  <2>1. UNCHANGED <<league, moment>> /\ clock' \in {"near", "day", "old"}
    BY <1>2 DEF Tick
  <2>. QED
    BY <1>2, <2>1, EventTypeKept DEF Tick, jobVars, gridVars
<1>3. CASE Play
  <2>1. moment' \in Moments[league] /\ moment' <= Last(league)
    BY <1>3 DEF Play
  <2>. QED
    BY <1>3, <2>1, StillTellable DEF Play, jobVars, gridVars
<1>4. CASE NameTeams
  BY <1>4, EventTypeKept DEF NameTeams, jobVars, gridVars, Teams
<1>5. CASE SyncTeams
  BY <1>1, <1>5 DEF SyncTeams, jobVars, gridVars, gameVars
<1>6. ASSUME NEW j \in Jobs, Job(j) PROVE SyncInv'
  <2>1. CASE FetchScoreboards
    <3>1. PICK type \in TypesAt(league, moment) :
            Answered("schedule", ParseEvent(league, moment, type, teams))
      BY <2>1 DEF FetchScoreboards
    <3>2. Tellable(ParseEvent(league, moment, type, teams))
      BY Told
    <3>. QED
      BY <1>1, <2>1, <3>1, <3>2 DEF FetchScoreboards, Answered, Goto, gridVars, gameVars, Tellable
  <2>2. CASE SyncTeamSchedules
    <3>1. PICK type \in TypesAt(league, moment) :
            Answered("schedule", ParseScheduleEvent(league, moment, type, teams))
      BY <2>2 DEF SyncTeamSchedules
    <3>2. Tellable(ParseScheduleEvent(league, moment, type, teams))
      BY Told
    <3>. QED
      BY <1>1, <2>2, <3>1, <3>2 DEF SyncTeamSchedules, Answered, Goto, gridVars, gameVars, Tellable
  <2>3. CASE FinalizeStaleEvents
    <3>1. /\ row' = row \/ (row' \in EventType /\ row'.score = None)
          /\ row \in EventType => row' \in EventType
      <4>1. CASE Stale
        <5>1. row \in EventType /\ row' = Finalized(row)
          BY <2>3, <4>1 DEF FinalizeStaleEvents, Stale
        <5>. QED
          BY <5>1, FinalizedType
      <4>2. CASE ~Stale
        BY <2>3, <4>2 DEF FinalizeStaleEvents
      <4>. QED
        BY <4>1, <4>2
    <3>. QED
      BY <1>1, <2>3, <3>1 DEF FinalizeStaleEvents, Goto, gridVars, gameVars
  <2>4. CASE EventsNeedingScoreUpdate
    BY <1>1, <2>4 DEF EventsNeedingScoreUpdate, Goto, gridVars, gameVars
  <2>5. CASE FetchScores
    <3>1. PICK e : Tellable(e) /\ Answered("scores", e)
      BY <2>5, Told DEF FetchScores
    <3>. QED
      BY <1>1, <2>5, <3>1 DEF FetchScores, Answered, Goto, gridVars, gameVars, Tellable
  <2>6. CASE LoadExisting(j)
    BY <1>1, <2>6 DEF LoadExisting, Goto, gridVars, gameVars
  <2>7. CASE UpsertSportsEvent(j)
    <3>1. Tellable(answer[j])
      BY <2>7 DEF UpsertSportsEvent
    <3>2. /\ row' \in EventType /\ row'.status = answer[j].status
          /\ answer[j].score # None => row'.score = answer[j].score
      BY <2>7, <3>1, UpsertedType DEF UpsertSportsEvent, Tellable
    <3>3. answer[j].status = "final" => Over /\ answer[j].score # None
      <4>1. ScoreAt(league, moment) # None
        <5>1. league \in AllLeagues /\ moment \in Nat /\ moment <= Last(league)
          BY SyncAssumption DEF AllLeagues
        <5>2. ScoreAt(league, moment) \in Nat
          BY <5>1, GameBounds
        <5>. QED
          BY <5>2, SyncAssumption
      <4>. QED
        BY <3>1, <4>1 DEF Tellable
    <3>4. FinalScoreRight'
      BY <1>1, <2>7, <3>1, <3>2, <3>3 DEF UpsertSportsEvent, Tellable, gameVars
    <3>. QED
      BY <1>1, <2>7, <3>2, <3>4 DEF UpsertSportsEvent, AfterNotify, Leave, Goto, gridVars, gameVars
  <2>8. CASE NotifySportsEventUpdated(j)
    BY <1>1, <2>8 DEF NotifySportsEventUpdated, AfterNotify, Leave, Goto, gridVars, gameVars
  <2>9. CASE SyncGridNames(j)
    <3>1. linked => row.teams \in Teams
      BY DEF EventType
    <3>. QED
      BY <1>1, <2>9, <3>1 DEF SyncGridNames, Goto, gameVars
  <2>10. CASE SyncGridColors(j)
    <3>1. linked => row.teams \in Teams
      BY DEF EventType
    <3>. QED
      BY <1>1, <2>10, <3>1 DEF SyncGridColors, Leave, Goto, gameVars
  <2>. QED
    BY <1>6, <2>1, <2>2, <2>3, <2>4, <2>5, <2>6, <2>7, <2>8, <2>9, <2>10 DEF Job, Processing
<1>7. ASSUME NEW j \in Jobs, Fail(j) PROVE SyncInv'
  BY <1>1, <1>7, SyncAssumption DEF Fail, Leave, Goto, gridVars, gameVars
<1>8. CASE FinalizeFails
  BY <1>1, <1>8, SyncAssumption DEF FinalizeFails, Goto, gridVars, gameVars
<1>9. CASE LoadEventForGrid
  <2>1. row \in EventType /\ row.teams \in Teams
    BY <1>9 DEF LoadEventForGrid, EventType
  <2>. QED
    BY <1>1, <1>9, <2>1 DEF LoadEventForGrid, jobVars, gameVars
<1>10. CASE SaveGrid
  BY <1>1, <1>10 DEF SaveGrid, jobVars, gameVars
<1>11. CASE UNCHANGED vars
  BY <1>1, <1>11 DEF vars, jobVars, gridVars, gameVars
<1>. QED
  BY <1>2, <1>3, <1>4, <1>5, <1>6, <1>7, <1>8, <1>9, <1>10, <1>11 DEF Next

LEMMA SyncInit == Init => SyncInv
<1>. SUFFICES ASSUME Init PROVE SyncInv
  OBVIOUS
<1>1. league \in AllLeagues /\ 0 \in Moments[league] /\ MaxFailures \in Nat
  BY SyncAssumption DEF Init, AllLeagues
<1>2. Last(league) = 2 * Played(league) + 1 /\ Played(league) \in Nat
  <2>1. 0 \in Nat /\ Overtimes \in Nat
    BY SyncAssumption
  <2>. QED
    BY <1>1, <2>1 DEF Last, Played, Regular
<1>3. 0 <= Last(league) /\ 0 \in 0..MaxFailures
  BY <1>1, <1>2
<1>. QED
  BY <1>1, <1>3, SyncAssumption DEF Init, SyncInv, TypeOK, FinalScoreRight, Jobs, Teams

LEMMA SyncInvHolds == Spec => []SyncInv
BY SyncInit, SyncStep, PTL DEF Spec

\* What ESPN says, what the jobs hold and what the row keeps have the types of
\* sports_events, scores and periods within those of the game, for every
\* league, number of overtimes and order of the jobs' steps.
THEOREM SyncTypeCorrect == Spec => []TypeOK
<1>1. SyncInv => TypeOK
  BY DEF SyncInv
<1>. QED
  BY <1>1, SyncInvHolds, PTL

\* A final score in the row is the score the game ended with, however late the
\* answer it came from, and though stale rows are finalized in between
\* (sports_event.go:590, :643).
THEOREM FinalScoresAreRight == Spec => []FinalScoreRight
<1>1. SyncInv => FinalScoreRight
  BY DEF SyncInv
<1>. QED
  BY <1>1, SyncInvHolds, PTL

-----------------------------------------------------------------------------
\* Changes that are announced.

\* Browsers are told of whatever changes in a row that is still the one the
\* job loaded (main.go:644): the comparison that decides sees every field the
\* upsert may write.
THEOREM EveryChangeIsAnnounced == Spec => NoSilentChange
<1>1. ASSUME SyncInv, [Next]_vars, NEW j \in Jobs,
             pc[j] = "loaded", row # None, row = existing[j],
             NEW f \in {"status", "score", "period", "detail", "lines"}, row[f] # row'[f]
      PROVE  pc[j] = pc'[j] \/ pc'[j] = "notify"
  <2>. SUFFICES ASSUME pc[j] # pc'[j] PROVE pc'[j] = "notify"
    OBVIOUS
  <2>1. TypeOK /\ row \in EventType /\ answer[j] \in EventType
    BY <1>1 DEF SyncInv, TypeOK, Tellable
  <2>2. PICK k \in Jobs : UpsertSportsEvent(k) \/ FinalizeStaleEvents
    BY <1>1 DEF Next, vars, Tick, Play, NameTeams, SyncTeams, Job, Processing, FetchScoreboards,
                SyncTeamSchedules, EventsNeedingScoreUpdate, FetchScores, Answered, LoadExisting,
                NotifySportsEventUpdated, SyncGridNames, SyncGridColors, Fail, FinalizeFails,
                LoadEventForGrid, SaveGrid, Jobs
  <2>3. ~FinalizeStaleEvents
    BY <1>1, <2>1 DEF FinalizeStaleEvents, Goto, TypeOK, Jobs
  <2>4. k = j
    BY <2>1, <2>2, <2>3 DEF UpsertSportsEvent, AfterNotify, Leave, Goto, TypeOK
  <2>5. UpsertSportsEvent(j)
    BY <2>2, <2>3, <2>4
  <2>6. row' = Upserted(row, answer[j])
    BY <2>5 DEF UpsertSportsEvent
  <2>7. answer[j][f] # row[f]
    <3>1. CASE f \in {"status", "period", "detail"}
      BY <1>1, <2>1, <2>6, <3>1, UpsertedType
    <3>2. row' = [answer[j] EXCEPT !.score = Coalesce(answer[j].score, row.score),
                    !.lines = [i \in 1..5 |-> Coalesce(answer[j].lines[i], row.lines[i])]]
      BY <1>1, <2>1, <2>6 DEF Upserted, EventType
    <3>3. CASE f = "score"
      BY <1>1, <2>1, <3>2, <3>3 DEF Coalesce, EventType
    <3>4. CASE f = "lines"
      <4>1. row'.lines = [i \in 1..5 |-> Coalesce(answer[j].lines[i], row.lines[i])]
        BY <2>1, <3>2 DEF EventType
      <4>. SUFFICES ASSUME answer[j].lines = row.lines PROVE FALSE
        BY <3>4
      <4>2. row'.lines = [i \in 1..5 |-> row.lines[i]]
        BY <4>1 DEF Coalesce
      <4>3. row.lines = [i \in 1..5 |-> row.lines[i]]
        BY <2>1 DEF EventType
      <4>. QED
        BY <1>1, <3>4, <4>2, <4>3
    <3>. QED
      BY <3>1, <3>3, <3>4
  <2>8. existing[j] # None /\ SportsEventDataChanged(existing[j], answer[j])
    BY <1>1, <2>7 DEF SportsEventDataChanged
  <2>. QED
    BY <2>1, <2>5, <2>8 DEF UpsertSportsEvent, Goto, TypeOK
<1>2. SyncInv /\ [Next]_vars =>
        [\A j \in Jobs :
           /\ pc[j] = "loaded" /\ row # None /\ row = existing[j]
           /\ \E f \in {"status", "score", "period", "detail", "lines"} : row[f] # row'[f]
           => pc[j] = pc'[j] \/ pc'[j] = "notify"]_vars
  BY <1>1
<1>. QED
  BY <1>2, SyncInvHolds, PTL DEF Spec, NoSilentChange

-----------------------------------------------------------------------------
\* The grid.

\* Its names and its colors are brought up to date one after the other, and
\* between the two another job may change the teams again.
GridInv ==
  linked /\ ~missed =>
    /\ \/ names = row.teams
       \/ \E j \in Jobs : OwesGrid(j) /\ pc[j] # "colors"
    /\ \/ colors = row.teams
       \/ \E j \in Jobs : OwesGrid(j)

LEMMA GridStep == SyncInv /\ GridInv /\ [Next]_vars => GridInv'
<1>. SUFFICES ASSUME SyncInv, GridInv, [Next]_vars, linked', ~missed' PROVE GridInv'
  BY DEF GridInv
<1>i. TypeOK
  BY DEF SyncInv
<1>. USE DEF GridInv, OwesGrid
<1>1. CASE Tick \/ Play \/ NameTeams \/ SyncTeams
  BY <1>1 DEF Tick, Play, NameTeams, SyncTeams, jobVars, gridVars
<1>2. ASSUME NEW j \in Jobs, Job(j) PROVE GridInv'
  <2>1. CASE FetchScoreboards \/ SyncTeamSchedules \/ FetchScores
    BY <1>i, <2>1 DEF FetchScoreboards, SyncTeamSchedules, FetchScores, Answered, Goto, gridVars,
                      TypeOK, Jobs
  <2>2. CASE FinalizeStaleEvents
    <3>1. row'.teams = row.teams
      BY <1>i, <2>2, FinalizedType DEF FinalizeStaleEvents, Stale, TypeOK
    <3>. QED
      BY <1>i, <2>2, <3>1 DEF FinalizeStaleEvents, Goto, gridVars, TypeOK, Jobs
  <2>3. CASE EventsNeedingScoreUpdate
    BY <1>i, <2>3 DEF EventsNeedingScoreUpdate, Goto, gridVars, TypeOK, Jobs
  <2>4. CASE LoadExisting(j)
    BY <1>i, <2>4 DEF LoadExisting, Goto, gridVars, TypeOK
  <2>5. CASE UpsertSportsEvent(j)
    <3>1. /\ pc[j] = "loaded" /\ answer[j] \in EventType
          /\ row' = Upserted(row, answer[j])
          /\ UNCHANGED <<linked, names, colors>>
          /\ missed' = (missed \/ (existing[j] # None /\ existing[j].teams # row.teams))
      BY <2>5 DEF UpsertSportsEvent, SyncInv, Tellable
    <3>2. row'.teams = answer[j].teams
      BY <1>i, <3>1, UpsertedType DEF TypeOK
    <3>3. \A k \in Jobs \ {j} : OwesGrid(k)' = OwesGrid(k) /\ pc'[k] = pc[k]
      BY <1>i, <2>5 DEF UpsertSportsEvent, AfterNotify, Leave, Goto, TypeOK
    <3>4. ~OwesGrid(j)
      BY <3>1
    <3>5. CASE TeamsChanged(existing[j], answer[j])
      <4>1. OwesGrid(j)' /\ pc'[j] # "colors"
        BY <1>i, <2>5, <3>5 DEF UpsertSportsEvent, AfterNotify, Leave, Goto, TypeOK
      <4>. QED
        BY <4>1
    <3>6. CASE ~TeamsChanged(existing[j], answer[j])
      <4>1. row'.teams = row.teams
        BY <3>1, <3>2, <3>6 DEF TeamsChanged
      <4>. QED
        BY <3>1, <3>3, <3>4, <4>1
    <3>. QED
      BY <3>5, <3>6
  <2>6. CASE NotifySportsEventUpdated(j)
    BY <1>i, <2>6 DEF NotifySportsEventUpdated, AfterNotify, Leave, Goto, gridVars, TypeOK
  <2>7. CASE SyncGridNames(j)
    BY <1>i, <2>7 DEF SyncGridNames, Goto, TypeOK
  <2>8. CASE SyncGridColors(j)
    BY <1>i, <2>8 DEF SyncGridColors, Leave, Goto, TypeOK
  <2>. QED
    BY <1>2, <2>1, <2>2, <2>3, <2>4, <2>5, <2>6, <2>7, <2>8 DEF Job, Processing
<1>3. ASSUME NEW j \in Jobs, Fail(j) PROVE GridInv'
  BY <1>i, <1>3 DEF Fail, Leave, Goto, TypeOK
<1>4. CASE FinalizeFails
  BY <1>i, <1>4 DEF FinalizeFails, Goto, gridVars, TypeOK, Jobs
<1>5. CASE LoadEventForGrid
  BY <1>5 DEF LoadEventForGrid, jobVars
<1>6. CASE SaveGrid
  BY <1>6 DEF SaveGrid
<1>7. CASE UNCHANGED vars
  BY <1>7 DEF vars, jobVars, gridVars
<1>. QED
  BY <1>1, <1>2, <1>3, <1>4, <1>5, <1>6, <1>7 DEF Next

\* A linked grid shows the teams of its game, or a job still has to see to it,
\* or one of three named mishaps has happened (main.go:652): nothing else that
\* jobs and saves of the grid do at the same time makes it miss them.
THEOREM GridsFollowTheirEvents == Spec => []GridFollowsEvent
<1>1. Init => GridInv
  BY DEF Init, GridInv
<1>2. GridInv => GridFollowsEvent
  BY DEF GridInv, GridFollowsEvent
<1>. QED
  BY <1>1, <1>2, GridStep, SyncInvHolds, PTL DEF Spec

-----------------------------------------------------------------------------
\* The winners.

\* What e says of the periods was so at moment t: those that were over then have
\* all their points.
AsOf(lg, e, t) ==
  /\ e.period = PeriodAt(lg, t)
  /\ e.detail = DetailAt(lg, t)
  /\ e.status = "final" => t = Last(lg)
  /\ \A k \in 1..4 : 2 * k <= t => e.lines[k] = 7

\* Its lines are as old as the rest of it, or there are none, for nobody
\* followed the game to its end.
WasSo(lg, m, e) == \E t \in 0..m : AsOf(lg, e, t)
LinesKept(lg, m, r) ==
  r # None => (r.status = "final" /\ r.lines = NoLines) \/ WasSo(lg, m, r)

\* Of a game in quarters.
LinesInv ==
  ~UsesHalves(league) =>
    /\ LinesKept(league, moment, row)
    /\ \A j \in Jobs : pc[j] \in {"answered", "loaded"} => WasSo(league, moment, answer[j])

\* The answers of the scoreboards carry every line there is.
LEMMA ToldAsOf ==
  ASSUME TypeOK, ~UsesHalves(league), NEW type \in TypesAt(league, moment)
  PROVE  AsOf(league, ParseEvent(league, moment, type, teams), moment)
<1>1. league \in AllLeagues /\ moment \in Nat /\ moment <= Last(league)
  BY SyncAssumption DEF TypeOK, AllLeagues
<1>2. Regular(league) = 4 /\ Overtimes \in Nat /\ Played(league) = 4 + Overtimes
  BY SyncAssumption DEF Regular, Played
<1>3. EventStatus(type) = "final" => moment = Last(league)
  BY DEF EventStatus, TypesAt
<1>4. \A k \in 1..4 : 2 * k <= moment => LinesAt(league, moment)[k] = 7
  BY <1>1, <1>2 DEF LinesAt, PointsIn
<1>. QED
  BY <1>1, <1>3, <1>4 DEF AsOf, ParseEvent, Event

\* A set type whose period counts as complete has been decided, and its score is
\* that of the moment that decided it.
LEMMA DecidedScore ==
  ASSUME TypeOK, ~UsesHalves(league), NEW e \in EventType, NEW t \in 0..moment, AsOf(league, e, t),
         NEW setType \in {"q1", "q2", "q3", "half"}, IsPeriodComplete(e, setType)
  PROVE  /\ moment >= Decides(league, setType)
         /\ ScoreForPeriod(e, setType) = ScoreAt(league, Decides(league, setType))
<1>1. league \in AllLeagues /\ moment \in Nat /\ moment <= Last(league) /\ e.league = league
  BY SyncAssumption DEF TypeOK, AllLeagues, EventType
<1>2. /\ Regular(league) = 4 /\ Played(league) \in Nat /\ Played(league) >= 4
      /\ Last(league) = 2 * Played(league) + 1
  BY SyncAssumption DEF Regular, Played, Last
<1>3. t \in Nat /\ t <= moment /\ (e.status = "final" => t = Last(league))
  BY <1>1 DEF AsOf
<1>4. ASSUME NEW k \in 1..3, e.period > k \/ (e.period = k /\ e.detail = "end of")
      PROVE  2 * k <= t
  <2>1. CASE t = Last(league)
    BY <1>2, <2>1
  <2>2. CASE t # Last(league) /\ e.period > k
    <3>1. (t + 1) \div 2 > k
      BY <1>1, <2>2 DEF AsOf, PeriodAt
    <3>. QED
      BY <1>3, <3>1
  <2>3. CASE t # Last(league) /\ e.period = k /\ e.detail = "end of"
    <3>1. (t + 1) \div 2 = k /\ t % 2 # 1
      BY <1>1, <2>3 DEF AsOf, PeriodAt, DetailAt
    <3>. QED
      BY <1>3, <3>1
  <2>. QED
    BY <1>4, <2>1, <2>2, <2>3
<1>5. /\ e.detail = "halftime" => t = 4
      /\ e.status = "final" => 6 <= t
  <2>1. e.detail = DetailAt(league, t)
    BY DEF AsOf
  <2>2. DetailAt(league, t) = "halftime" => t = 4
    BY <1>2, <1>3 DEF DetailAt
  <2>3. e.status = "final" => 6 <= t
    BY <1>2, <1>3
  <2>. QED
    BY <2>1, <2>2, <2>3
<1>6. \A k \in 1..4 : 2 * k <= t => e.lines[k] = 7
  BY DEF AsOf
<1>7. \A m \in {2, 4, 6} : ScoreAt(league, m) = 7 * (m \div 2)
  BY <1>2 DEF ScoreAt
<1>8. None # 7
  BY SyncAssumption
<1>. DEFINE after(k) == e.period > k \/ (e.period = k /\ e.detail = "end of")
<1>12. \/ e.status = "final"
       \/ setType = "q1" /\ after(1)
       \/ setType \in {"q2", "half"} /\ (after(2) \/ e.detail = "halftime")
       \/ setType = "q3" /\ after(3)
  BY <1>1 DEF IsPeriodComplete
<1>13. (after(1) => 2 <= t) /\ (after(2) => 4 <= t) /\ (after(3) => 6 <= t)
  <2>1. \A k \in 1..3 : after(k) => 2 * k <= t
    BY <1>4
  <2>. HIDE DEF after
  <2>. QED
    BY <1>3, <2>1
<1>. HIDE DEF after
<1>9. CASE setType = "q1"
  <2>1. 2 <= t
    BY <1>3, <1>5, <1>12, <1>13, <1>9
  <2>. QED
    BY <1>1, <1>3, <1>6, <1>7, <1>9, <2>1 DEF Decides, ScoreForPeriod
<1>10. CASE setType \in {"q2", "half"}
  <2>1. 4 <= t
    BY <1>3, <1>5, <1>12, <1>13, <1>10
  <2>2. e.lines[1] = 7 /\ e.lines[2] = 7
    BY <1>3, <1>6, <2>1
  <2>3. Cumulative(e.lines, 2) = 14
    BY <1>8, <2>2 DEF Cumulative
  <2>4. ScoreForPeriod(e, setType) = 14
    BY <1>1, <1>10, <2>3 DEF ScoreForPeriod
  <2>5. Decides(league, setType) = 4
    BY <1>2, <1>10 DEF Decides
  <2>6. ScoreAt(league, 4) = 14
    BY <1>7
  <2>. QED
    BY <1>1, <1>3, <2>1, <2>4, <2>5, <2>6
<1>11. CASE setType = "q3"
  <2>1. 6 <= t
    BY <1>3, <1>5, <1>12, <1>13, <1>11
  <2>2. e.lines[1] = 7 /\ e.lines[2] = 7 /\ e.lines[3] = 7
    BY <1>3, <1>6, <2>1
  <2>3. Cumulative(e.lines, 3) = 21
    BY <1>8, <2>2 DEF Cumulative
  <2>4. ScoreForPeriod(e, setType) = 21
    BY <1>11, <2>3 DEF ScoreForPeriod
  <2>5. Decides(league, setType) = 6
    BY <1>11 DEF Decides
  <2>6. ScoreAt(league, 6) = 21
    BY <1>7
  <2>. QED
    BY <1>1, <1>3, <2>1, <2>4, <2>5, <2>6
<1>. QED
  BY <1>9, <1>10, <1>11

\* A square that is found covers the positions of the score's last digits.
LEMMA SquareOfScore ==
  ASSUME NEW home \in Lines, NEW away \in Lines, NEW score \in Nat, NEW gridType \in GridTypes
  PROVE  CalculateWinningSquare(score, score, home, away, gridType) # 0 =>
           \E h, a \in Positions :
             /\ home[h] = score % 10 /\ away[a] = score % 10
             /\ Covers(CalculateWinningSquare(score, score, home, away, gridType), gridType, h, a)
<1>. DEFINE h == PositionOf(home, score % 10)
            a == PositionOf(away, score % 10)
<1>1. score % 10 \in Digits
  BY DEF Digits
<1>2. /\ h \in Positions /\ home[h] = score % 10
      /\ a \in Positions /\ away[a] = score % 10
  BY <1>1, LinesHold
<1>3. Covers(SquareAt(h, a, gridType), gridType, h, a)
  BY <1>2, SquareAtCovers
<1>4. CalculateWinningSquare(score, score, home, away, gridType) \in {0, SquareAt(h, a, gridType)}
  BY DEF CalculateWinningSquare
<1>. QED
  BY <1>2, <1>3, <1>4

\* A row whose lines are right and whose final score is right announces no
\* square but the right ones.
LEMMA RightRowsAnnounceRightly ==
  ASSUME TypeOK, FinalScoreRight, row # None,
         ~UsesHalves(league) => LinesKept(league, moment, row),
         NEW gridType \in Boards
  PROVE  AnnouncesRightly(row, moment, gridType)
<1>1. row \in EventType /\ row.league = league /\ league \in AllLeagues
      /\ moment \in Nat /\ gridType \in GridTypes
  BY SyncAssumption DEF TypeOK, EventType, AllLeagues
<1>2. \A m \in Nat : m <= Last(league) => ScoreAt(league, m) \in Nat
  BY <1>1, GameBounds
<1>3. ASSUME NEW setType \in {"all", "q1", "q2", "q3", "half", "final"},
             Carried(league, setType), IsPeriodComplete(row, setType),
             ScoreForPeriod(row, setType) # None
      PROVE  /\ moment >= Decides(league, setType)
             /\ Decides(league, setType) \in Nat /\ Decides(league, setType) <= Last(league)
             /\ ScoreForPeriod(row, setType) = ScoreAt(league, Decides(league, setType))
  <2>1. CASE setType \in {"final", "all"}
    <3>1. row.status = "final" /\ row.score # None /\ ScoreForPeriod(row, setType) = row.score
      BY <1>3, <2>1 DEF IsPeriodComplete, ScoreForPeriod
    <3>2. Decides(league, setType) = Last(league) /\ moment = Last(league)
      BY <2>1, <3>1 DEF Decides, FinalScoreRight, Over
    <3>. QED
      BY <1>1, <3>1, <3>2 DEF FinalScoreRight
  <2>2. CASE setType \in {"q1", "q2", "q3", "half"}
    <3>1. ~UsesHalves(league)
      BY <1>3, <2>2 DEF Carried
    <3>2. ASSUME row.lines = NoLines PROVE FALSE
      <4>1. \A k \in 1..5 : row.lines[k] = None
        BY <3>2 DEF NoLines
      <4>2. Cumulative(row.lines, 2) = None /\ Cumulative(row.lines, 3) = None
        <5>1. (\E i \in 1..2 : row.lines[i] = None) /\ (\E i \in 1..3 : row.lines[i] = None)
          BY <4>1
        <5>. QED
          BY <5>1 DEF Cumulative
      <4>. QED
        BY <1>1, <1>3, <2>2, <3>1, <4>1, <4>2 DEF ScoreForPeriod
    <3>3. PICK t \in 0..moment : AsOf(league, row, t)
      BY <3>1, <3>2 DEF LinesKept, WasSo
    <3>4. Decides(league, setType) \in Nat
      BY <2>2, <3>1 DEF Decides, Regular
    <3>5. moment <= Last(league) /\ Last(league) \in Nat
      BY <1>1, GameBounds DEF TypeOK
    <3>. QED
      BY <1>1, <1>3, <2>2, <3>1, <3>3, <3>4, <3>5, DecidedScore
  <2>. QED
    BY <2>1, <2>2
<1>4. ASSUME NEW config \in {"standard", "123f", "hf"},
             NEW pair \in Numbers, NEW other \in Numbers \cup {None},
             NEW setType \in GetSetTypes(config),
             Carried(league, setType), IsPeriodComplete(row, setType),
             ScoreForPeriod(row, setType) # None,
             NEW lines, lines = NumbersFor(config, setType, pair, [x \in SetTypes |-> other]),
             NEW won,
             won = CalculateWinningSquare(ScoreForPeriod(row, setType), ScoreForPeriod(row, setType),
                                          lines.home, lines.away, gridType),
             won # 0
      PROVE  RightSquare(won, league, moment, setType, gridType, lines)
  <2>1. setType \in {"all", "q1", "q2", "q3", "half", "final"} /\ setType \in SetTypes
    BY <1>4 DEF GetSetTypes, SetTypes
  <2>2. lines \in Numbers
    BY <1>4, <2>1 DEF NumbersFor
  <2>3. lines.home \in Lines /\ lines.away \in Lines
    BY <1>4, <2>2, SyncAssumption
  <2>4. /\ moment >= Decides(league, setType)
        /\ ScoreForPeriod(row, setType) = ScoreAt(league, Decides(league, setType))
        /\ ScoreAt(league, Decides(league, setType)) \in Nat
    BY <1>2, <1>3, <1>4, <2>1
  <2>. QED
    BY <1>1, <1>4, <2>3, <2>4, SquareOfScore DEF RightSquare
<1>. SUFFICES ASSUME NEW config \in {"standard", "123f", "hf"},
                     NEW pair \in Numbers, NEW other \in Numbers \cup {None},
                     NEW t \in DOMAIN Won(row, config, gridType, pair, other),
                     Carried(row.league, t)
              PROVE  RightSquare(Won(row, config, gridType, pair, other)[t], row.league, moment, t,
                               gridType, NumbersFor(config, t, pair, [x \in SetTypes |-> other]))
  BY DEF AnnouncesRightly
<1>. DEFINE won == Won(row, config, gridType, pair, other)
            lines == NumbersFor(config, t, pair, [x \in SetTypes |-> other])
            square == CalculateWinningSquare(ScoreForPeriod(row, t), ScoreForPeriod(row, t),
                                             lines.home, lines.away, gridType)
<1>5. /\ t \in GetSetTypes(config) /\ IsPeriodComplete(row, t)
      /\ ScoreForPeriod(row, t) # None
      /\ won[t] = square /\ square # 0
  BY DEF GetWinningSquares, Won
<1>. HIDE DEF won, lines, square
<1>6. lines = NumbersFor(config, t, pair, [x \in SetTypes |-> other])
  BY DEF lines
<1>7. square = CalculateWinningSquare(ScoreForPeriod(row, t), ScoreForPeriod(row, t),
                                      lines.home, lines.away, gridType)
  BY DEF square
<1>. QED
  BY <1>1, <1>4, <1>5, <1>6, <1>7 DEF won, lines

\* An upsert keeps lines of an earlier answer only where it brings none.
LEMMA UpsertedAsOf ==
  ASSUME TypeOK, NEW e \in EventType, NEW t \in 0..moment, AsOf(league, e, t)
  PROVE  AsOf(league, Upserted(row, e), t)
<1>1. CASE row = None
  BY <1>1 DEF Upserted
<1>2. CASE row # None
  <2>. DEFINE lines == [k \in 1..5 |-> Coalesce(e.lines[k], row.lines[k])]
  <2>1. Upserted(row, e).lines = lines
    BY <1>2 DEF Upserted, EventType
  <2>2. \A k \in 1..4 : e.lines[k] = 7 => lines[k] = 7
    BY SyncAssumption DEF Coalesce
  <2>. HIDE DEF lines
  <2>3. \A k \in 1..4 : 2 * k <= t => Upserted(row, e).lines[k] = 7
    BY <2>1, <2>2 DEF AsOf
  <2>4. row \in EventType \cup {None}
    BY DEF TypeOK
  <2>. QED
    BY <2>3, <2>4, UpsertedType DEF AsOf
<1>. QED
  BY <1>1, <1>2

LEMMA LinesStep == SyncInv /\ LinesInv /\ [Next]_vars => LinesInv'
<1>. SUFFICES ASSUME SyncInv, LinesInv, [Next]_vars, ~UsesHalves(league)' PROVE LinesInv'
  BY DEF LinesInv
<1>i. TypeOK /\ UNCHANGED league
  BY DEF SyncInv, Next, vars, gameVars, Tick, Play, NameTeams, SyncTeams, Job, Processing,
         FetchScoreboards, SyncTeamSchedules, FinalizeStaleEvents, EventsNeedingScoreUpdate,
         FetchScores, LoadExisting, UpsertSportsEvent, NotifySportsEventUpdated, SyncGridNames,
         SyncGridColors, Fail, FinalizeFails, LoadEventForGrid, SaveGrid
<1>h. ~UsesHalves(league)
  BY <1>i
<1>r. /\ LinesKept(league, moment, row)
      /\ \A j \in Jobs : pc[j] \in {"answered", "loaded"} => WasSo(league, moment, answer[j])
  BY <1>h DEF LinesInv
<1>1. ASSUME UNCHANGED moment \/ Play, NEW e
      PROVE  /\ LinesKept(league, moment, e) => LinesKept(league, moment', e)
             /\ WasSo(league, moment, e) => WasSo(league, moment', e)
  <2>1. moment \in Nat /\ moment' \in Nat /\ moment <= moment'
    BY <1>i, <1>1, SyncAssumption DEF TypeOK, Play
  <2>2. 0..moment \subseteq 0..(moment')
    BY <2>1
  <2>. QED
    BY <2>2 DEF LinesKept, WasSo
<1>2. ASSUME LinesKept(league, moment', row'),
             \A j \in Jobs : pc'[j] \in {"answered", "loaded"} => WasSo(league, moment', answer'[j])
      PROVE  LinesInv'
  BY <1>i, <1>2 DEF LinesInv
<1>3. CASE Tick \/ Play \/ NameTeams \/ SyncTeams \/ FinalizeFails \/ LoadEventForGrid \/ SaveGrid
           \/ UNCHANGED vars
  <2>1. /\ UNCHANGED <<row, answer>> /\ (UNCHANGED moment \/ Play)
        /\ \A j \in Jobs : pc'[j] \in {"answered", "loaded"} => pc'[j] = pc[j]
    BY <1>i, <1>3 DEF Tick, Play, NameTeams, SyncTeams, FinalizeFails, LoadEventForGrid, SaveGrid,
                      vars, jobVars, gameVars, Goto, TypeOK, Jobs
  <2>. QED
    BY <1>1, <1>2, <1>r, <2>1
<1>4. ASSUME NEW j \in Jobs, Job(j) PROVE LinesInv'
  <2>. UNCHANGED moment
    BY <1>4 DEF Job, Processing, gameVars, FetchScoreboards, SyncTeamSchedules, FinalizeStaleEvents,
                EventsNeedingScoreUpdate, FetchScores, LoadExisting, UpsertSportsEvent,
                NotifySportsEventUpdated, SyncGridNames, SyncGridColors
  <2>1. CASE FetchScoreboards \/ FetchScores
    <3>1. PICK type \in TypesAt(league, moment), k \in Jobs :
            Answered(k, ParseEvent(league, moment, type, teams)) /\ UNCHANGED row
      BY <1>h, <2>1 DEF FetchScoreboards, FetchScores, Jobs
    <3>2. AsOf(league, ParseEvent(league, moment, type, teams), moment) /\ moment \in 0..moment
      BY <1>i, <1>h, ToldAsOf, SyncAssumption DEF TypeOK
    <3>3. WasSo(league, moment, ParseEvent(league, moment, type, teams))
      BY <3>2 DEF WasSo
    <3>4. \A i \in Jobs : pc'[i] \in {"answered", "loaded"} => WasSo(league, moment, answer'[i])
      BY <1>i, <1>r, <3>1, <3>3 DEF Answered, Goto, TypeOK
    <3>. QED
      BY <1>1, <1>2, <1>r, <3>1, <3>4
  <2>2. CASE SyncTeamSchedules
    BY <1>h, <2>2 DEF SyncTeamSchedules
  <2>3. CASE FinalizeStaleEvents
    <3>1. UNCHANGED answer /\ \A i \in Jobs : pc'[i] \in {"answered", "loaded"} => pc'[i] = pc[i]
      BY <1>i, <2>3 DEF FinalizeStaleEvents, Goto, TypeOK, Jobs
    <3>2. row' = row \/ (row' = Finalized(row) /\ row # None)
      BY <2>3 DEF FinalizeStaleEvents, Stale
    <3>3. ASSUME row' = Finalized(row), row # None PROVE row'.status = "final" /\ row'.lines = NoLines
      BY <1>i, <3>3 DEF Finalized, TypeOK, EventType
    <3>4. LinesKept(league, moment, row')
      BY <1>r, <3>2, <3>3 DEF LinesKept
    <3>. QED
      BY <1>1, <1>2, <1>r, <3>1, <3>4
  <2>4. CASE UpsertSportsEvent(j)
    <3>1. /\ pc[j] = "loaded" /\ answer[j] \in EventType /\ row' = Upserted(row, answer[j])
          /\ \A i \in Jobs : pc'[i] \in {"answered", "loaded"} => pc'[i] = pc[i] /\ answer'[i] = answer[i]
      BY <1>i, <2>4 DEF UpsertSportsEvent, AfterNotify, Leave, Goto, TypeOK, SyncInv, Tellable
    <3>2. PICK t \in 0..moment : AsOf(league, answer[j], t)
      BY <1>r, <3>1 DEF WasSo
    <3>3. AsOf(league, row', t)
      BY <1>i, <3>1, <3>2, UpsertedAsOf
    <3>4. LinesKept(league, moment, row')
      BY <3>3 DEF LinesKept, WasSo
    <3>. QED
      BY <1>1, <1>2, <1>r, <3>1, <3>4
  <2>5. CASE EventsNeedingScoreUpdate \/ LoadExisting(j) \/ NotifySportsEventUpdated(j)
             \/ SyncGridNames(j) \/ SyncGridColors(j)
    <3>1. /\ UNCHANGED row
          /\ \A i \in Jobs : pc'[i] \in {"answered", "loaded"} =>
                               pc[i] \in {"answered", "loaded"} /\ answer'[i] = answer[i]
      BY <1>i, <2>5 DEF EventsNeedingScoreUpdate, LoadExisting, NotifySportsEventUpdated,
                        SyncGridNames, SyncGridColors, AfterNotify, Leave, Goto, TypeOK, Jobs
    <3>. QED
      BY <1>1, <1>2, <1>r, <3>1
  <2>. QED
    BY <1>4, <2>1, <2>2, <2>3, <2>4, <2>5 DEF Job, Processing
<1>5. ASSUME NEW j \in Jobs, Fail(j) PROVE LinesInv'
  <2>1. /\ UNCHANGED <<row, moment>>
        /\ \A i \in Jobs : pc'[i] \in {"answered", "loaded"} =>
                             pc[i] \in {"answered", "loaded"} /\ answer'[i] = answer[i]
    BY <1>i, <1>5 DEF Fail, Leave, Goto, gameVars, TypeOK
  <2>. QED
    BY <1>1, <1>2, <1>r, <2>1
<1>. QED
  BY <1>2, <1>3, <1>4, <1>5 DEF Next

\* No square is announced but the one whose block holds the last digits of a
\* period that is really over (winning_squares.go:85), for every league, type of
\* board, pair of number lines and number of overtimes, and whichever job wrote
\* the row last, however late its answer.
THEOREM WinnersAreRight == Spec => []WinnersRight
<1>1. Init => LinesInv
  BY DEF Init, LinesInv, LinesKept
<1>2. SyncInv /\ LinesInv => WinnersRight
  BY RightRowsAnnounceRightly DEF SyncInv, LinesInv, WinnersRight
<1>. QED
  BY <1>1, <1>2, LinesStep, SyncInvHolds, PTL DEF Spec
=============================================================================
