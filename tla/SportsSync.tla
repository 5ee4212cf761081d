------------------------------ MODULE SportsSync ------------------------------
(***************************************************************************)
(* How the result of a game reaches the grids that are played with it: the *)
(* three jobs of sqmgr-sports-sync, which ask ESPN and upsert what it says *)
(* into sports_events, and the grid linked to the game.                    *)
(*                                                                         *)
(* The jobs are processes of their own.  Cron lets no job overlap itself   *)
(* (concurrencyPolicy: Forbid), but the schedule and the scores job may    *)
(* overlap each other; each asks first and writes later.  Games do not     *)
(* interact, so there is one, with the scores of one team.                 *)
(***************************************************************************)
EXTENDS WinningSquares, FiniteSets

CONSTANTS
  Leagues,     \* the leagues whose games are modelled
  Overtimes,   \* how many periods follow the regular ones
  Moments,     \* bound: the moments of a league's game at which somebody asks
  Beginning,   \* bound: when the first job runs, against event_date
  MaxFailures, \* bound: how often a request, a statement or a job fails
  Boards,      \* bound: the types of the grids winners are looked up in
  Numbers      \* bound: and the pairs of number lines

ASSUME SyncAssumption ==
  /\ Leagues \subseteq {"nfl", "nba", "wnba", "ncaab", "ncaaf"}
  /\ Overtimes \in Nat
  /\ Moments \in [Leagues -> SUBSET Nat] /\ \A lg \in Leagues : 0 \in Moments[lg]
  /\ Beginning \in {"early", "near", "day", "old"}
  /\ MaxFailures \in Nat
  /\ None \notin Nat \cup Numbers
  /\ Boards \subseteq GridTypes
  /\ Numbers \subseteq [home : Lines, away : Lines]

VARIABLES
  league,
  clock,       \* NOW against event_date: before, within two hours, within a day after, older
  moment,      \* how far the game is
  teams,       \* the teams ESPN names, the first ones a placeholder
  teamsKnown,  \* whether sports_teams has rows of the league
  row,         \* of sports_events, None until there is one
  pc,          \* where each job is
  answer,      \* what ESPN told it of the game
  existing,    \* the row it loaded before it wrote, None if there was none
  linked,      \* whether the grid is linked to the game
  names,       \* whose names the grid shows
  colors,      \* and whose colors
  edit,        \* what a request to save the grid has read, None without one
  missed,      \* whether the grid may have missed a change of teams
  failures     \* counts failures up to MaxFailures

gameVars == <<league, clock, moment, teams>>
jobVars == <<pc, answer, existing>>
gridVars == <<linked, names, colors, edit, missed>>
vars == <<gameVars, teamsKnown, row, jobVars, gridVars, failures>>

Jobs == {"schedule", "scores"}
Teams == {"placeholder", "named"}

-----------------------------------------------------------------------------
\* The game: moment 2k-1 is within its k-th period, 2k after it.  A team
\* scores 3 points in the first part of a period and 4 in the second.

Regular(lg) == IF UsesHalves(lg) THEN 2 ELSE 4
Played(lg) == Regular(lg) + Overtimes
Last(lg) == 2 * Played(lg) + 1

PointsIn(lg, m, k) ==
  CASE m < 2 * k - 1 -> 0
    [] m = 2 * k - 1 -> 3
    [] OTHER -> 7

ScoreAt(lg, m) ==
  IF m = Last(lg) THEN 7 * Played(lg) ELSE 7 * (m \div 2) + 3 * (m % 2)

PeriodAt(lg, m) == IF m = Last(lg) THEN Played(lg) ELSE (m + 1) \div 2

DetailAt(lg, m) ==
  CASE m = 0 \/ m % 2 = 1 -> "other"
    [] m = Regular(lg) -> "halftime"
    [] OTHER -> "end of"

Over == moment = Last(league)

\* The moment that decides a set type.
Decides(lg, setType) ==
  CASE setType = "q1" -> 2
    [] setType = "q2" -> 4
    [] setType = "q3" -> 6
    [] setType = "half" -> Regular(lg)
    [] setType \in {"q4", "final", "all"} -> Last(lg)

-----------------------------------------------------------------------------
\* What ESPN's client makes of an answer.

\* The status types ESPN may give at a moment.
TypesAt(lg, m) ==
  CASE m = 0 -> {[name |-> "STATUS_SCHEDULED", completed |-> FALSE, state |-> "pre"],
                 [name |-> "STATUS_DELAYED", completed |-> FALSE, state |-> "pre"]}
    [] m = Last(lg) -> {[name |-> "STATUS_FINAL", completed |-> TRUE, state |-> "post"],
                        [name |-> "STATUS_FULL_TIME", completed |-> TRUE, state |-> "post"]}
    [] OTHER -> {[name |-> "STATUS_IN_PROGRESS", completed |-> FALSE, state |-> "in"]}

\* Mutant: only the names the client knows are final.
EventStatusByName(type) ==
  CASE type.name = "STATUS_SCHEDULED" \/ type.state = "pre" -> "scheduled"
    [] type.name \in {"STATUS_FINAL", "STATUS_FINAL_OT"} -> "final"
    [] OTHER -> "in_progress"

\* Mutant: what the client does not know goes through as ESPN has it.
EventStatusRaw(type) ==
  CASE type.name = "STATUS_SCHEDULED" -> "scheduled"
    [] type.name = "STATUS_FINAL" -> "final"
    [] OTHER -> type.state

EventStatus(type) ==
  CASE type.name = "STATUS_SCHEDULED" -> "scheduled"
    [] type.name \in {"STATUS_FINAL", "STATUS_FINAL_OT"} \/ type.completed -> "final"
    [] OTHER -> IF type.state = "pre" THEN "scheduled" ELSE "in_progress"

NoLines == [k \in 1..5 |-> None]

\* Four columns of periods and one with the sum of the overtimes.
LinesAt(lg, m) ==
  [k \in 1..5 |->
     IF m < 2 * k - 1 \/ k > Played(lg) THEN None
     ELSE IF k < 5 THEN PointsIn(lg, m, k) ELSE ScoreAt(lg, m) - 28]

Event(lg, m, type, score, lines, tms) ==
  [league |-> lg, status |-> EventStatus(type), period |-> PeriodAt(lg, m),
   detail |-> DetailAt(lg, m), score |-> score, lines |-> lines, teams |-> tms]

\* The scoreboard: line scores of all periods that have begun.
ParseEvent(lg, m, type, tms) ==
  Event(lg, m, type, ScoreAt(lg, m), LinesAt(lg, m), tms)

\* The summary of one game: ESPN may have no line scores for it.
ParseSummaryEvents(lg, m, type, tms) ==
  {Event(lg, m, type, ScoreAt(lg, m), lines, tms) : lines \in {LinesAt(lg, m), NoLines}}

\* A team's schedule: no line scores, no score before the game.
ParseScheduleEvent(lg, m, type, tms) ==
  Event(lg, m, type, IF m = 0 THEN None ELSE ScoreAt(lg, m), NoLines, tms)

-----------------------------------------------------------------------------
\* The row.

\* COALESCE(EXCLUDED.c, sports_events.c)
Coalesce(new, old) == IF new = None THEN old ELSE new

Upserted(old, e) ==
  IF old = None THEN e
  ELSE [e EXCEPT !.score = Coalesce(@, old.score),
                 !.lines = [k \in 1..5 |-> Coalesce(@[k], old.lines[k])]]

\* Mutant: the scores of a game nobody followed to its end are kept.
FinalizedWithScore(r) == [r EXCEPT !.status = "final"]

Finalized(r) ==
  [r EXCEPT !.status = "final", !.period = 0, !.detail = "other",
            !.score = None, !.lines = NoLines]

\* Mutant: a game that was never seen to start is left alone.
StaleInProgress == row # None /\ row.status = "in_progress" /\ clock = "old"

Stale == row # None /\ row.status # "final" /\ clock = "old"

EventNeedsScoreUpdate ==
  /\ row # None
  /\ \/ row.status = "in_progress" /\ clock # "old"
     \/ row.status = "scheduled" /\ clock = "near"
     \/ row.status # "final" /\ clock = "day"

\* Mutant: a NULL column counts as equal to every value.
SportsEventDataChangedIfKnown(loaded, updated) ==
  \/ loaded.status # updated.status
  \/ loaded.score # None /\ updated.score # None /\ loaded.score # updated.score

SportsEventDataChanged(loaded, updated) ==
  \E field \in {"status", "score", "period", "detail", "lines"} :
    loaded[field] # updated[field]

\* Mutant: only the grids of a new event are brought up to date.
TeamsChangedOnInsert(loaded, updated) == loaded = None

TeamsChanged(loaded, updated) == loaded = None \/ loaded.teams # updated.teams

-----------------------------------------------------------------------------
EventType ==
  [league : {league},
   status : {"scheduled", "in_progress", "final"},
   period : 0..Played(league),
   detail : {"other", "halftime", "end of"},
   score  : 0..ScoreAt(league, moment) \cup {None},
   lines  : [1..5 -> 0..(7 * (Overtimes + 1)) \cup {None}],
   teams  : Teams]

TypeOK ==
  /\ league \in Leagues
  /\ clock \in {"early", "near", "day", "old"}
  /\ moment \in Moments[league] /\ moment <= Last(league)
  /\ teams \in Teams
  /\ teamsKnown \in BOOLEAN
  /\ row \in EventType \cup {None}
  /\ pc \in [Jobs -> {"idle", "select", "fetch", "answered", "loaded", "notify", "names", "colors"}]
  /\ answer \in [Jobs -> EventType \cup {None}]
  /\ existing \in [Jobs -> EventType \cup {None}]
  /\ linked \in BOOLEAN
  /\ names \in Teams \cup {None}
  /\ colors \in Teams \cup {None}
  /\ edit \in Teams \cup {"unlink", None}
  /\ missed \in BOOLEAN
  /\ failures \in 0..MaxFailures

Init ==
  /\ league \in Leagues
  /\ clock = Beginning
  /\ moment = 0
  /\ teams = "placeholder"
  /\ teamsKnown = FALSE
  /\ row = None
  /\ pc = [j \in Jobs |-> "idle"]
  /\ answer = [j \in Jobs |-> None]
  /\ existing = [j \in Jobs |-> None]
  /\ linked = FALSE
  /\ names = None
  /\ colors = None
  /\ edit = None
  /\ missed = FALSE
  /\ failures = 0

-----------------------------------------------------------------------------
\* ESPN and time.

Tick ==
  /\ clock # "old"
  /\ clock' = CASE clock = "early" -> "near" [] clock = "near" -> "day" [] clock = "day" -> "old"
  /\ UNCHANGED <<failures, league, moment, teams, teamsKnown, row, jobVars, gridVars>>

\* A game starts when both teams are known.
Play ==
  /\ clock \in {"near", "day"} /\ teams = "named"
  /\ \E m \in Moments[league] :
       /\ moment < m /\ m <= Last(league)
       /\ \A n \in Moments[league] : n <= moment \/ m <= n
       /\ moment' = m
  /\ UNCHANGED <<failures, league, clock, teams, teamsKnown, row, jobVars, gridVars>>

NameTeams ==
  /\ teams = "placeholder"
  /\ teams' = "named"
  /\ UNCHANGED <<failures, league, clock, moment, teamsKnown, row, jobVars, gridVars>>

-----------------------------------------------------------------------------
\* The jobs.

Goto(j, place) == pc' = [pc EXCEPT ![j] = place]

\* What the job was told and has loaded is of no use from there on.
Leave(j, place) ==
  /\ Goto(j, place)
  /\ answer' = [answer EXCEPT ![j] = None]
  /\ existing' = [existing EXCEPT ![j] = None]

Answered(j, e) ==
  /\ Goto(j, "answered")
  /\ answer' = [answer EXCEPT ![j] = e]
  /\ UNCHANGED existing

\* doSyncTeams
SyncTeams ==
  /\ ~teamsKnown
  /\ teamsKnown' = TRUE
  /\ UNCHANGED <<failures, gameVars, row, jobVars, gridVars>>

\* Football by week, NBA and WNBA by date from today on.
FetchScoreboards ==
  /\ pc["schedule"] = "idle" /\ ~UsesHalves(league)
  /\ league \in {"nba", "wnba"} => clock # "old"
  /\ \E type \in TypesAt(league, moment) :
       Answered("schedule", ParseEvent(league, moment, type, teams))
  /\ UNCHANGED <<failures, gameVars, teamsKnown, row, gridVars>>

\* College basketball by team: the teams must have been synchronised.
SyncTeamSchedules ==
  /\ pc["schedule"] = "idle" /\ UsesHalves(league) /\ teamsKnown
  /\ \E type \in TypesAt(league, moment) :
       Answered("schedule", ParseScheduleEvent(league, moment, type, teams))
  /\ UNCHANGED <<failures, gameVars, teamsKnown, row, gridVars>>

\* doSyncScores begins with the games nobody follows any more; that it cannot
\* do so is only logged.
FinalizeStaleEvents ==
  /\ pc["scores"] = "idle"
  /\ row' = IF Stale THEN Finalized(row) ELSE row
  /\ Goto("scores", "select")
  /\ UNCHANGED <<failures, gameVars, teamsKnown, answer, existing, gridVars>>

FinalizeFails ==
  /\ pc["scores"] = "idle"
  /\ failures < MaxFailures
  /\ failures' = failures + 1
  /\ Goto("scores", "select")
  /\ UNCHANGED <<gameVars, teamsKnown, row, answer, existing, gridVars>>

EventsNeedingScoreUpdate ==
  /\ pc["scores"] = "select"
  /\ Goto("scores", IF EventNeedsScoreUpdate THEN "fetch" ELSE "idle")
  /\ UNCHANGED <<failures, gameVars, teamsKnown, row, answer, existing, gridVars>>

\* The scoreboards of two days list the game, unless it is one of college
\* basketball's lesser ones; then its summary is asked for.
FetchScores ==
  /\ pc["scores"] = "fetch"
  /\ \E type \in TypesAt(league, moment) :
       \/ Answered("scores", ParseEvent(league, moment, type, teams))
       \/ /\ UsesHalves(league)
          /\ \E e \in ParseSummaryEvents(league, moment, type, teams) : Answered("scores", e)
  /\ UNCHANGED <<failures, gameVars, teamsKnown, row, gridVars>>

\* processEvent upserts both teams and loads the row.
LoadExisting(j) ==
  /\ pc[j] = "answered"
  /\ teamsKnown' = TRUE
  /\ existing' = [existing EXCEPT ![j] = row]
  /\ Goto(j, "loaded")
  /\ UNCHANGED <<failures, gameVars, row, answer, gridVars>>

AfterNotify(j) ==
  Leave(j, IF TeamsChanged(existing[j], answer[j]) THEN "names" ELSE "idle")

UpsertSportsEvent(j) ==
  /\ pc[j] = "loaded"
  /\ row' = Upserted(row, answer[j])
  /\ missed' = (missed \/ (linked /\ existing[j] # None /\ existing[j].teams # row.teams))
  /\ IF existing[j] # None /\ SportsEventDataChanged(existing[j], answer[j]) THEN Goto(j, "notify") /\ UNCHANGED <<answer, existing>>
     ELSE AfterNotify(j)
  /\ UNCHANGED <<failures, gameVars, teamsKnown, linked, names, colors, edit>>

\* LiveUpdates goes on from here; a failure is only logged.
NotifySportsEventUpdated(j) ==
  /\ pc[j] = "notify"
  /\ AfterNotify(j)
  /\ UNCHANGED <<failures, gameVars, teamsKnown, row, gridVars>>

\* SyncGridsFromEvent: two statements, each of which reads the row of the event.
SyncGridNames(j) ==
  /\ pc[j] = "names"
  /\ names' = IF linked THEN row.teams ELSE names
  /\ Goto(j, "colors")
  /\ UNCHANGED <<failures, gameVars, teamsKnown, row, answer, existing, linked, colors, edit, missed>>

SyncGridColors(j) ==
  /\ pc[j] = "colors"
  /\ colors' = IF linked THEN row.teams ELSE colors
  /\ Leave(j, "idle")
  /\ UNCHANGED <<failures, gameVars, teamsKnown, row, linked, names, edit, missed>>

\* Whether the job still has to bring the grid up to date.
OwesGrid(j) == pc[j] \in {"names", "colors"} \/ (pc[j] = "notify" /\ TeamsChanged(existing[j], answer[j]))

\* A request or a statement fails, and the job goes on with another game, or
\* the job is killed.
Fail(j) ==
  /\ pc[j] # "idle"
  /\ failures < MaxFailures
  /\ failures' = failures + 1
  /\ missed' = (missed \/ (OwesGrid(j) /\ linked))
  /\ Leave(j, "idle")
  /\ UNCHANGED <<gameVars, teamsKnown, row, linked, names, colors, edit>>

-----------------------------------------------------------------------------
\* postPoolTokenGridIDEndpoint, action save, with the names and colors left to
\* the event: read first, written with the rest of the grid later.

LoadEventForGrid ==
  /\ edit = None /\ row # None
  /\ \/ edit' = row.teams
     \/ linked /\ row.status # "final" /\ edit' = "unlink"
  /\ UNCHANGED <<failures, gameVars, teamsKnown, row, jobVars, linked, names, colors, missed>>

\* A grid that follows no event keeps names and colors of its own.
SaveGrid ==
  /\ edit # None
  /\ linked' = (edit # "unlink")
  /\ names' = IF edit = "unlink" THEN None ELSE edit
  /\ colors' = names'
  /\ missed' = (edit # "unlink" /\ (missed \/ edit # row.teams))
  /\ edit' = None
  /\ UNCHANGED <<failures, gameVars, teamsKnown, row, jobVars>>

-----------------------------------------------------------------------------
Processing(j) ==
  \/ LoadExisting(j) \/ UpsertSportsEvent(j) \/ NotifySportsEventUpdated(j)
  \/ SyncGridNames(j) \/ SyncGridColors(j)

Job(j) ==
  \/ j = "schedule" /\ (FetchScoreboards \/ SyncTeamSchedules)
  \/ j = "scores" /\ (FinalizeStaleEvents \/ EventsNeedingScoreUpdate \/ FetchScores)
  \/ Processing(j)

Next ==
  \/ Tick \/ Play \/ NameTeams
  \/ SyncTeams
  \/ \E j \in Jobs : Job(j) \/ Fail(j)
  \/ FinalizeFails
  \/ LoadEventForGrid \/ SaveGrid

Spec == Init /\ [][Next]_vars

\* Cron starts the jobs again and again; failures are bounded.
Fairness == \A j \in Jobs : WF_vars(Job(j))

FairSpec == Spec /\ Fairness

-----------------------------------------------------------------------------
\* A final score is the score the game ended with, whichever job was late and
\* whatever it had asked for before (sports_event.go:590, :643).
FinalScoreRight ==
  row # None /\ row.status = "final" /\ row.score # None =>
    Over /\ row.score = ScoreAt(league, moment)

\* The periods whose line scores every answer carries: a team's schedule, from
\* which games of college basketball come, has none (espn_client.go:468).
Carried(lg, setType) == UsesHalves(lg) => setType \in {"final", "all"}

\* The squares an event announces, every set of numbers drawn alike or not yet.
Won(e, config, gridType, pair, other) ==
  GetWinningSquares(e, e, config, gridType, pair, [t \in SetTypes |-> other])

\* The period of a set type is really over, and the block of the square holds
\* the last digits of its score.
RightSquare(square, lg, m, setType, gridType, numbers) ==
  LET digit == ScoreAt(lg, Decides(lg, setType)) % 10
  IN  /\ m >= Decides(lg, setType)
      /\ \E h, a \in Positions :
           /\ numbers.home[h] = digit /\ numbers.away[a] = digit
           /\ Covers(square, gridType, h, a)

\* What an event announces at a moment of the game on a type of board.
AnnouncesRightly(e, m, gridType) ==
  \A config \in {"standard", "123f", "hf"},
     pair \in Numbers, other \in Numbers \cup {None} :
    IsValidNumberSetConfigForLeague(config, e.league) =>
      \A t \in DOMAIN Won(e, config, gridType, pair, other) :
        Carried(e.league, t) =>
          RightSquare(Won(e, config, gridType, pair, other)[t], e.league, m, t, gridType,
                      NumbersFor(config, t, pair, [x \in SetTypes |-> other]))

\* No square is announced as a winner but the one whose block holds the last
\* digits of a period that is really over (winning_squares.go:85), whether the
\* sets have been drawn or not and whichever job wrote the row last.
WinnersRight ==
  row # None => \A gridType \in Boards : AnnouncesRightly(row, moment, gridType)

\* A linked grid shows the teams of its game, or a job is about to see to it,
\* and nothing but three things can make it miss them (main.go:652): a step
\* lost after the row was written, a save of teams that were read before they
\* changed, and a job whose loaded row another one has overwritten.
GridFollowsEvent ==
  linked =>
    \/ missed \/ \E j \in Jobs : OwesGrid(j)
    \/ names = row.teams /\ colors = row.teams

\* Browsers are told of every change of a game that a job makes (main.go:644),
\* however small, and of a change back, unless another process wrote the row
\* after this job had loaded it.
NoSilentChange ==
  [][\A j \in Jobs :
       /\ pc[j] = "loaded" /\ row # None /\ row = existing[j]
       /\ \E f \in {"status", "score", "period", "detail", "lines"} : row[f] # row'[f]
       => pc[j] = pc'[j] \/ pc'[j] = "notify"]_vars

\* A game that is over is final some day, though its row may never be asked
\* for again once it is a day old (sports_event.go:638).
ResultIsRecorded ==
  row # None /\ Over ~> row # None /\ row.status = "final"

\* Within a day the final score is there: an answer that is late may hide it
\* for a while, never for good (main.go:441).
ScoreIsRecorded ==
  row # None /\ Over ~>
    \/ clock = "old"
    \/ row # None /\ row.status = "final" /\ row.score = ScoreAt(league, moment)
=============================================================================
