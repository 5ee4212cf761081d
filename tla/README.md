# SqMGR API: a specification of its behaviour

SqMGR manages football-squares pools. Players claim squares on a 10x10 board
(or 25, or 100 "roll" squares), managers rename, mark paid and unclaim them,
numbers are drawn, and scores of real games decide who wins. The server is a Go
HTTP API over PostgreSQL at READ COMMITTED. Two cron jobs (guest clean-up and
sports synchronisation) work on the same database. This directory holds TLA+
modules of the parts where the order of steps matters, configurations that
check them with TLC, and proofs checked by TLAPS.

Paths below are relative to `src/`.

## 1. Inventory

| part | state it keeps | operations | how it meets the others |
| --- | --- | --- | --- |
| squares of a pool (`internal/server/endpoints_pool.go` 921-1256, 1818-1989, `pkg/model/pool_square.go`, `sql/0032`) | a row per square: state, claimant, owner, parent | claim, claim of two, unclaim, rename, manager's change of state, bulk edit | the middleware's copy of the pool, row locks, an event after the commit |
| access (`poolHandler` 48-92, `poolManagerHandler`, `auth.go`) | the request's copy of pool and user | load the pool, test membership, test manager | its copy is used to the end of the request |
| grids (`pkg/model/grid.go`, `sql/0003`, `sql/0007`) | a row per grid: state, order, teams, linked event | create, save, delete, reorder | limit per pool and at least one grid, kept by SQL functions under locks |
| numbers (`grid.go` 405-678, `grid_number_set.go`) | drawn numbers of a grid, or of each of its periods | draw at random, draw by hand | change of configuration only before a draw |
| settings, members, invites (`pool.go`, `user.go`, `pool_invite.go`) | the pool's row, pools_users, invites | lock, rename, password, check ID, join, leave, invite | `Pool.Save` writes every column of a loaded copy |
| events to browsers (`broker.go`, `sse.go`, `listener.go`) | subscribers per pool, channels of 16 events, pg_notify connection | subscribe, publish, unsubscribe, re-connect | called after every commit; hears the sports job through the database |
| sports synchronisation (`cmd/sqmgr-sports-sync`, `sports_event.go`) | teams, events, scores, log of runs | fetch, upsert, notify, copy teams to grids, finalise stale events | another process; reaches the API by pg_notify |
| winning squares (`winning_squares.go`) | none | numbers and scores to squares | pure |
| rate limiter (`ratelimit.go`), key cache (`keylocker`), guest users | visitors, keys, guests with an expiry | look up, expire, clean up | in front of the handlers, or a job of their own |
| users, tokens, administration, annotations, grid settings | rows | single statements | little ordering |
| ESPN client, start-up, migrations, deployment | none | I/O | inputs |

What is hard here:

* **Copies grow stale.** A handler loads pool, square or grid, decides, and
  then writes the whole image back. Nothing has a version column.
* **Transactions are small and READ COMMITTED.** Each statement sees what was
  committed when it began. Only `update_pool_square`, `new_grid` and
  `delete_grid` take row locks, and `FOR SHARE` followed by `UPDATE` can
  deadlock with itself.
* **Requests stop anywhere.** A transaction begun with `r.Context()` is rolled
  back when the client leaves; a bulk edit then stops between two squares.
* **What follows a commit may be lost.** Events, notifications and the
  synchronisation of grids come after the write that caused them.

What makes each part correct:

* squares: nobody loses a square to another player; a square is free with
  nothing left over or taken with owner and name; the two squares of a roll
  claim live and die together; every request ends.
* grids: never fewer than one active grid, never more than the limit, an order
  without ties; a deleted grid stays deleted.
* numbers: drawn once, a permutation per side, configuration fixed afterwards.
* settings: a changed password or check ID shuts out the old links for good; a
  lock is kept until it is lifted by somebody who saw it.
* events: a browser that stays subscribed and keeps up hears of every commit
  after it subscribed; no send on a closed channel.
* sports: a linked grid shows its event's teams; a final score is the right
  one and is recorded.
* winning squares: one square per finished period, that of the last digits.

The hazards are listed line by line in `PROJECT.json`, each with the
properties that would catch it or the reason why none can.

## 2. Modules

| module | what it holds |
| --- | --- |
| `PoolSquares` | the requests on the squares of a pool, statement by statement |
| `SquareBoard` | what the squares promise: a board that changes in atomic steps |
| `MCPoolSquares` | the sets the configurations use |
| `PoolSquaresProofs` | type correctness |
| `PoolSquaresSafety` | the inductive invariant and the safety theorems |
| `PoolSquaresBoard` | that the requests implement `SquareBoard`, and that families stay together where requests do not overlap |
| `PoolGrids` | the grids of a pool, their numbers, and the requests on both |
| `MCPoolGrids` | the sets the configurations use |
| `PoolGridsProofs` | type correctness, and that a grid stays active |
| `PoolGridsSafety` | number sets, the limit and the place of a new grid |
| `LiveUpdates` | event streams, broker, listener, signing keys and shutdown |
| `MCLiveUpdates`, `LiveUpdatesProofs` | its instance, its safety theorems |
| `WinningSquares` | periods, scores and squares, as operators |
| `SportsSync` | a game, the jobs that follow it, its row and a linked grid; uses `WinningSquares` |
| `MCSportsSync`, `SportsSyncProofs` | its instance, its safety theorems and those of `WinningSquares` |
| `PoolMembers` | the settings, invites and members of a pool, and guests |
| `MCPoolMembers`, `PoolMembersProofs` | its instance, its safety theorems |

A module holds what meets in memory or in one table. The modules meet at
narrow places. A commit of `PoolSquares`, `PoolGrids` or `PoolMembers` is a
`Change` of `LiveUpdates`, and `NotifySportsEventUpdated` of `SportsSync` is its
`Notify`. What `poolHandler` lets into `PoolSquares` is a member of
`PoolMembers`. `SportsSync` and `PoolGrids` both write grids, but different
columns of them.

### PoolSquares and the code

A *request* is a slot that the server uses for one HTTP request after another
(`Reusable`) or for one only. Its life is `pc`:

* `idle` to `handler` by `Begin`: `poolHandler` loads the pool. What the
  handler later asks of that copy, `IsLocked()`, is kept in `sawLocked`.
* `handler` to `tx` by `Rename`, `Claim`, `Unclaim` or `Manage`, the four
  branches of `postPoolTokenSquareIDEndpoint`: the square is loaded (one
  query), checked and changed in memory, and a transaction begins. `Reject`
  stands for the early returns.
* `handler` to `list` by `BeginBulk`, then `BulkSquare` loads and checks one
  square and opens its transaction, or skips it; `EndBulk` answers.
* in `tx` the handler's remaining statements are `todo`. A save is
  `SelectForShare` (the `SELECT ... FOR SHARE` of `update_pool_square` and its
  test; `AlreadyClaimed` when the test fails) and then `Update`. The link to a
  parent and the search for children are statements of their own; the children
  found are saved after the rest, in the order of the code.
* `Commit`, `Rollback`, `Cancel` (the context ends, or the database fails) and
  `DeadlockDetected` end the transaction.

The database is `rows` (committed), `pend` (written, not committed) and `share`
(row locks held). An `UPDATE` needs a row on which nobody else holds a lock,
`FOR SHARE` one nobody else has written: PostgreSQL's rules, taken from what the
code uses of them, and marked external in the map. A request that waits has no
enabled statement.

Two simplifications are worth knowing. A row's numeric id is its square number
(each pool has one row per number). Log rows, notes and addresses are left out:
no decision reads them. A manager's status does not change during a run, for the
handlers ask for it once; the square's load and the decision on it are one
step, since nothing in the database lies between them except that query of
`IsManagerOf`. The insert of the log row and the `UPDATE` are one step.

`SquareBoard` has four moves: take a free square, take two free squares, give
up unpaid claims of one's own, and a manager's rewriting, which never links
squares.

### PoolGrids and the code

A request takes its copy of the pool (`Begin`, `mine`), loads a grid and, in the
same step, starts a transaction of statements (`RunTx`, `todo`), or readies a
changed copy of the pool to be saved (`SavePool`). The load of the grid and the
start are one step, since nothing but the copy connects them; what the copy
holds is in the statement, which may run much later.

* `Create` and `Delete` run `new_grid` and `delete_grid`. `Perform` begins
  `perform from grids ... for update`: the rows to lock are those committed at
  that moment. The function goes on when it can have them all (`Locked`),
  counts anew, and inserts or marks (`NewGrid`, `DeleteGrid`) or raises
  (`GridLimit`, `LastGrid`). A grid committed during the wait is counted but
  not locked, as in PostgreSQL. `NewGrid` includes the `UPDATE` of the new row
  by `Grid.Save`, for nobody else sees the row before the commit.
* `Edit` and `Draw` write a whole loaded row back (`SaveGrid`). `Reorder` reads
  every place and updates those that differ (`UpdateOrd`, `KeepOrd`).
* `DrawSets` inserts a row per set type (`InsertSet`): the unique key on grid
  and type waits for another transaction's insert, and fails by `Stop` if that
  one commits.
* After a draw the handler may save its copy of the pool with a lock on it
  (`PoolSave`); the change of configuration saves its copy too.
* `Stop` is any way a request ends without a commit: an early return, an error, a
  client gone, a deadlock broken.

A drawn pair of number lines is one value of `Draws`. Teams, labels, dates,
settings and the linked event of a grid are left out. So is the foreign key's
lock on the grid of a number set: it makes draws wait for deletions, and the
model allows more interleavings without it.

### LiveUpdates and the code

A stream's `at` is where `getPoolTokenEventsEndpoint` is: checking the token
(`Open`, and for an unknown key `keyWait` and `fetching`, the two sides of
`fetchMu`), `admitted` while pool and membership are looked up, `subscribe` and
`unsubscribe` while it wants the broker's write lock, `loop` in between.
`Refuse` and `KeyMissing` are the early returns.

The broker's maps are `subscribers`, and a channel is the number of events it
holds (`queue`). Its RWMutex follows the rules of package `sync`: a writer is
announced first (`writer`), readers that come later wait (`queued`) and are let
in by the writer's `Unlock`. `Publish` holds the read lock while it goes from
channel to channel in any order (`Send`), and a full channel drops the event
(`Enqueued`).

The publishers are the handlers, at the nine places where `Publish` is called
after a write, and the listener. `Change` is the commit, `RLock` the call, and
`FailAfterChange` a handler that returns between the two
(`endpoints_pool.go` 331-344). `due` is history: whose changes the client of one
stream, `Observed`, has not been told of. It ends with a delivered event,
because a client loads the pool anew whatever the event says; kinds of
events are therefore not told apart. It also ends where the code gives up: a
handler that fails after its write, a lookup that fails, a listener that
closes. Notifications that PostgreSQL sends while the connection is down are
among those (`DropNotification`): nothing tells a browser of a reconnection.

The headers of a stream are flushed before it subscribes, so a client may see
its stream open and miss an event that comes right then. `due` starts with the
subscription. A stream stays open after its user has been removed from the
pool: membership is looked at once.

`main` closes the listener, waits for the requests, and closes the database
(`CloseListener`, `CloseDatabase`). `srv.Shutdown` is called without a deadline
and waits for the streams too: as long as a browser keeps one open, the process
does not end. `StopsOnceClientsLeave` says just what can be said.

The keys in the cache never expire, and a fetch that was waited for is made
again for the next waiter, which does not look into the cache once more: both
are in the model as they are in the code.

### WinningSquares, SportsSync and the code

`WinningSquares` holds `GetSetTypes`, `IsPeriodComplete`, `ScoreForPeriod`,
`CalculateWinningSquare` and `GetWinningSquares` under their own names. An
event is a record seen by one team at a time. The reference they are held to is
`Covers`: how the players see the board, squares numbered row by row, each
covering a block of positions.

`SportsSync` follows one game, for games do not interact, and the scores of one
team. The game is external: `Play` goes from one of the `Moments` to the
next, `Tick` passes the limits that the queries ask for (within two hours
before, within a day after, older). A job is a process with a place (`pc`):

* `FetchScoreboards`, `SyncTeamSchedules` or `FetchScores` ask ESPN; what
  `parseEvent`, `parseScheduleEvent` and `parseSummaryEvent` make of the answer
  is `answer`. ESPN may use any status that `EventStatus` tells apart.
* `processEvent` loads the row (`LoadExisting`), upserts with COALESCE
  (`UpsertSportsEvent`, `Upserted`), notifies if something changed, and copies
  teams to the grids if they changed, names and colors in two statements.
* The scores job begins with `FinalizeStaleEvents` and asks only for games
  that need it.
* `Fail` loses the rest of the work on this game, at any place.

The two jobs overlap each other and never themselves (`concurrencyPolicy:
Forbid`). The grid is one that leaves names and colors to the event: a save
reads the teams (`LoadEventForGrid`) and writes them later (`SaveGrid`).
`missed` is history and names the only three ways such a grid can miss its
teams: a lost step, a save of teams read before they changed, and a job whose
loaded row another one had overwritten.

Four things the code does are visible in the model and in no property, because
nothing in the repository says otherwise. The schedule of a college team
carries no line scores (`espn_client.go` 468) and the upsert keeps the older
ones, so the half of such a game may be decided by a sum taken within it, or by
none; `Carried` leaves that half out of `WinnersRight`. `FinalizeStaleEvents`
changes rows without a notification. A failed notification is logged and not
repeated. Of two overlapping jobs each compares with a row the other has
written since, so that a change may be announced by neither.

### PoolMembers and the code

A request of the owner loads the pool's row (`LoadPool`, `copy`), and executes
its statements one at a time (`Save`, `RemoveAllMembers`, `ActiveInvite`,
`NewPoolInvite`), or stops before any of them (`Fail`). `Save` writes the
whole row as it was loaded, with one setting changed (`Applied`). Settings
nobody is let in by are the setting `rename`, which shows that a copy is written
back even so. Nothing in the code but tests calls `SetManagerOf`, so only the
owner manages.

Everybody else is let in by something (`LetIn`: a link, a password, an open
pool, administration, a guest's membership taken over) and inserted into
`pools_users` by a later statement (`JoinPool`). The links with a JWT and
those with a token work alike, by the check ID they carry; they are the
`invites`. A guest's account expires with its JWT (`GuestExpires`), its row is
removed later (`CleanUpGuest`).

`via`, `revoked`, `banned`, `stragglers` and `overlapped` are history:
what let each member in, what a change of the password has made worthless, whose
holders a reset has removed, who had been let in and not yet inserted at that
moment, and whether a request has written over what another one wrote since it
loaded. The last is the weakness of `Pool.Save`: two requests of the owner that
overlap undo each other, and a revoked link works again if the second one had
loaded the row before the first changed it. The properties say what holds as long as
that has not happened, which includes any overlap of joins, failures and
expiries with one change.

## 3. Runs

| run | properties | what it shows |
| --- | --- | --- |
| `squares_serial` | `TypeOK`, `FamiliesIntact` | one request after another: no sequence of any length separates a secondary from its primary |
| `squares_races` | `RowsConsistent`, `WritersAreAlone`, `OnlyOwnerOrManager`, `ImplementsBoard` | two requests at once, for ever: rows stay consistent, locks exclude, nobody loses a square, every commit is one step of the board |
| `squares_live` | `EveryRequestEnds` | overlapping requests with opposite lock orders: all are answered |
| `squares_rename` | `SameNameAsPrimary` (violated) | a rename on a stale copy frees the primary and renames only the secondary |
| `squares_locked` | `LockedMeansManagersOnly` (violated) | a claim commits after the pool is locked |
| `grids_all` | `TypeOK`, `AlwaysAGrid`, `NumberSetsWhole` | every kind of request, two at a time, for ever: one grid stays active, number sets are complete or absent and of one configuration |
| `grids_counted` | `WithinLimit`, `NewGridComesLast` | creations and deletions, three at a time: the limit holds and places are distinct |
| `grids_revived` | `WithinLimit` (violated) | an edit of a stale copy brings a deleted grid back over the limit |
| `grids_redrawn` | `NumbersStay` (violated) | of two draws the second replaces the first |
| `live_all` | `TypeOK`, `NoSendOnClosed`, `ToldSoon`, `NobodyUsesClosedDatabase`, `EveryClientIsTold`, `EveryStreamIsAnswered`, `StopsOnceClientsLeave` | streams, publishers, keys and a shutdown in any order: no send on a closed channel, a dropped event is not a missed change, the database is closed last, nobody waits for ever |
| `sync_all` | `TypeOK`, `FinalScoreRight`, `WinnersRight`, `GridFollowsEvent`, `NoSilentChange`, `ResultIsRecorded`, `ScoreIsRecorded` | two jobs, late answers and a lost step: results are right and recorded, winners are those of the last digits, changes are announced, the grid follows the teams |
| `members_all` | `TypeOK`, `RevokedStaysRevoked`, `ResetEmpties`, `HandedOutLinkWorks`, `GuestStaysOut` | two requests of the owner against everybody who wants in: what is revoked stays so, a reset empties the pool, links work, expired guests stay out |

**Bounds.** No counter is bounded: the state space of each run is finite by
itself, and requests are reused without end in the safety runs.
`squares_serial` has three squares, so a family has an outsider and a bulk edit
of two squares may hit a family, two users beside a manager, two names and one
slot. `squares_races` has two slots: conflicts here are between pairs (a lock
has one waiter and one holder, a stale copy one reader and one writer). It has
two squares, which is a whole family and the least for a deadlock in opposite
order, and two names to tell an old copy from a new one. A player and a manager
suffice, for the manager claims as a player does, and players are alike
otherwise. The lock and bulk edits are left to the other runs to keep it
within minutes. Payments are `unclaimed` and `paid-full`; `paid-partial`
takes the same paths. The slots are interchangeable (symmetry) in the safety
runs, never in `squares_live`.

The runs of `PoolGrids` bound the table of grids, for ids are not used twice:
`GridIds` ends creation when all are given out. `grids_all` has two grids and a
limit of two, so that the last grid and a full pool both occur, and the
configurations with several sets, which share the type `final`.
`grids_counted` has four grids, a limit of two and three slots: a deletion, and
two creations that race for the place it leaves. Only creations and deletions
arrive there, because edits break the limit (`grids_revived`) and reorders may
give one place twice. `grids_revived` and `grids_redrawn` have the kinds of
request that their behaviour takes. Grid ids and slots are interchangeable in
all four.

`squares_live` has two slots, each used once: a client may always send another
request, so a reused slot asks the same question again. There the system does
stop when everything is answered, and deadlock checking is off for that reason.
In the other passing runs a slot without a next step would be reported.

`live_all` has two streams on one pool, a handler and the listener, an event linked
to the grids of two pools (so that the listener's loop goes on after one), one
key, and a buffer of one event. With 16 as with one, what matters is full, not
full and empty, and the proofs hold for any capacity; two streams are what
it takes to have one leave while another is sent to, and a writer
while another waits. `MaxInbox` is one: notifications are alike. Deadlock
checking is off, because the process stops in the end.

`sync_all` has the league of quarters and the one of halves, a game that is asked
about before, within and after (an odd moment is within a period, the last one
after an overtime), one failure of any kind (`MaxFailures`), one pair of
lines, and the board of 50 squares, whose two directions differ. One failure is
enough to lose any one step. The run
begins on the day of the game: what comes earlier differs in the queries of
the scores job alone.

`members_all` has two requests of the owner, which is what an overlap takes, a guest,
an administrator, and two invites, so that both requests can create one.
Three requests take more than the time a run may have. Requests are used once,
for a request is what a password is named after, and check IDs would grow
without end. The settings left out (`unlock`, `required`, `noAccessOnLock`,
`rename`) are the inverses of others or change nothing; the theorems cover them.
Invites are interchangeable.

**Fairness.** Weak fairness for each request, of its handler, of its
statements, and of the deadlock detector. The Go runtime runs every goroutine
and PostgreSQL breaks every cycle of waiting transactions (`deadlock_timeout`).
Waiting needs no strong fairness in that run, because no further requests arrive
to overtake the waiter. Nothing is assumed of clients: `Begin` and `Cancel` have
no fairness.

The runs of `PoolGrids` and `PoolMembers` check safety alone and assume no fairness.

In `live_all` goroutines run (weak fairness). The locks have strong fairness: a
`sync.Mutex` that is released over and over is handed to whoever has waited
longest (its starvation mode), and an `RWMutex` lets waiting readers in when the
writer unlocks, which the model has as part of `Unlock`. The listener's return has
strong fairness, because a `select` chooses at random among the channels that
are ready. Nothing is assumed of clients, of PostgreSQL's notifications or of
whoever ends the process. In `sync_all` cron starts each job again and again and
each job goes on (weak fairness per job); failures are bounded, so that a job gets
through at some point. Nothing is assumed of the game, of time, of `SyncTeams`
or of the grid's owner.

**Four divergences.** All are stated by comments of the repository and refuted
by what the code does; `PROJECT.json` quotes them. The lock (`endpoints_pool.go`
966) is tested on the copy the middleware loaded. The rename (1052) saves the
state of a copy loaded before its transaction. The limit of grids (`pool.go` 36)
is passed when a save writes the state of a copy of a grid that was deleted
meanwhile. The rule that numbers are drawn once (`grid.go` 41) is tested on a
copy as well.

The pool's row has the same weakness: the change of the number set configuration
tests the grids and then saves, and a draw's save of the pool writes its older
copy. `NumberSetsWhole` holds all the same, because of the unique key and the
type `final` that both configurations have.

Overlapping requests of a single user can separate a family as well: a user's
unclaim reads the children before it locks the primary. The code promises
nothing about it, and `FamiliesIntact` is therefore checked and proved for
requests that do not overlap.

## 4. Proofs

`PoolSquaresProofs!TypeCorrect` proves `Spec => []TypeOK`;
`PoolSquaresSafety` proves `RowsStayConsistent`, `LocksExclude` and
`OwnersKeepTheirSquares`, which are `RowsConsistent`, `WritersAreAlone` and
`OnlyOwnerOrManager` for any users, managers, squares, names, payments, bulk
lists and number of overlapping requests. They assume `SquaresAssumption` (the
constants are of the sorts their names say; square numbers are naturals, for the
children are read in their order, and finitely many) and `NoneAssumption` (the
null value is no user, name, square, state, row or job).

None of the properties is inductive. The invariant `SafetyInv` adds:

* `TypeOK`.
* *Phases*: statements, written rows and locks exist only while a transaction
  runs, a user is known while a request runs, bulk jobs are managers'.
* *Locks*: what is written is locked, a row about to be updated is locked, and
  a written row has no second holder of a lock. `WritersAreAlone` alone says
  nothing of a row between its check and its update; that an update keeps
  others' locks away needs the lock taken before.
* *Data*: committed and written rows are consistent, and so is every image a
  statement carries. A save is only as good as the image the handler loaded,
  so the consistency of rows has to be carried through the copies.
* *User*: a transaction without manager's rights has loaded nothing it may not
  change. Between check and update the row is still free, or still the
  owner's unpaid claim, because of the lock; and each row it has written was so
  when it wrote it, and still is in `rows`.

The proof of each part takes the actions one by one: a lemma says what the
program of each handler looks like, one that a request touches only its own
entries, and one per statement. `OnlyOwnerOrManager` follows from the last part:
only `Commit` changes rows.

`PoolSquaresBoard` goes on from `SafetyInv`. `CommitsAreBoardSteps` is
`ImplementsBoard`, the refinement: every commit is one step of `SquareBoard` and
every other step stutters. For a claim the board asks that its squares are
free at the instant it commits, and `SafetyInv` does not tell that. `BoardInv`
follows a claim through its stages (asked, first square checked, first taken,
second checked, both taken, linked) and says for each what has been written and which
locks are held on free rows; a share lock keeps a row free, since whoever wants
to write it has to wait. A second square that is the first one again
never passes its check, for the transaction reads its own write: so the two
squares of `TakeTwo` differ, although no line of the handler compares them. Of other
transactions it says that a user's unclaim writes free rows only and that a
manager's request links nothing. Each of the three kinds has a lemma for its commit.

`FamiliesStayTogether` is `FamiliesIntact` and assumes `OneAtATime`, that requests
do not overlap (section 3 says why). Between the statements of a transaction
the rows it has written are in no order a property could use: a primary is
renamed and its secondary is not. `FamilyInv` therefore speaks of the end. It says that
there are rows `T` whose families are intact and to which every statement left
still leads (`LeadsTo`): each square is saved by one statement at most, itself or as a
child that has not been read yet. A handler is shown to begin so (`FamiliesFreed`,
`FamiliesRestated`, `FamiliesRenamed` for what it sets out to do), each
statement keeps `T` as it is, and the commit makes it the rows. Claims do not
need `T`: the refinement says what they commit. TLC has checked `FamilyInv` on the
instance of `squares_serial` before it was proved.

`PoolGridsProofs` proves `GridsTypeCorrect` and `KeepsAGrid`, that is `TypeOK` and
`AlwaysAGrid`, for any limit, any finite set of grid ids and any number of
requests. They assume `GridsAssumption` and `NoneAssumption`. `AlwaysAGrid` is
not inductive: a deletion counts the grids in one step and commits in another.
The idea of `GridsInv` is a grid `F` that was there from the start. Rows are
never removed, so every transaction that counts locks the row of `F` too, and
holds it until its commit:

* *PhaseInv*: statements, written rows and locks exist only in a transaction.
* *TodoInv*: a statement names grids there are, writes back active copies only,
  locks `F` if it is to lock at all, and then comes alone and first.
* *LockInv*: locks exclude, and what is written is locked.
* *DeletionInv*: a row that is about to become deleted was deleted before (a
  reorder of a deleted grid), or its writer holds `F`, has nothing else to do
  and leaves another active grid. That grid stays active: only another deletion
  could take it, and that one would hold `F` too.

There is one lemma for each way a step changes the state (a transaction starts,
ends, goes on, updates a row, looks up rows, counts, commits), and the actions
are instances of them.

`PoolGridsSafety` goes on from `GridsInv`. `NumberSetsComeTogether` is
`NumberSetsWhole` for every combination of requests. Its `SetsInv` says of each draw
that what it has inserted and what it has still to insert are together the
sets of one configuration, and that no row is inserted twice or while it is
there (the unique key). A draw that commits finds the grid without sets: both
configurations end in `final`, so any set of one of them that was there
has brought its `final` along, which the draw could not have inserted.

`LimitIsKept` is `WithinLimit` and assumes `NoCopies`, that no request writes a loaded
copy of a grid back; without it the property is false (`grids_revived`).
`NewGridsComeLast` is `NewGridComesLast` and assumes `NoMoves` too, for a
reorder may put another grid in any place. `LimitInv(F)` uses the grid `F`
again: a row that is about to appear belongs to a creation that holds `F`,
counted fewer grids than the limit and found the last place, and both remain
true until it commits, because nobody else creates while it holds `F`; any other
row that is written does not become active by it.

`LiveUpdatesProofs` proves the four invariants of `live_all`, for any number of
streams, handlers, pools and keys and any capacity, from `LiveAssumption`.
`NoSendOnClosed` is inductive with `TypeOK`: a writer closes a channel only when
nobody holds the read lock, and only its holders have channels left to reach.
`ToldInv` strengthens `ToldSoon`: only streams in the loop or about to leave it are
in the broker's maps, only a subscriber is owed anything, by the listener only
about a pool of the event, and what is owed is under way whether the client is
there or not, since a client that is gone is told apart by nobody but its own
stream. `StopInv` carries through the shutdown that the listener is done and, at
the end, that no handler is left.

`SportsSyncProofs` proves `TypeOK`, `FinalScoreRight`, `GridFollowsEvent` and
`NoSilentChange`, for all five leagues, any number of overtimes, moments and
failures, from `SyncAssumption`. `SyncInv` says of what a job has been told that it
is *tellable*: it may be from an earlier moment of the game, but where it says
how the game ended, it ended like that. Scores only grow (`ScoresGrow`), so
what was tellable stays so. `GridInv` takes `GridFollowsEvent` apart: names and colors are
written by two statements, and between them another job may change the teams again,
so each of the two has a job of its own that owes it.

`OneSquareWins` is about `WinningSquares` alone: for every pair of scores, drawn
lines and type of board the calculation yields the one square whose block holds
the last digits. That each digit is on each line uses the cardinality
of the two (an injection of ten positions into ten digits).

`WinnersAreRight` is `WinnersRight`, and joins the two: which squares win is
computed from the line scores of a row that two jobs have merged from answers
of different moments. `LinesInv` says, for leagues that play quarters, that what
the row and every answer say of the periods was so at one moment the game has
reached (`WasSo`): the period, its detail, and all the points of the periods that
were over then. So what `IsPeriodComplete` takes for over was over at that moment, and
its sum is final (`DecidedScore`). The exception is a game finalised as stale that
nobody followed: it has no lines, and announces nothing but its end. For leagues in
halves the property speaks of the end alone, which is `FinalScoreRight`.
`SquareOfScore` then turns a right score into a right square. Proving it
showed two `CASE`s with overlapping guards, in `Cumulative` and `LinesAt`: TLC
takes the first that applies, the language does not say which. They are
conditionals now, in the order of the code.

`PoolMembersProofs` proves all five properties of `members_all`, for any number of
users, requests and invites and all settings, from `MembersAssumption`. The
strengthening, `MembersInv`, adds which statements belong to which setting and
`Behind`: as long as nothing has been written over, whatever is revoked lies
behind the pool, a link by its check ID, a password because each request sets
another one and a request that has set its own will not set it again. `EmptiedInv`
extends `ResetEmpties` to those who are let in and not inserted yet.

Left to TLC: the liveness properties `EveryRequestEnds`, `EveryClientIsTold`,
`EveryStreamIsAnswered`, `StopsOnceClientsLeave`, `ResultIsRecorded` and
`ScoreIsRecorded`, for the proof system does not reason about liveness under
fairness. Every invariant and every action property of a passing run is a
theorem. Induction over data is not available to it either; the sequences of
statements are taken apart by head and tail instead.

## 5. Plan

Done: squares, grids and numbers (`PoolSquares`, `PoolGrids`), settings, members
and invites (`PoolMembers`), events (`LiveUpdates`), the sports synchronisation and the
winning squares (`SportsSync`, `WinningSquares`), keys, guests and the
shutdown within those modules.

What would come next:

1. Which separations overlapping requests can cause, as a weaker form of `FamiliesIntact`
   that holds for them too.
2. The pool of thirty database connections, of which an unclaim needs two.
3. `GetWinningPeriodsForSquare` and the validation of numbers entered by hand, pure
   operators beside `WinningSquares`.

## 6. Not modelled

* The rate limiter: a token bucket of a library and the time of day. Its check and its
  count are two steps, so overlapping requests may pass together; nothing
  says how exact it is.
* JWT and JWKS verification, JSON, validation of texts, HTTP: inputs are taken as parsed.
* The quota of pools per user: it is counted before the pool is inserted
  (`endpoints_pool.go` 537), so that two requests may pass it together.
* The take-over of a guest's pools is modelled for one pool; the handler joins up to 25 of them
  one by one and stops at the first failure.
* Names, logos, venues and dates of teams and games; `sports_sync_log` and
  `pool_squares_logs`, which nothing reads back into a decision.
* Annotations, labels and branding: single-row writes without a relation to other state.
* Users, tokens and the administration's statistics: single statements and reads.
* Configuration, migrations, deployment and start-up.

## 7. Running

    tlc -config SquaresRaces.cfg MCPoolSquares.tla
    tlc -config GridsAll.cfg MCPoolGrids.tla
    tlapm PoolSquaresSafety.tla
    tlapm PoolSquaresBoard.tla
    tlc -config LiveAll.cfg MCLiveUpdates.tla
    tlc -config SyncAll.cfg MCSportsSync.tla
    tlc -config MembersAll.cfg MCPoolMembers.tla
    tlapm PoolGridsProofs.tla
    tlapm PoolGridsSafety.tla
    tlapm PoolMembersProofs.tla
    tlapm SportsSyncProofs.tla

`squares_races` visits about 2.8 million states and takes about two minutes on
two cores, `grids_all` 2.4 million in one minute, `members_all` 2.6 million in
a little more, `sync_all` 0.5 million and `live_all`, with its three
liveness properties, 0.2 million in two minutes each; the others take seconds.
