----------------------------- MODULE PoolSquares -----------------------------
(***************************************************************************)
(* The squares of one pool and the HTTP requests that change them.         *)
(*                                                                         *)
(* A request reads the pool row in its middleware (poolHandler), reads the *)
(* square in its handler, and then saves what it holds in memory inside a  *)
(* READ COMMITTED transaction: each save is a call of the SQL function     *)
(* update_pool_square, which first reads the row FOR SHARE and checks it,  *)
(* and then updates it.  Every one of these reads and writes is a step of  *)
(* its own here, so that requests interleave wherever they do in the       *)
(* program.  What a transaction has written stays in pend until it         *)
(* commits; the row locks it holds are released when it ends.              *)
(***************************************************************************)
EXTENDS Integers, Sequences, FiniteSets

CONSTANTS
  Users,        \* the users of the pool
  Managers,     \* the users for whom user.IsManagerOf(pool) is true
  Squares,      \* the numbers (square_id) of the pool's squares
  Names,        \* valid claimant names
  Requests,     \* the requests the server handles at the same time
  Reusable,     \* requests that are followed by another one when they end
  Endpoints,    \* the kinds of request that arrive (all of them, or a part)
  Payments,     \* the values of payload.State a manager may send
  BulkLists,    \* the lists of squares a bulk request may name
  Roll100,      \* TRUE when the pool's grid type is roll100
  None          \* SQL NULL, an absent payload field, a row not written

States == {"unclaimed", "claimed", "paid-partial", "paid-full"}

Kinds == {"rename", "claim", "unclaim", "manage", "bulk", "lock"}

ASSUME SquaresAssumption ==
  /\ Squares \subseteq Nat
  /\ IsFiniteSet(Squares)
  /\ Managers \subseteq Users
  /\ Reusable \subseteq Requests
  /\ Endpoints \subseteq Kinds
  /\ Payments \subseteq States
  /\ BulkLists \subseteq Seq(Squares)
  /\ Roll100 \in BOOLEAN

\* A row of pool_squares, the columns update_pool_square writes.
Row == [state : States, claimant : Names \cup {None}, owner : Users \cup {None},
        parent : Squares \cup {None}]

\* What the handler holds in memory for a square and passes to Save.
Image == [state : States, claimant : Names \cup {None}, owner : Users \cup {None}]

EmptyRow == [state |-> "unclaimed", claimant |-> None, owner |-> None, parent |-> None]

\* The statements a handler still has to run in its transaction.  "save" is the
\* SELECT ... FOR SHARE of update_pool_square, "update" the UPDATE that follows
\* it, "link" is SetParentSquare and "children" is ChildSquares with the change
\* the handler makes to every child it returns (a new name, or None to unclaim).
Statement ==
  [do : {"save", "update"}, sq : Squares, to : Image, mgr : BOOLEAN]
    \cup [do : {"link"}, sq : Squares, to : Squares]
    \cup [do : {"children"}, sq : Squares, to : Names \cup {None}, mgr : BOOLEAN]

\* A bulk request: its action, its payload, and the squares still to be done.
BulkJobsOver(names, states, lists) ==
  [act : {"claim"}, name : names, state : {"claimed"}, left : lists]
    \cup [act : {"unclaim"}, name : {None}, state : {"unclaimed"}, left : lists]
    \cup [act : {"set_state"}, name : {None}, state : states \ {"unclaimed"}, left : lists]

BulkJob == BulkJobsOver(Names, States, Seq(Squares))

ASSUME NoneAssumption ==
  /\ None \notin Users
  /\ None \notin Names
  /\ None \notin Squares
  /\ None \notin States
  /\ None \notin Row
  /\ None \notin BulkJob

VARIABLES
  rows,       \* the committed rows of pool_squares
  locked,     \* the committed pools.locks lies in the past
  pc,         \* where each request is
  user,       \* who sent it
  sawLocked,  \* pool.IsLocked() of the pool its middleware loaded
  todo,       \* the statements it still has to run
  pend,       \* the rows it has written and not committed
  share,      \* the squares it holds row locks on
  bulk        \* the bulk job it works on, or None

vars == <<rows, locked, pc, user, sawLocked, todo, pend, share, bulk>>

request == <<user, sawLocked, bulk>>
tx == <<todo, pend, share>>

Phases == {"idle", "handler", "list", "tx", "done"}

TypeOK ==
  /\ rows \in [Squares -> Row]
  /\ locked \in BOOLEAN
  /\ pc \in [Requests -> Phases]
  /\ user \in [Requests -> Users \cup {None}]
  /\ sawLocked \in [Requests -> BOOLEAN]
  /\ todo \in [Requests -> Seq(Statement)]
  /\ pend \in [Requests -> [Squares -> Row \cup {None}]]
  /\ share \in [Requests -> SUBSET Squares]
  /\ bulk \in [Requests -> BulkJob \cup {None}]

NothingWritten == [s \in Squares |-> None]

Init ==
  /\ rows = [s \in Squares |-> EmptyRow]
  /\ locked = FALSE
  /\ pc = [r \in Requests |-> "idle"]
  /\ user = [r \in Requests |-> None]
  /\ sawLocked = [r \in Requests |-> FALSE]
  /\ todo = [r \in Requests |-> <<>>]
  /\ pend = [r \in Requests |-> NothingWritten]
  /\ share = [r \in Requests |-> {}]
  /\ bulk = [r \in Requests |-> None]

-----------------------------------------------------------------------------
\* Statements as the handlers build them.

Save(s, image, mgr) == [do |-> "save", sq |-> s, to |-> image, mgr |-> mgr]
Link(s, p) == [do |-> "link", sq |-> s, to |-> p]
Children(s, change, mgr) == [do |-> "children", sq |-> s, to |-> change, mgr |-> mgr]

\* The in-memory square after SetClaimant, State = and SetUserID.
Claimed(u, n) == [state |-> "claimed", claimant |-> n, owner |-> u]
Loaded(row) == [state |-> row.state, claimant |-> row.claimant, owner |-> row.owner]
Unclaimed(u) == [state |-> "unclaimed", claimant |-> None, owner |-> u]

-----------------------------------------------------------------------------
\* The server: a request arrives, and its handler decides what to do.

\* The middleware loads the pool once; the handler keeps this copy to its end.
Begin(r, u) ==
  /\ pc[r] = "idle"
  /\ pc' = [pc EXCEPT ![r] = "handler"]
  /\ user' = [user EXCEPT ![r] = u]
  /\ sawLocked' = [sawLocked EXCEPT ![r] = locked]
  /\ UNCHANGED <<rows, locked, bulk, tx>>

\* Where a request goes when it has been answered: a client may send another.
Answered(r) == IF r \in Reusable THEN "idle" ELSE "done"

End(r) ==
  /\ pc' = [pc EXCEPT ![r] = Answered(r)]
  /\ user' = [user EXCEPT ![r] = None]
  /\ sawLocked' = [sawLocked EXCEPT ![r] = FALSE]
  /\ bulk' = [bulk EXCEPT ![r] = None]

\* Every early return before the transaction: an unknown square, a payload
\* that is not valid, a locked pool, a user who is not a manager.
Reject(r) ==
  /\ pc[r] = "handler"
  /\ End(r)
  /\ UNCHANGED <<rows, locked, tx>>

\* The handler does not look at its copy of the pool again: it is dropped.
BeginTx(r, statements) ==
  /\ pc' = [pc EXCEPT ![r] = "tx"]
  /\ todo' = [todo EXCEPT ![r] = statements]
  /\ sawLocked' = [sawLocked EXCEPT ![r] = FALSE]
  /\ UNCHANGED <<rows, locked, user, pend, share>>

IsManager(r) == user[r] \in Managers

\* The single-square handler answers 403 when the copy of the pool is locked.
MayEdit(r, kind) ==
  /\ kind \in Endpoints
  /\ pc[r] = "handler"
  /\ IsManager(r) \/ ~sawLocked[r]

Rename(r, s, n) ==
  /\ MayEdit(r, "rename")
  /\ IsManager(r)
  /\ rows[s].parent = None
  /\ n # rows[s].claimant
  /\ BeginTx(r, <<Save(s, [Loaded(rows[s]) EXCEPT !.claimant = n], TRUE),
                  Children(s, n, TRUE)>>)
  /\ UNCHANGED bulk

\* second is the square of payload.SecondarySquareID, or None.
Claim(r, s, n, second) ==
  /\ MayEdit(r, "claim")
  /\ second # None => Roll100
  /\ BeginTx(r, <<Save(s, Claimed(user[r], n), FALSE)>> \o
                IF second = None THEN <<>>
                ELSE <<Save(second, Claimed(user[r], n), FALSE), Link(second, s)>>)
  /\ UNCHANGED bulk

\* The children are read before the first save and saved after it.
Unclaim(r, s) ==
  /\ MayEdit(r, "unclaim")
  /\ rows[s].owner = user[r]
  /\ BeginTx(r, <<Children(s, None, FALSE), Save(s, Unclaimed(user[r]), FALSE)>> \o
                IF rows[s].parent = None THEN <<>>
                ELSE <<Save(rows[s].parent, Unclaimed(user[r]), FALSE)>>)
  /\ UNCHANGED bulk

\* A fault: payload.State is stored without asking whether it is valid.
ManageAnyState(r, s, st) ==
  /\ MayEdit(r, "manage")
  /\ IsManager(r)
  /\ rows[s].state = "unclaimed" => st = "unclaimed"
  /\ BeginTx(r, <<Save(s, [Loaded(rows[s]) EXCEPT !.state = st], TRUE)>> \o
                IF st = "unclaimed" THEN <<Children(s, None, TRUE)>> ELSE <<>>)
  /\ UNCHANGED bulk

\* st is payload.State, or None when the manager only writes a note.
Manage(r, s, st) ==
  LET new == IF st = None THEN rows[s].state ELSE st
  IN  /\ MayEdit(r, "manage")
      /\ IsManager(r)
      /\ rows[s].state = "unclaimed" => new = "unclaimed"
      /\ BeginTx(r, <<Save(s, [Loaded(rows[s]) EXCEPT !.state = new], TRUE)>> \o
                    IF new = "unclaimed" THEN <<Children(s, None, TRUE)>> ELSE <<>>)
      /\ UNCHANGED bulk

-----------------------------------------------------------------------------
\* The bulk handler: one transaction per square of its list.

BeginBulk(r, job) ==
  /\ "bulk" \in Endpoints
  /\ pc[r] = "handler"
  /\ IsManager(r)
  /\ pc' = [pc EXCEPT ![r] = "list"]
  /\ bulk' = [bulk EXCEPT ![r] = job]
  /\ sawLocked' = [sawLocked EXCEPT ![r] = FALSE]
  /\ UNCHANGED <<rows, locked, user, tx>>

\* The checks the loop makes on the square it has just loaded.
BulkAccepts(job, row) ==
  /\ Roll100 => row.parent = None
  /\ job.act = "claim" => row.state = "unclaimed"
  /\ job.act = "set_state" => row.state # "unclaimed"

BulkStatements(job, s, u) ==
  CASE job.act = "claim" -> <<Save(s, Claimed(u, job.name), TRUE)>>
    [] job.act = "unclaim" ->
         <<Save(s, [Loaded(rows[s]) EXCEPT !.state = "unclaimed"], TRUE)>> \o
         IF Roll100 THEN <<Children(s, None, TRUE)>> ELSE <<>>
    [] OTHER -> <<Save(s, [Loaded(rows[s]) EXCEPT !.state = job.state], TRUE)>>

BulkSquare(r) ==
  /\ pc[r] = "list"
  /\ bulk[r].left # <<>>
  /\ bulk' = [bulk EXCEPT ![r].left = Tail(@)]
  /\ LET s == Head(bulk[r].left)
     IN  \/ /\ BulkAccepts(bulk[r], rows[s])
            /\ BeginTx(r, BulkStatements(bulk[r], s, user[r]))
         \/ /\ ~BulkAccepts(bulk[r], rows[s])
            /\ UNCHANGED <<rows, locked, pc, user, sawLocked, tx>>

EndBulk(r) ==
  /\ pc[r] = "list"
  /\ bulk[r].left = <<>>
  /\ End(r)
  /\ UNCHANGED <<rows, locked, tx>>

-----------------------------------------------------------------------------
\* The transaction of a request, statement by statement.

\* What a statement of r reads: its own writes over the committed rows.
Read(r, s) == IF pend[r][s] # None THEN pend[r][s] ELSE rows[s]

Next1(r) == Head(todo[r])

Doing(r, do) == pc[r] = "tx" /\ todo[r] # <<>> /\ Next1(r).do = do

HasWritten(r, s) == pend[r][s] # None

\* The three conditions update_pool_square computes from the row it locked.
InitialClaim(row) == row.claimant = None /\ row.state = "unclaimed"
UserUnclaim(row, to) ==
  /\ row.owner = to.owner
  /\ row.state = "claimed"
  /\ to.state = "unclaimed"

\* A fault: anyone may unclaim a square that is not paid.
AllowedToAnyone(row, to, mgr) ==
  mgr \/ InitialClaim(row) \/ (row.state = "claimed" /\ to.state = "unclaimed")

Allowed(row, to, mgr) == mgr \/ InitialClaim(row) \/ UserUnclaim(row, to)

\* Faults: an unclaimed square keeps its parent, or its owner and its name.
UpdatedKeepingParent(row, to) ==
  IF to.state = "unclaimed" THEN [EmptyRow EXCEPT !.parent = row.parent]
  ELSE [state |-> to.state, claimant |-> to.claimant, owner |-> to.owner,
        parent |-> row.parent]

UpdatedKeepingOwner(row, to) ==
  [state |-> to.state, claimant |-> to.claimant, owner |-> to.owner,
   parent |-> IF to.state = "unclaimed" THEN None ELSE row.parent]

\* What its UPDATE leaves in the row.
Updated(row, to) ==
  IF to.state = "unclaimed" THEN EmptyRow
  ELSE [state |-> to.state, claimant |-> to.claimant, owner |-> to.owner,
        parent |-> row.parent]

\* The transaction is over: its locks are released, its request is answered
\* or goes on with the next square of its list.
Finish(r) ==
  /\ todo' = [todo EXCEPT ![r] = <<>>]
  /\ pend' = [pend EXCEPT ![r] = NothingWritten]
  /\ share' = [share EXCEPT ![r] = {}]
  /\ \/ bulk[r] = None /\ End(r)
     \/ /\ bulk[r] # None
        /\ pc' = [pc EXCEPT ![r] = "list"]
        /\ UNCHANGED request

Rollback(r) == Finish(r) /\ UNCHANGED <<rows, locked>>

\* Writers block the share lock; other share locks do not.
ShareBlocked(r, s) == \E q \in Requests \ {r} : HasWritten(q, s)

\* A fault: an update that waits for writers only.
UpdateBlockedByWriters(r, s) == \E q \in Requests \ {r} : HasWritten(q, s)

\* Any other lock blocks the update.
UpdateBlocked(r, s) == \E q \in Requests \ {r} : s \in share[q]

\* A fault: the row is read without FOR SHARE.
SelectWithoutLock(r) ==
  LET i == Next1(r)
  IN  /\ Doing(r, "save")
      /\ Allowed(Read(r, i.sq), i.to, i.mgr)
      /\ todo' = [todo EXCEPT ![r] = <<[i EXCEPT !.do = "update"]>> \o Tail(@)]
      /\ UNCHANGED <<rows, locked, pc, pend, share, request>>

\* SELECT ... FOR SHARE and the check; Save fails when the check does.
SelectForShare(r) ==
  LET i == Next1(r)
  IN  /\ Doing(r, "save")
      /\ ~ShareBlocked(r, i.sq)
      /\ Allowed(Read(r, i.sq), i.to, i.mgr)
      /\ share' = [share EXCEPT ![r] = @ \cup {i.sq}]
      /\ todo' = [todo EXCEPT ![r] = <<[i EXCEPT !.do = "update"]>> \o Tail(@)]
      /\ UNCHANGED <<rows, locked, pc, pend, request>>

\* A fault: the request is answered and its transaction is left open.
AlreadyClaimedNoRollback(r) ==
  LET i == Next1(r)
  IN  /\ Doing(r, "save")
      /\ ~ShareBlocked(r, i.sq)
      /\ ~Allowed(Read(r, i.sq), i.to, i.mgr)
      /\ End(r)
      /\ UNCHANGED <<rows, locked, tx>>

AlreadyClaimed(r) ==
  LET i == Next1(r)
  IN  /\ Doing(r, "save")
      /\ ~ShareBlocked(r, i.sq)
      /\ ~Allowed(Read(r, i.sq), i.to, i.mgr)
      /\ Rollback(r)

Update(r) ==
  LET i == Next1(r)
  IN  /\ Doing(r, "update")
      /\ ~UpdateBlocked(r, i.sq)
      /\ pend' = [pend EXCEPT ![r][i.sq] = Updated(Read(r, i.sq), i.to)]
      /\ todo' = [todo EXCEPT ![r] = Tail(@)]
      /\ UNCHANGED <<rows, locked, pc, share, request>>

\* SetParentSquare, on a row this transaction has just saved.
SetParentSquare(r) ==
  LET i == Next1(r)
  IN  /\ Doing(r, "link")
      /\ pend' = [pend EXCEPT ![r][i.sq] = [Read(r, i.sq) EXCEPT !.parent = i.to]]
      /\ todo' = [todo EXCEPT ![r] = Tail(@)]
      /\ UNCHANGED <<rows, locked, pc, share, request>>

\* The save the handler makes of a child it has read.
ChildSave(r, i, c) ==
  IF i.to # None THEN Save(c, [Loaded(Read(r, c)) EXCEPT !.claimant = i.to], i.mgr)
  ELSE IF i.mgr THEN Save(c, [Loaded(Read(r, c)) EXCEPT !.state = "unclaimed"], TRUE)
  ELSE Save(c, Unclaimed(user[r]), FALSE)

\* ChildSquares: the rows whose parent is the square, in the order of their
\* numbers; they are saved after everything else.
ChildSquares(r) ==
  LET i == Next1(r)
      kids == {c \in Squares : Read(r, c).parent = i.sq}
  IN  /\ Doing(r, "children")
      /\ \E order \in [1..Cardinality(kids) -> kids] :
           /\ \A j, k \in DOMAIN order : j < k => order[j] < order[k]
           /\ todo' = [todo EXCEPT ![r] =
                         Tail(@) \o [j \in DOMAIN order |-> ChildSave(r, i, order[j])]]
      /\ UNCHANGED <<rows, locked, pc, pend, share, request>>

Commit(r) ==
  /\ pc[r] = "tx"
  /\ todo[r] = <<>>
  /\ rows' = [s \in Squares |-> Read(r, s)]
  /\ Finish(r)
  /\ UNCHANGED locked

\* The client goes away or the database fails: BeginTx(r.Context()) rolls back
\* and nothing more of the request can run.
Cancel(r) ==
  /\ pc[r] \in {"list", "tx"}
  /\ todo' = [todo EXCEPT ![r] = <<>>]
  /\ pend' = [pend EXCEPT ![r] = NothingWritten]
  /\ share' = [share EXCEPT ![r] = {}]
  /\ End(r)
  /\ UNCHANGED <<rows, locked>>

\* PostgreSQL: q holds the lock that the next statement of r needs.
WaitsFor(r, q) ==
  /\ q # r
  /\ \/ Doing(r, "save") /\ HasWritten(q, Next1(r).sq)
     \/ Doing(r, "update") /\ Next1(r).sq \in share[q]

\* PostgreSQL aborts one transaction of a cycle of waiting transactions.
DeadlockDetected(r) ==
  /\ \E cycle \in SUBSET Requests :
       /\ r \in cycle
       /\ \A a \in cycle : /\ \E b \in cycle : WaitsFor(a, b)
                           /\ \E b \in cycle : WaitsFor(b, a)
  /\ Rollback(r)

-----------------------------------------------------------------------------
\* A manager locks or unlocks the pool: one save of the pool row.
SetLocks(past) ==
  /\ "lock" \in Endpoints
  /\ locked' = past
  /\ UNCHANGED <<rows, pc, request, tx>>

Handle(r) ==
  \/ Reject(r)
  \/ \E s \in Squares, n \in Names : Rename(r, s, n)
  \/ \E s \in Squares, n \in Names, second \in Squares \cup {None} : Claim(r, s, n, second)
  \/ \E s \in Squares : Unclaim(r, s)
  \/ \E s \in Squares, st \in Payments \cup {None} : Manage(r, s, st)
  \/ \E job \in BulkJobsOver(Names, Payments, BulkLists) : BeginBulk(r, job)
  \/ BulkSquare(r)
  \/ EndBulk(r)

Run(r) ==
  \/ SelectForShare(r)
  \/ AlreadyClaimed(r)
  \/ Update(r)
  \/ SetParentSquare(r)
  \/ ChildSquares(r)
  \/ Commit(r)

Next ==
  \/ \E r \in Requests :
       \/ \E u \in Users : Begin(r, u)
       \/ Handle(r)
       \/ Run(r)
       \/ Cancel(r)
       \/ DeadlockDetected(r)
  \/ \E past \in BOOLEAN : SetLocks(past)

Spec == Init /\ [][Next]_vars

\* The server runs every request it has accepted, and PostgreSQL breaks every
\* deadlock; nothing obliges a client to send or to withdraw a request.
Fairness == \A r \in Requests :
  WF_vars(Handle(r)) /\ WF_vars(Run(r)) /\ WF_vars(DeadlockDetected(r))

FairSpec == Spec /\ Fairness

-----------------------------------------------------------------------------
\* Safety.

\* A committed square is either free, with no owner, no name and no parent, or
\* it is taken and has both an owner and a name: no stale in-memory copy saved
\* by update_pool_square leaves a row in between.
RowsConsistent ==
  \A s \in Squares :
    /\ rows[s].state = "unclaimed" => rows[s] = EmptyRow
    /\ rows[s].state # "unclaimed" => rows[s].owner # None /\ rows[s].claimant # None

\* Row locks: a transaction that has written a row is the only one that holds a
\* lock on it, so the check made under FOR SHARE still holds at the UPDATE.
WritersAreAlone ==
  \A r \in Requests, s \in Squares :
    HasWritten(r, s) => s \in share[r] /\ \A q \in Requests \ {r} : s \notin share[q]

\* A taken square changes only when a manager's request commits, or when its
\* own owner gives up a claim that is not paid: two claims of the same square,
\* in whatever order their statements run, never take it from one another.
OnlyOwnerOrManager ==
  [][\A s \in Squares :
       rows[s].state # "unclaimed" /\ rows'[s] # rows[s] =>
         \E r \in Requests :
           /\ pc[r] = "tx" /\ pc'[r] # "tx"
           /\ \/ user[r] \in Managers
              \/ /\ rows[s].owner = user[r]
                 /\ rows[s].state = "claimed"
                 /\ rows'[s] = EmptyRow]_rows

\* The squares of a roll100 claim stay together: a secondary's primary is a
\* taken square of the same user under the same name, it is no secondary
\* itself, and it has no other secondary.
FamiliesIntact ==
  \A c \in Squares : rows[c].parent # None =>
    LET p == rows[c].parent
    IN  /\ rows[p].state # "unclaimed"
        /\ rows[p].parent = None
        /\ rows[p].owner = rows[c].owner
        /\ rows[p].claimant = rows[c].claimant
        /\ \A d \in Squares : rows[d].parent = p => d = c

\* "also rename any secondary squares linked to this primary"
\* (endpoints_pool.go:1052): once a rename has committed, and as long as nobody
\* unclaims, a primary and its secondary bear one name.
SameNameAsPrimary ==
  \A c \in Squares :
    rows[c].parent # None => rows[c].claimant = rows[rows[c].parent].claimant

\* "if the user isn't a manager and the grid is locked, do not let the user do
\* anything" (endpoints_pool.go:966): while the pool is locked only managers'
\* requests change a square.
LockedMeansManagersOnly ==
  [][locked /\ rows' # rows =>
       \E r \in Requests : pc[r] = "tx" /\ pc'[r] # "tx" /\ user[r] \in Managers]_rows

-----------------------------------------------------------------------------
\* Every commit is one step of the abstract board, every other step stutters:
\* a claim takes squares that are free at the instant it commits, both or none.
Board == INSTANCE SquareBoard WITH board <- rows

ImplementsBoard == Board!Spec

-----------------------------------------------------------------------------
\* Liveness: every request is answered, whichever locks its statements meet.
EveryRequestEnds ==
  \A r \in Requests : pc[r] \in {"handler", "list", "tx"} ~> pc[r] \in {"idle", "done"}
=============================================================================
