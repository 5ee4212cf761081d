------------------------------ MODULE PoolGrids ------------------------------
(***************************************************************************)
(* The grids of one pool, the numbers drawn for them, and the requests     *)
(* that change either.                                                     *)
(*                                                                         *)
(* A handler works on copies: of the pool, loaded by the middleware, and   *)
(* of a grid, loaded by GridByID.  Grid.Save and Pool.Save write every     *)
(* column of such a copy.  Grids are created and deleted by SQL functions  *)
(* that first lock the grids of the pool and then count them; a statement  *)
(* that locks rows sees the rows that were there when it began, and waits. *)
(***************************************************************************)
EXTENDS Integers, Sequences, FiniteSets

CONSTANTS
  GridIds,          \* the ids new_grid can give out: the bound on the table
  MaxGridsPerPool,  \* the limit on active grids
  Requests,         \* the requests the server handles at the same time
  Endpoints,        \* the kinds of request that arrive
  Draws,            \* what a draw of one pair of number lines may yield
  Configs,          \* the number set configurations managers choose from
  None              \* SQL NULL, no row

Kinds == {"create", "edit", "delete", "reorder", "draw", "drawSets", "config", "lock"}

\* GetSetTypes, in the order in which the sets are drawn.
SetTypes(config) ==
  CASE config = "standard" -> <<"all">>
    [] config = "123f" -> <<"q1", "q2", "q3", "final">>
    [] config = "hf" -> <<"half", "final">>

AllSetTypes == {"q1", "q2", "q3", "half", "final"}

ASSUME GridsAssumption ==
  /\ IsFiniteSet(GridIds)
  /\ MaxGridsPerPool \in Nat \ {0}
  /\ Endpoints \subseteq Kinds
  /\ Configs \subseteq {"standard", "123f", "hf"}
  /\ GridIds # {}

\* A row of grids.  What the manager edits (teams, label, date, linked event) is
\* left out: of an edit, only what it writes back with the rest matters here.
GridRow ==
  [state : {"active", "deleted"}, ord : Nat, numbers : Draws \cup {None}]

\* The columns of pools that handlers of grids look at.
PoolRow == [config : Configs, locked : BOOLEAN]

\* The statements a transaction still has to run.  "perform" begins new_grid
\* or delete_grid: it looks up the rows to lock, and next runs once it has
\* locked them.
AfterLocking ==
  [do : {"new"}]
    \cup [do : {"delete"}, grid : GridIds]

Statement ==
  [do : {"perform"}, next : AfterLocking]
    \cup [do : {"locking"}, next : AfterLocking, ids : SUBSET GridIds]
    \cup [do : {"row"}, grid : GridIds, to : GridRow]
    \cup [do : {"ord"}, grid : GridIds, to : Nat, was : Nat]
    \cup [do : {"insert"}, grid : GridIds, to : AllSetTypes]

ASSUME NoneAssumption ==
  /\ None \notin GridRow
  /\ None \notin PoolRow
  /\ None \notin Draws

VARIABLES
  grids,   \* the committed rows of grids, None where there is no row
  sets,    \* the committed rows of grid_number_sets: <<grid, set type>>
  pool,    \* the committed row of pools
  pc,      \* where each request is
  mine,    \* its copy of the pool, later the copy it will save, or None
  todo,    \* the statements it still has to run
  pend,    \* the rows of grids it has written and not committed
  drawn,   \* the number sets it has inserted and not committed
  locks    \* the grids it holds row locks on

vars == <<grids, sets, pool, pc, mine, todo, pend, drawn, locks>>

db == <<grids, sets, pool>>
tx == <<todo, pend, drawn, locks>>

TypeOK ==
  /\ grids \in [GridIds -> GridRow \cup {None}]
  /\ sets \subseteq GridIds \X AllSetTypes
  /\ pool \in PoolRow
  /\ pc \in [Requests -> {"idle", "handler", "tx", "pool"}]
  /\ mine \in [Requests -> PoolRow \cup {None}]
  /\ todo \in [Requests -> Seq(Statement)]
  /\ pend \in [Requests -> [GridIds -> GridRow \cup {None}]]
  /\ drawn \in [Requests -> SUBSET (GridIds \X AllSetTypes)]
  /\ locks \in [Requests -> SUBSET GridIds]

NothingWritten == [g \in GridIds |-> None]

NewRow(ord) == [state |-> "active", ord |-> ord, numbers |-> None]

\* new_pool makes the first grid in the transaction that makes the pool.
Init ==
  /\ \E first \in GridIds :
       grids = [g \in GridIds |-> IF g = first THEN NewRow(0) ELSE None]
  /\ sets = {}
  /\ pool \in [config : Configs, locked : {FALSE}]
  /\ pc = [r \in Requests |-> "idle"]
  /\ mine = [r \in Requests |-> None]
  /\ todo = [r \in Requests |-> <<>>]
  /\ pend = [r \in Requests |-> NothingWritten]
  /\ drawn = [r \in Requests |-> {}]
  /\ locks = [r \in Requests |-> {}]

ActiveIn(table) == {g \in GridIds : table[g] # None /\ table[g].state = "active"}

Known == {g \in GridIds : grids[g] # None}

-----------------------------------------------------------------------------
\* The handlers.

\* poolHandler loads the pool.
Begin(r) ==
  /\ pc[r] = "idle"
  /\ pc' = [pc EXCEPT ![r] = "handler"]
  /\ mine' = [mine EXCEPT ![r] = pool]
  /\ UNCHANGED <<db, tx>>

\* The transaction, if one is open, has ended, and with it the request.
End(r) ==
  /\ pc' = [pc EXCEPT ![r] = "idle"]
  /\ mine' = [mine EXCEPT ![r] = None]
  /\ todo' = [todo EXCEPT ![r] = <<>>]
  /\ pend' = [pend EXCEPT ![r] = NothingWritten]
  /\ drawn' = [drawn EXCEPT ![r] = {}]
  /\ locks' = [locks EXCEPT ![r] = {}]

\* An early return, the end of the client's connection, a failed statement.
Stop(r) ==
  /\ pc[r] # "idle"
  /\ End(r)
  /\ UNCHANGED db

Handling(r, kind) == kind \in Endpoints /\ pc[r] = "handler"

\* The handler runs these statements, and saves the pool afterwards if it is
\* given one.
RunTx(r, statements, afterwards) ==
  /\ pc' = [pc EXCEPT ![r] = "tx"]
  /\ todo' = [todo EXCEPT ![r] = statements]
  /\ mine' = [mine EXCEPT ![r] = afterwards]
  /\ UNCHANGED <<db, pend, drawn, locks>>

SavePool(r, image) ==
  /\ pc' = [pc EXCEPT ![r] = "pool"]
  /\ mine' = [mine EXCEPT ![r] = image]
  /\ UNCHANGED <<db, tx>>

\* "save" without an id.
Create(r) ==
  /\ Handling(r, "create")
  /\ RunTx(r, <<[do |-> "perform", next |-> [do |-> "new"]]>>, None)

\* "save" of a grid: the copy is written back.
Edit(r, g) ==
  /\ Handling(r, "edit")
  /\ g \in ActiveIn(grids)
  /\ RunTx(r, <<[do |-> "row", grid |-> g, to |-> grids[g]]>>, None)

Delete(r, g) ==
  /\ Handling(r, "delete")
  /\ g \in ActiveIn(grids)
  /\ RunTx(r, <<[do |-> "perform", next |-> [do |-> "delete", grid |-> g]]>>, None)

\* A fault: places are counted from one in the list, from minus one in the row.
ReorderFromMinusOne(r, list) ==
  /\ Handling(r, "reorder")
  /\ RunTx(r, [i \in DOMAIN list |->
                 [do |-> "ord", grid |-> list[i], to |-> i - 2, was |-> grids[list[i]].ord]], None)

\* SetGridsOrder: it has read the place of every grid, and goes down the list.
Reorder(r, list) ==
  /\ Handling(r, "reorder")
  /\ RunTx(r, [i \in DOMAIN list |->
                 [do |-> "ord", grid |-> list[i], to |-> i - 1, was |-> grids[list[i]].ord]], None)

\* What a draw saves of the pool: a lock, unless it is locked or told not to.
LockAfterDraw(r) ==
  IF mine[r].locked THEN {None} ELSE {None, [mine[r] EXCEPT !.locked = TRUE]}

\* One pair of number lines, kept in the grid: the standard configuration, or
\* numbers entered by hand without number sets.
Draw(r, g, numbers) ==
  /\ Handling(r, "draw")
  /\ g \in ActiveIn(grids)
  /\ grids[g].numbers = None
  /\ \E afterwards \in LockAfterDraw(r) :
       RunTx(r, <<[do |-> "row", grid |-> g, to |-> [grids[g] EXCEPT !.numbers = numbers]]>>,
             afterwards)

\* A pair for every set type of the configuration, in rows of their own.
DrawSets(r, g) ==
  LET types == SetTypes(mine[r].config)
  IN  /\ Handling(r, "drawSets")
      /\ mine[r].config # "standard"
      /\ g \in ActiveIn(grids)
      /\ \E afterwards \in LockAfterDraw(r) :
           RunTx(r, [i \in DOMAIN types |-> [do |-> "insert", grid |-> g, to |-> types[i]]],
                 afterwards)

\* NumbersAreDrawn of a grid, for a configuration.
NumbersAreDrawn(g, config) ==
  IF config = "standard" THEN grids[g].numbers # None
  ELSE \A i \in DOMAIN SetTypes(config) : <<g, SetTypes(config)[i]>> \in sets

\* The active grids in their order, MaxGridsPerPool at most; the ids that break
\* ties are opaque here.
Listed(seen) ==
  LET unseen == ActiveIn(grids) \ seen
  IN  /\ seen \subseteq ActiveIn(grids)
      /\ \A g \in seen, h \in unseen : grids[g].ord <= grids[h].ord
      /\ Cardinality(seen) <= MaxGridsPerPool
      /\ Cardinality(seen) < MaxGridsPerPool => unseen = {}

\* changeNumberSetConfig, allowed while none of the grids listed is drawn.
ChangeConfig(r, config) ==
  /\ Handling(r, "config")
  /\ \E seen \in SUBSET GridIds :
       Listed(seen) /\ \A g \in seen : ~NumbersAreDrawn(g, mine[r].config)
  /\ SavePool(r, [mine[r] EXCEPT !.config = config])

\* lock and unlock.
SetLocks(r, past) ==
  /\ Handling(r, "lock")
  /\ SavePool(r, [mine[r] EXCEPT !.locked = past])

-----------------------------------------------------------------------------
\* The transactions.

Next1(r) == Head(todo[r])

Doing(r, do) == pc[r] = "tx" /\ todo[r] # <<>> /\ Next1(r).do = do

\* A row as a statement of r reads it.
Read(r, g) == IF pend[r][g] # None THEN pend[r][g] ELSE grids[g]

\* PostgreSQL: the rows are free to be locked by r.
Free(r, ids) == \A q \in Requests \ {r} : ids \cap locks[q] = {}

\* perform from grids ... for update: the rows it will lock.
Perform(r) ==
  /\ Doing(r, "perform")
  /\ todo' = [todo EXCEPT ![r] = <<[do |-> "locking", next |-> Next1(r).next, ids |-> Known]>>]
  /\ UNCHANGED <<db, pc, mine, pend, drawn, locks>>

\* A fault: the rows are not locked.
LockedWithoutWaiting(r, do) ==
  /\ Doing(r, "locking")
  /\ Next1(r).next.do = do

\* It has locked them, and the function goes on.
Locked(r, do) ==
  /\ Doing(r, "locking")
  /\ Next1(r).next.do = do
  /\ Free(r, Next1(r).ids)

\* A fault: deleted grids are left out of MAX(ord).
LastOfActive(h) ==
  h \in ActiveIn(grids) /\ \A k \in ActiveIn(grids) : grids[k].ord <= grids[h].ord

\* A grid with MAX(ord), deleted grids included.
LastOfAll(h) == h \in Known /\ \A k \in Known : grids[k].ord <= grids[h].ord

\* new_grid counts, inserts, and Save updates the new row.
NewGrid(r, g) ==
  /\ Locked(r, "new")
  /\ Cardinality(ActiveIn(grids)) < MaxGridsPerPool
  /\ g \notin Known
  /\ \A q \in Requests : g \notin locks[q]
  /\ \E h \in GridIds :
       /\ LastOfAll(h)
       /\ pend' = [pend EXCEPT ![r][g] = NewRow(grids[h].ord + 1)]
  /\ locks' = [locks EXCEPT ![r] = Next1(r).ids \cup {g}]
  /\ todo' = [todo EXCEPT ![r] = <<>>]
  /\ UNCHANGED <<db, pc, mine, drawn>>

GridLimit(r) ==
  /\ Locked(r, "new")
  /\ Cardinality(ActiveIn(grids)) >= MaxGridsPerPool
  /\ Stop(r)

\* delete_grid counts and marks the row.
DeleteGrid(r) ==
  LET g == Next1(r).next.grid
  IN  /\ Locked(r, "delete")
      /\ Cardinality(ActiveIn(grids)) > 1
      /\ pend' = [pend EXCEPT ![r][g] = [Read(r, g) EXCEPT !.state = "deleted"]]
      /\ locks' = [locks EXCEPT ![r] = Next1(r).ids]
      /\ todo' = [todo EXCEPT ![r] = <<>>]
      /\ UNCHANGED <<db, pc, mine, drawn>>

LastGrid(r) ==
  /\ Locked(r, "delete")
  /\ Cardinality(ActiveIn(grids)) <= 1
  /\ Stop(r)

\* An UPDATE of one grid: all columns of a copy, or its place alone.
UpdateRow(r, g, row) ==
  /\ Free(r, {g})
  /\ locks' = [locks EXCEPT ![r] = @ \cup {g}]
  /\ pend' = [pend EXCEPT ![r][g] = row]
  /\ todo' = [todo EXCEPT ![r] = Tail(@)]
  /\ UNCHANGED <<db, pc, mine, drawn>>

SaveGrid(r) ==
  /\ Doing(r, "row")
  /\ UpdateRow(r, Next1(r).grid, Next1(r).to)

UpdateOrd(r) ==
  LET i == Next1(r)
  IN  /\ Doing(r, "ord")
      /\ i.to # i.was
      /\ UpdateRow(r, i.grid, [Read(r, i.grid) EXCEPT !.ord = i.to])

\* A grid that was in its place is passed over.
KeepOrd(r) ==
  /\ Doing(r, "ord")
  /\ Next1(r).to = Next1(r).was
  /\ todo' = [todo EXCEPT ![r] = Tail(@)]
  /\ UNCHANGED <<db, pc, mine, pend, drawn, locks>>

\* A fault: the sets have no unique key, a second draw simply adds its own.
InsertSetAnyway(r) ==
  /\ Doing(r, "insert")
  /\ drawn' = [drawn EXCEPT ![r] = @ \cup {<<Next1(r).grid, Next1(r).to>>}]
  /\ todo' = [todo EXCEPT ![r] = Tail(@)]
  /\ UNCHANGED <<db, pc, mine, pend, locks>>

\* The foreign key's lock on the grid is left out: it lets a draw and a deletion
\* wait for each other, and they write different rows.
\* INSERT of a number set: UNIQUE (grid_id, set_type) makes it wait for the
\* transaction that has inserted the same, and fail (Stop) when that commits.
InsertSet(r) ==
  LET row == <<Next1(r).grid, Next1(r).to>>
  IN  /\ Doing(r, "insert")
      /\ row \notin sets
      /\ \A q \in Requests \ {r} : row \notin drawn[q]
      /\ drawn' = [drawn EXCEPT ![r] = @ \cup {row}]
      /\ todo' = [todo EXCEPT ![r] = Tail(@)]
      /\ UNCHANGED <<db, pc, mine, pend, locks>>

\* COMMIT; a draw may still have to save the pool.
Commit(r) ==
  /\ pc[r] = "tx"
  /\ todo[r] = <<>>
  /\ grids' = [g \in GridIds |-> Read(r, g)]
  /\ sets' = sets \cup drawn[r]
  /\ pend' = [pend EXCEPT ![r] = NothingWritten]
  /\ drawn' = [drawn EXCEPT ![r] = {}]
  /\ locks' = [locks EXCEPT ![r] = {}]
  /\ pc' = [pc EXCEPT ![r] = IF mine[r] = None THEN "idle" ELSE "pool"]
  /\ UNCHANGED <<pool, mine, todo>>

\* Pool.Save: every column of the copy, in a transaction of its own.
PoolSave(r) ==
  /\ pc[r] = "pool"
  /\ pool' = mine[r]
  /\ End(r)
  /\ UNCHANGED <<grids, sets>>

-----------------------------------------------------------------------------
\* Lists of ids a manager may send to reorderGrids: up to as long as the table,
\* deleted grids and repetitions included.
Orders ==
  UNION {[1..n -> Known] : n \in 1..Cardinality(Known)}

Handle(r) ==
  \/ Create(r)
  \/ \E g \in GridIds : Edit(r, g)
  \/ \E g \in GridIds : Delete(r, g)
  \/ \E list \in Orders : Reorder(r, list)
  \/ \E g \in GridIds, numbers \in Draws : Draw(r, g, numbers)
  \/ \E g \in GridIds : DrawSets(r, g)
  \/ \E config \in Configs : ChangeConfig(r, config)
  \/ \E past \in BOOLEAN : SetLocks(r, past)

Run(r) ==
  \/ Perform(r)
  \/ \E g \in GridIds : NewGrid(r, g)
  \/ GridLimit(r)
  \/ DeleteGrid(r)
  \/ LastGrid(r)
  \/ SaveGrid(r)
  \/ UpdateOrd(r)
  \/ KeepOrd(r)
  \/ InsertSet(r)
  \/ Commit(r)
  \/ PoolSave(r)

Next == \E r \in Requests : Begin(r) \/ Handle(r) \/ Run(r) \/ Stop(r)

Spec == Init /\ [][Next]_vars

-----------------------------------------------------------------------------
\* "you cannot delete the last grid" (grid.go:48): the pool keeps an active
\* grid, however many deletions, of stale copies too, overlap.
AlwaysAGrid == ActiveIn(grids) # {}

\* "MaxGridsPerPool is the maximum number of grids we allow per pool"
\* (pool.go:36).  Creations and deletions that overlap stay within the limit;
\* an edit of a grid deleted meanwhile does not.
WithinLimit == Cardinality(ActiveIn(grids)) <= MaxGridsPerPool

\* A grid that appears is put after all grids there are at that moment, deleted
\* ones too, so two creations never share a place, where places change by
\* creation alone.
NewGridComesLast ==
  [][\A g \in GridIds : grids[g] = None /\ grids'[g] # None =>
       \A h \in Known : grids'[h].ord < grids'[g].ord]_grids

\* The number sets of a grid are those of one configuration, all of them, or
\* none: draws that overlap, with each other or with a change of the
\* configuration, never mix.
NumberSetsWhole ==
  \A g \in GridIds :
    LET there == {t \in AllSetTypes : <<g, t>> \in sets}
    IN  there = {} \/ \E c \in {"123f", "hf"} : there = {SetTypes(c)[i] : i \in DOMAIN SetTypes(c)}

\* "ErrNumbersAlreadyDrawn happens when SelectRandomNumbers() is called
\* multiple times" (grid.go:41): the numbers of a grid, once drawn, are never
\* replaced or erased.
NumbersStay ==
  [][\A g \in Known : grids[g].numbers # None => grids'[g].numbers = grids[g].numbers]_grids
=============================================================================
