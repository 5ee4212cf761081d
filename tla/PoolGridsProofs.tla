--------------------------- MODULE PoolGridsProofs ---------------------------
(***************************************************************************)
(* Proofs about PoolGrids, for any number of grids and requests.           *)
(***************************************************************************)
EXTENDS PoolGrids, SequenceTheorems, FiniteSetTheorems, TLAPS

-----------------------------------------------------------------------------
\* What a request holds in each of its phases.
PhaseInv ==
  \A r \in Requests :
    /\ pc[r] \in {"handler", "pool"} => mine[r] # None
    /\ pc[r] # "tx" => todo[r] = <<>> /\ pend[r] = NothingWritten /\ locks[r] = {}

\* A statement that is still to run names grids there are, writes back only
\* active copies, and, when it is about to lock, locks the grid F too.
GoodStatement(F, i) ==
  /\ i.do = "perform" /\ i.next.do = "delete" => i.next.grid \in Known
  /\ i.do = "locking" /\ i.next.do = "delete" => i.next.grid \in i.ids
  /\ i.do = "locking" => F \in i.ids /\ i.ids \subseteq Known
  /\ i.do = "row" => i.grid \in Known /\ i.to.state = "active"
  /\ i.do = "ord" => i.grid \in Known

Counts(i) == i.do \in {"perform", "locking"}

\* Whoever is to count has written nothing yet and does nothing else after.
TodoInv(F) ==
  \A r \in Requests : \A j \in DOMAIN todo[r] :
    /\ GoodStatement(F, todo[r][j])
    /\ Counts(todo[r][j]) =>
         Len(todo[r]) = 1 /\ pend[r] = NothingWritten /\ locks[r] = {}

\* Row locks exclude, and a row is locked before it is written.
LockInv ==
  /\ \A r, q \in Requests : r # q => locks[r] \cap locks[q] = {}
  /\ \A r \in Requests, g \in GridIds : pend[r][g] # None => g \in locks[r]

\* A row that is about to become deleted was deleted before, or its deletion
\* holds the lock on F, is all its transaction does, and leaves an active grid.
Deletes(F, r, g) ==
  /\ F \in locks[r]
  /\ todo[r] = <<>>
  /\ \A x \in GridIds \ {g} : pend[r][x] = None
  /\ \E h \in ActiveIn(grids) : h # g

DeletionInv(F) ==
  \A r \in Requests, g \in GridIds :
    pend[r][g] # None /\ pend[r][g].state = "deleted" =>
      \/ grids[g] # None /\ grids[g].state = "deleted"
      \/ Deletes(F, r, g)

\* F is a grid whose row has been there from the start: every count locks it.
InvFor(F) ==
  /\ TypeOK
  /\ F \in Known
  /\ PhaseInv
  /\ TodoInv(F)
  /\ LockInv
  /\ DeletionInv(F)
  /\ AlwaysAGrid

GridsInv == \E F \in GridIds : InvFor(F)

-----------------------------------------------------------------------------
\* The types of what the handlers build.

LEMMA RowTypes ==
  /\ \A row \in GridRow : row # None
  /\ \A ord \in Nat : NewRow(ord) \in GridRow
  /\ \A row \in GridRow, ord \in Nat : [row EXCEPT !.ord = ord] \in GridRow
  /\ \A row \in GridRow, numbers \in Draws : [row EXCEPT !.numbers = numbers] \in GridRow
  /\ \A row \in GridRow : [row EXCEPT !.state = "deleted"] \in GridRow
  /\ NothingWritten \in [GridIds -> GridRow \cup {None}]
BY NoneAssumption DEF GridRow, NewRow, NothingWritten

LEMMA PoolTypes ==
  /\ \A image \in PoolRow : image # None
  /\ \A image \in PoolRow, config \in Configs : [image EXCEPT !.config = config] \in PoolRow
  /\ \A image \in PoolRow, past \in BOOLEAN : [image EXCEPT !.locked = past] \in PoolRow
BY NoneAssumption DEF PoolRow

LEMMA StatementTypes ==
  /\ [do |-> "perform", next |-> [do |-> "new"]] \in Statement
  /\ \A g \in GridIds :
       [do |-> "perform", next |-> [do |-> "delete", grid |-> g]] \in Statement
  /\ \A next \in AfterLocking, ids \in SUBSET GridIds :
       [do |-> "locking", next |-> next, ids |-> ids] \in Statement
  /\ \A g \in GridIds, row \in GridRow :
       [do |-> "row", grid |-> g, to |-> row] \in Statement
  /\ \A g \in GridIds, to, was \in Nat :
       [do |-> "ord", grid |-> g, to |-> to, was |-> was] \in Statement
  /\ \A g \in GridIds, t \in AllSetTypes :
       [do |-> "insert", grid |-> g, to |-> t] \in Statement
BY DEF Statement, AfterLocking

LEMMA StatementFields ==
  ASSUME NEW i \in Statement
  PROVE  /\ i.do = "perform" => i.next \in AfterLocking
         /\ i.do = "locking" => i.next \in AfterLocking /\ i.ids \in SUBSET GridIds
         /\ i.do = "row" => i.grid \in GridIds /\ i.to \in GridRow
         /\ i.do = "ord" => i.grid \in GridIds /\ i.to \in Nat
         /\ i.do = "insert" => i.grid \in GridIds /\ i.to \in AllSetTypes
<1>. i \in [do : {"perform"}, next : AfterLocking]
     \/ i \in [do : {"locking"}, next : AfterLocking, ids : SUBSET GridIds]
     \/ i \in [do : {"row"}, grid : GridIds, to : GridRow]
     \/ i \in [do : {"ord"}, grid : GridIds, to : Nat, was : Nat]
     \/ i \in [do : {"insert"}, grid : GridIds, to : AllSetTypes]
  BY DEF Statement
<1>. QED
  OBVIOUS

LEMMA AfterLockingFields ==
  ASSUME NEW next \in AfterLocking
  PROVE  /\ next.do \in {"new", "delete"}
         /\ next.do = "delete" => next.grid \in GridIds
BY DEF AfterLocking

\* Every configuration has set types, each of them one of the known.
LEMMA SetTypesType ==
  ASSUME NEW config \in Configs, config # "standard"
  PROVE  /\ DOMAIN SetTypes(config) = 1..Len(SetTypes(config))
         /\ Len(SetTypes(config)) \in Nat
         /\ \A j \in DOMAIN SetTypes(config) : SetTypes(config)[j] \in AllSetTypes
<1>1. CASE config = "123f"
  BY <1>1 DEF SetTypes, AllSetTypes
<1>2. CASE config = "hf"
  BY <1>2 DEF SetTypes, AllSetTypes
<1>. QED
  BY <1>1, <1>2, GridsAssumption

\* A list whose entries have a property keeps it when its head is taken.
LEMMA TailOf ==
  ASSUME NEW S, NEW s \in Seq(S), s # <<>>
  PROVE  /\ Head(s) \in S /\ Head(s) = s[1] /\ 1 \in DOMAIN s
         /\ Tail(s) \in Seq(S)
         /\ Len(Tail(s)) = Len(s) - 1
         /\ DOMAIN s = 1..Len(s) /\ Len(s) \in Nat /\ DOMAIN Tail(s) = 1..(Len(s) - 1)
         /\ \A j \in DOMAIN Tail(s) : j + 1 \in DOMAIN s /\ Tail(s)[j] = s[j + 1]
BY HeadTailProperties

-----------------------------------------------------------------------------
\* The steps, by what they do to the tables, the locks and the statements.

\* A handler begins its transaction.
LEMMA Starts ==
  ASSUME NEW F \in GridIds, InvFor(F), NEW r \in Requests, pc[r] = "handler",
         NEW S \in Seq(Statement), NEW image \in PoolRow \cup {None},
         \A j \in DOMAIN S : GoodStatement(F, S[j]) /\ (Counts(S[j]) => Len(S) = 1),
         RunTx(r, S, image)
  PROVE  InvFor(F)'
<1>. USE DEF InvFor
<1>1. TypeOK'
  BY DEF TypeOK, RunTx, db
<1>2. Known' = Known /\ AlwaysAGrid'
  BY DEF RunTx, db, Known, AlwaysAGrid, ActiveIn
<1>3. PhaseInv'
  BY DEF PhaseInv, RunTx, TypeOK
<1>4. TodoInv(F)'
  BY <1>2 DEF TodoInv, GoodStatement, RunTx, TypeOK, PhaseInv
<1>5. LockInv'
  BY DEF LockInv, RunTx
<1>6. DeletionInv(F)'
  <2>. SUFFICES ASSUME NEW q \in Requests, NEW g \in GridIds,
                       pend[q][g] # None, pend[q][g].state = "deleted"
                PROVE  \/ grids[g] # None /\ grids[g].state = "deleted"
                       \/ Deletes(F, q, g)'
    BY DEF DeletionInv, RunTx, db
  <2>1. q # r
    BY DEF PhaseInv, NothingWritten
  <2>. QED
    BY <2>1 DEF DeletionInv, Deletes, RunTx, TypeOK, db, ActiveIn
<1>. QED
  BY <1>1, <1>2, <1>3, <1>4, <1>5, <1>6

\* A transaction ends and takes what it has written with it.
LEMMA Ends ==
  ASSUME NEW F \in GridIds, InvFor(F), NEW r \in Requests, End(r),
         UNCHANGED <<grids, sets>>, pool' \in PoolRow
  PROVE  InvFor(F)'
<1>. USE DEF InvFor
<1>1. TypeOK'
  BY RowTypes DEF TypeOK, End
<1>2. Known' = Known /\ AlwaysAGrid'
  BY DEF Known, AlwaysAGrid, ActiveIn
<1>3. PhaseInv'
  BY DEF PhaseInv, End, TypeOK
<1>4. TodoInv(F)'
  BY <1>2 DEF TodoInv, GoodStatement, End, TypeOK
<1>5. LockInv'
  BY DEF LockInv, End, TypeOK, NothingWritten
<1>6. DeletionInv(F)'
  BY DEF DeletionInv, Deletes, End, TypeOK, ActiveIn, NothingWritten
<1>. QED
  BY <1>1, <1>2, <1>3, <1>4, <1>5, <1>6

\* The statements that are left after the first count no grids.
LEMMA TodoAfterTail ==
  ASSUME NEW F \in GridIds, TypeOK, TodoInv(F), NEW r \in Requests, todo[r] # <<>>,
         todo' = [todo EXCEPT ![r] = Tail(@)],
         Known' = Known,
         \A q \in Requests \ {r} : pend'[q] = pend[q] /\ locks'[q] = locks[q]
  PROVE  TodoInv(F)'
<1>1. todo[r] \in Seq(Statement) /\ todo \in [Requests -> Seq(Statement)]
  BY DEF TypeOK
<1>2. /\ DOMAIN todo[r] = 1..Len(todo[r]) /\ Len(todo[r]) \in Nat
      /\ DOMAIN Tail(todo[r]) = 1..(Len(todo[r]) - 1)
      /\ \A j \in DOMAIN Tail(todo[r]) :
           j + 1 \in DOMAIN todo[r] /\ Tail(todo[r])[j] = todo[r][j + 1]
  BY <1>1, TailOf
<1>3. \A i : GoodStatement(F, i) => GoodStatement(F, i)'
  BY DEF GoodStatement
<1>4. ASSUME NEW q \in Requests, NEW j \in DOMAIN todo'[q]
      PROVE  /\ GoodStatement(F, todo'[q][j])
             /\ Counts(todo'[q][j]) =>
                  Len(todo'[q]) = 1 /\ pend'[q] = NothingWritten /\ locks'[q] = {}
  <2>1. CASE q # r
    <3>1. todo'[q] = todo[q] /\ pend'[q] = pend[q] /\ locks'[q] = locks[q]
      BY <2>1, <1>1
    <3>. QED
      BY <3>1, <1>4 DEF TodoInv
  <2>2. CASE q = r
    <3>1. todo'[q] = Tail(todo[r])
      BY <2>2, <1>1
    <3>2. j + 1 \in DOMAIN todo[r] /\ todo'[q][j] = todo[r][j + 1] /\ Len(todo[r]) # 1
      <4>1. j \in DOMAIN Tail(todo[r])
        BY <3>1
      <4>2. j \in 1..(Len(todo[r]) - 1)
        BY <4>1, <1>2
      <4>3. Len(todo[r]) # 1
        <5>. \A n \in Nat : j \in 1..(n - 1) => n # 1
          OBVIOUS
        <5>. QED
          BY <4>2, <1>2
      <4>4. j + 1 \in DOMAIN todo[r] /\ Tail(todo[r])[j] = todo[r][j + 1]
        BY <4>1, <1>2
      <4>. QED
        BY <3>1, <4>3, <4>4
    <3>3. GoodStatement(F, todo[r][j + 1]) /\ ~Counts(todo[r][j + 1])
      BY <3>2 DEF TodoInv
    <3>. QED
      BY <3>2, <3>3 DEF GoodStatement, Counts
  <2>. QED
    BY <2>1, <2>2
<1>. QED
  BY <1>3, <1>4 DEF TodoInv, GoodStatement, Counts

\* A statement is done that writes no grid.
LEMMA Advances ==
  ASSUME NEW F \in GridIds, InvFor(F), NEW r \in Requests, pc[r] = "tx", todo[r] # <<>>,
         todo' = [todo EXCEPT ![r] = Tail(@)],
         UNCHANGED <<db, pc, mine, pend, locks>>,
         drawn' \in [Requests -> SUBSET (GridIds \X AllSetTypes)]
  PROVE  InvFor(F)'
<1>. USE DEF InvFor, db
<1>1. todo[r] \in Seq(Statement)
  BY DEF TypeOK
<1>2. /\ Tail(todo[r]) \in Seq(Statement)
      /\ Len(Tail(todo[r])) = Len(todo[r]) - 1
      /\ \A j \in DOMAIN Tail(todo[r]) :
           j + 1 \in DOMAIN todo[r] /\ Tail(todo[r])[j] = todo[r][j + 1]
  BY <1>1, TailOf
<1>3. TypeOK'
  BY <1>2 DEF TypeOK
<1>4. Known' = Known /\ AlwaysAGrid'
  BY DEF Known, AlwaysAGrid, ActiveIn
<1>5. PhaseInv'
  BY DEF PhaseInv, TypeOK
<1>6. TodoInv(F)'
  BY <1>4, TodoAfterTail
<1>7. LockInv'
  BY DEF LockInv
<1>8. DeletionInv(F)'
  <2>1. todo[r] # <<>> => \A g \in GridIds : ~Deletes(F, r, g)
    BY DEF Deletes
  <2>. QED
    BY <2>1 DEF DeletionInv, Deletes, TypeOK, ActiveIn
<1>. QED
  BY <1>3, <1>4, <1>5, <1>6, <1>7, <1>8

\* An UPDATE of one row writes an active copy, or the row as it stands in
\* another place.
LEMMA Updates ==
  ASSUME NEW F \in GridIds, InvFor(F), NEW r \in Requests, pc[r] = "tx", todo[r] # <<>>,
         ~Counts(Head(todo[r])), NEW g \in Known, NEW row \in GridRow,
         row.state = "active" \/ row.state = Read(r, g).state,
         UpdateRow(r, g, row)
  PROVE  InvFor(F)'
<1>. USE DEF InvFor, db, UpdateRow
<1>1. todo[r] \in Seq(Statement) /\ g \in GridIds
  BY DEF TypeOK, Known
<1>2. /\ Tail(todo[r]) \in Seq(Statement)
      /\ Len(Tail(todo[r])) = Len(todo[r]) - 1
      /\ \A j \in DOMAIN Tail(todo[r]) :
           j + 1 \in DOMAIN todo[r] /\ Tail(todo[r])[j] = todo[r][j + 1]
      /\ Head(todo[r]) = todo[r][1] /\ 1 \in DOMAIN todo[r]
  BY <1>1, TailOf
<1>3. TypeOK'
  BY <1>1, <1>2 DEF TypeOK
<1>4. Known' = Known /\ AlwaysAGrid'
  BY DEF Known, AlwaysAGrid, ActiveIn
<1>5. PhaseInv'
  BY DEF PhaseInv, TypeOK
<1>6. TodoInv(F)'
  <2>. \A q \in Requests \ {r} : pend'[q] = pend[q] /\ locks'[q] = locks[q]
    BY DEF TypeOK
  <2>. QED
    BY <1>4, TodoAfterTail
<1>7. LockInv'
  <2>1. \A q \in Requests \ {r} : g \notin locks[q]
    BY DEF Free
  <2>2. /\ locks'[r] = locks[r] \cup {g}
        /\ \A q \in Requests \ {r} : locks'[q] = locks[q]
    BY DEF TypeOK
  <2>3. \A q, p \in Requests : q # p => locks'[q] \cap locks'[p] = {}
    BY <2>1, <2>2 DEF LockInv
  <2>4. \A q \in Requests, x \in GridIds : pend'[q][x] # None => x \in locks'[q]
    BY <2>2, <1>1 DEF LockInv, TypeOK
  <2>. QED
    BY <2>3, <2>4 DEF LockInv
<1>8. DeletionInv(F)'
  <2>. SUFFICES ASSUME NEW q \in Requests, NEW x \in GridIds,
                       pend'[q][x] # None, pend'[q][x].state = "deleted"
                PROVE  \/ grids'[x] # None /\ grids'[x].state = "deleted"
                       \/ Deletes(F, q, x)'
    BY DEF DeletionInv
  <2>1. CASE q # r
    <3>1. pend'[q] = pend[q] /\ todo'[q] = todo[q] /\ locks'[q] = locks[q]
      BY <2>1 DEF TypeOK
    <3>. QED
      BY <3>1 DEF DeletionInv, Deletes, ActiveIn
  <2>2. CASE q = r /\ x # g
    <3>1. pend'[r][x] = pend[r][x]
      BY <2>2, <1>1 DEF TypeOK
    <3>2. ~Deletes(F, r, x)
      BY DEF Deletes
    <3>. QED
      BY <3>1, <3>2, <2>2 DEF DeletionInv
  <2>3. CASE q = r /\ x = g
    <3>1. pend'[r][g] = row
      BY <1>1 DEF TypeOK
    <3>2. Read(r, g).state = "deleted"
      BY <3>1, <2>3
    <3>3. ~Deletes(F, r, g)
      BY DEF Deletes
    <3>. QED
      BY <3>2, <3>3, <2>3, <1>1 DEF DeletionInv, Read, Known
  <2>. QED
    BY <2>1, <2>2, <2>3
<1>. QED
  BY <1>3, <1>4, <1>5, <1>6, <1>7, <1>8

\* A copy of the pool is taken, or readied to be saved, outside a transaction.
LEMMA Copies ==
  ASSUME NEW F \in GridIds, InvFor(F), NEW r \in Requests, pc[r] \in {"idle", "handler"},
         NEW to \in {"handler", "pool"}, NEW image \in PoolRow,
         pc' = [pc EXCEPT ![r] = to], mine' = [mine EXCEPT ![r] = image],
         UNCHANGED <<db, tx>>
  PROVE  InvFor(F)'
<1>. USE DEF InvFor, db, tx
<1>1. TypeOK'
  BY DEF TypeOK
<1>2. Known' = Known /\ AlwaysAGrid'
  BY DEF Known, AlwaysAGrid, ActiveIn
<1>3. PhaseInv'
  BY PoolTypes DEF PhaseInv, TypeOK
<1>4. TodoInv(F)'
  BY <1>2 DEF TodoInv, GoodStatement, Counts
<1>5. LockInv'
  BY DEF LockInv
<1>6. DeletionInv(F)'
  BY DEF DeletionInv, Deletes, ActiveIn
<1>. QED
  BY <1>1, <1>2, <1>3, <1>4, <1>5, <1>6

\* What a request about to lock is known to have.
LEMMA AboutToCount ==
  ASSUME NEW F \in GridIds, InvFor(F), NEW r \in Requests, pc[r] = "tx", todo[r] # <<>>,
         Counts(Head(todo[r]))
  PROVE  /\ GoodStatement(F, Head(todo[r]))
         /\ Head(todo[r]) \in Statement
         /\ pend[r] = NothingWritten
         /\ locks[r] = {}
<1>1. todo[r] \in Seq(Statement)
  BY DEF InvFor, TypeOK
<1>2. Head(todo[r]) \in Statement /\ Head(todo[r]) = todo[r][1] /\ 1 \in DOMAIN todo[r]
  BY <1>1, TailOf
<1>. QED
  BY <1>2 DEF InvFor, TodoInv

\* Which rows are to be locked is looked up.
LEMMA LooksUp ==
  ASSUME NEW F \in GridIds, InvFor(F), NEW r \in Requests, Perform(r)
  PROVE  InvFor(F)'
<1>. USE DEF InvFor, db
<1>. DEFINE next == Next1(r).next
            i == [do |-> "locking", next |-> next, ids |-> Known]
<1>1. /\ GoodStatement(F, Head(todo[r])) /\ Head(todo[r]) \in Statement
      /\ pend[r] = NothingWritten /\ locks[r] = {}
      /\ Head(todo[r]).do = "perform"
  BY AboutToCount DEF Perform, Doing, Next1, Counts
<1>2. next \in AfterLocking
  BY <1>1, StatementFields DEF Next1
<1>3. i \in Statement
  BY <1>2, StatementTypes DEF Known
<1>. HIDE DEF i
<1>4. todo' = [todo EXCEPT ![r] = <<i>>] /\ todo \in [Requests -> Seq(Statement)]
  BY DEF Perform, TypeOK, i
<1>5. UNCHANGED <<db, pc, mine, pend, drawn, locks>> /\ pc[r] = "tx"
  BY DEF Perform, Doing
<1>6. TypeOK'
  BY <1>3, <1>4, <1>5 DEF TypeOK
<1>7. Known' = Known /\ AlwaysAGrid'
  BY <1>5 DEF Known, AlwaysAGrid, ActiveIn
<1>8. PhaseInv'
  BY <1>4, <1>5 DEF PhaseInv
<1>9. TodoInv(F)'
  <2>1. GoodStatement(F, i)
    BY <1>1 DEF GoodStatement, i, Next1
  <2>2. \A x : GoodStatement(F, x) => GoodStatement(F, x)'
    BY <1>7 DEF GoodStatement
  <2>3. ASSUME NEW q \in Requests, NEW j \in DOMAIN todo'[q]
        PROVE  /\ GoodStatement(F, todo'[q][j])
               /\ Counts(todo'[q][j]) =>
                    Len(todo'[q]) = 1 /\ pend'[q] = NothingWritten /\ locks'[q] = {}
    <3>1. CASE q # r
      <4>1. todo'[q] = todo[q] /\ pend'[q] = pend[q] /\ locks'[q] = locks[q]
        BY <3>1, <1>4, <1>5
      <4>. QED
        BY <4>1, <2>3 DEF TodoInv
    <3>2. CASE q = r
      <4>1. todo'[q] = <<i>>
        BY <3>2, <1>4
      <4>2. j = 1 /\ todo'[q][j] = i /\ Len(todo'[q]) = 1
        BY <4>1, <2>3
      <4>. QED
        BY <4>2, <2>1, <1>1, <1>5, <3>2
    <3>. QED
      BY <3>1, <3>2
  <2>. QED
    BY <2>2, <2>3 DEF TodoInv, GoodStatement, Counts
<1>10. LockInv'
  BY <1>5 DEF LockInv
<1>11. DeletionInv(F)'
  BY <1>1, <1>4, <1>5 DEF DeletionInv, Deletes, ActiveIn, NothingWritten
<1>. QED
  BY <1>6, <1>7, <1>8, <1>9, <1>10, <1>11

\* The rows are locked and one of them is written: the last thing that
\* new_grid and delete_grid do.
LEMMA Counted ==
  ASSUME NEW F \in GridIds, InvFor(F), NEW r \in Requests, NEW do \in {"new", "delete"},
         Locked(r, do), NEW g \in GridIds, NEW row \in GridRow, NEW more \in SUBSET {g},
         g \in Next1(r).ids \cup more, \A q \in Requests, x \in more : x \notin locks[q],
         row.state = "active" \/ \E h \in ActiveIn(grids) : h # g,
         pend' = [pend EXCEPT ![r][g] = row],
         locks' = [locks EXCEPT ![r] = Next1(r).ids \cup more],
         todo' = [todo EXCEPT ![r] = <<>>],
         UNCHANGED <<db, pc, mine, drawn>>
  PROVE  InvFor(F)'
<1>. USE DEF InvFor, db
<1>. DEFINE ids == Next1(r).ids
<1>1. /\ GoodStatement(F, Head(todo[r])) /\ Head(todo[r]) \in Statement
      /\ pend[r] = NothingWritten /\ locks[r] = {}
      /\ Head(todo[r]).do = "locking" /\ pc[r] = "tx"
  BY AboutToCount DEF Locked, Doing, Next1, Counts
<1>2. ids \in SUBSET GridIds /\ F \in ids
  BY <1>1, StatementFields DEF Next1, GoodStatement
<1>3. \A q \in Requests \ {r} : ids \cap locks[q] = {}
  BY DEF Locked, Free
<1>. HIDE DEF ids
<1>4. /\ locks' = [locks EXCEPT ![r] = ids \cup more]
      /\ g \in ids \cup more
  BY DEF ids
<1>5. /\ pend'[r] = [NothingWritten EXCEPT ![g] = row]
      /\ \A q \in Requests \ {r} : pend'[q] = pend[q]
  BY <1>1 DEF TypeOK
<1>6. /\ locks'[r] = ids \cup more
      /\ \A q \in Requests \ {r} : locks'[q] = locks[q]
  BY <1>4 DEF TypeOK
<1>7. /\ todo'[r] = <<>>
      /\ \A q \in Requests \ {r} : todo'[q] = todo[q]
  BY DEF TypeOK
<1>8. TypeOK'
  BY <1>2, <1>4 DEF TypeOK
<1>9. Known' = Known /\ AlwaysAGrid'
  BY DEF Known, AlwaysAGrid, ActiveIn
<1>10. PhaseInv'
  BY <1>1, <1>5, <1>6, <1>7 DEF PhaseInv
<1>11. TodoInv(F)'
  BY <1>5, <1>6, <1>7, <1>9 DEF TodoInv, GoodStatement, Counts
<1>12. LockInv'
  <2>1. \A q \in Requests \ {r} : (ids \cup more) \cap locks[q] = {}
    BY <1>3
  <2>2. \A q, p \in Requests : q # p => locks'[q] \cap locks'[p] = {}
    BY <2>1, <1>6 DEF LockInv
  <2>3. \A q \in Requests, x \in GridIds : pend'[q][x] # None => x \in locks'[q]
    BY <1>4, <1>5, <1>6 DEF LockInv, NothingWritten
  <2>. QED
    BY <2>2, <2>3 DEF LockInv
<1>13. DeletionInv(F)'
  <2>. SUFFICES ASSUME NEW q \in Requests, NEW x \in GridIds,
                       pend'[q][x] # None, pend'[q][x].state = "deleted"
                PROVE  \/ grids'[x] # None /\ grids'[x].state = "deleted"
                       \/ Deletes(F, q, x)'
    BY DEF DeletionInv
  <2>1. CASE q # r
    BY <2>1, <1>5, <1>6, <1>7 DEF DeletionInv, Deletes, ActiveIn
  <2>2. CASE q = r
    <3>1. x = g /\ pend'[r][x] = row
      BY <2>2, <1>5 DEF NothingWritten
    <3>2. \E h \in ActiveIn(grids)' : h # x
      BY <3>1, <2>2 DEF ActiveIn
    <3>. QED
      BY <3>1, <3>2, <2>2, <1>2, <1>5, <1>6, <1>7 DEF Deletes, NothingWritten
  <2>. QED
    BY <2>1, <2>2
<1>. QED
  BY <1>8, <1>9, <1>10, <1>11, <1>12, <1>13

LEMMA Creates ==
  ASSUME NEW F \in GridIds, InvFor(F), NEW r \in Requests, NEW g \in GridIds, NewGrid(r, g)
  PROVE  InvFor(F)'
<1>1. PICK h \in GridIds : LastOfAll(h) /\ pend' = [pend EXCEPT ![r][g] = NewRow(grids[h].ord + 1)]
  BY DEF NewGrid
<1>2. grids[h] \in GridRow
  BY <1>1 DEF InvFor, TypeOK, LastOfAll, Known
<1>3. NewRow(grids[h].ord + 1) \in GridRow
  BY <1>2, RowTypes DEF GridRow
<1>4. NewRow(grids[h].ord + 1).state = "active"
  BY DEF NewRow
<1>5. /\ Locked(r, "new")
      /\ \A q \in Requests, x \in {g} : x \notin locks[q]
      /\ g \in Next1(r).ids \cup {g}
      /\ locks' = [locks EXCEPT ![r] = Next1(r).ids \cup {g}]
      /\ todo' = [todo EXCEPT ![r] = <<>>]
      /\ UNCHANGED <<db, pc, mine, drawn>>
  BY DEF NewGrid
<1>. DEFINE row == NewRow(grids[h].ord + 1)
<1>. HIDE DEF row
<1>6. row \in GridRow /\ row.state = "active" /\ pend' = [pend EXCEPT ![r][g] = row]
  BY <1>1, <1>3, <1>4 DEF row
<1>7. {g} \in SUBSET {g} /\ "new" \in {"new", "delete"}
  OBVIOUS
<1>. QED
  BY <1>5, <1>6, <1>7, Counted

\* A set with more than one element has one besides any given.
LEMMA AnotherOne ==
  ASSUME NEW S, IsFiniteSet(S), Cardinality(S) > 1, NEW g
  PROVE  \E h \in S : h # g
<1>. SUFFICES ASSUME \A h \in S : h = g
              PROVE  FALSE
  OBVIOUS
<1>1. S \subseteq {g} /\ IsFiniteSet({g}) /\ Cardinality({g}) = 1
  BY FS_Singleton
<1>2. Cardinality(S) <= 1
  BY <1>1, FS_Subset
<1>. QED
  BY <1>2, FS_CardinalityType

LEMMA DeletesOne ==
  ASSUME NEW F \in GridIds, InvFor(F), NEW r \in Requests, DeleteGrid(r)
  PROVE  InvFor(F)'
<1>. DEFINE g == Next1(r).next.grid
            row == [Read(r, g) EXCEPT !.state = "deleted"]
<1>1. /\ GoodStatement(F, Head(todo[r])) /\ Head(todo[r]) \in Statement
      /\ pend[r] = NothingWritten
      /\ Head(todo[r]).do = "locking" /\ Head(todo[r]).next.do = "delete"
  BY AboutToCount DEF DeleteGrid, Locked, Doing, Next1, Counts
<1>2. g \in Next1(r).ids /\ g \in Known /\ g \in GridIds
  BY <1>1 DEF GoodStatement, Next1, Known
<1>3. Read(r, g) \in GridRow
  BY <1>1, <1>2 DEF Read, NothingWritten, Known, InvFor, TypeOK
<1>4. row \in GridRow
  BY <1>3, RowTypes
<1>5. \E h \in ActiveIn(grids) : h # g
  <2>1. IsFiniteSet(ActiveIn(grids))
    BY GridsAssumption, FS_Subset DEF ActiveIn
  <2>2. Cardinality(ActiveIn(grids)) > 1
    BY DEF DeleteGrid
  <2>. QED
    BY <2>1, <2>2, AnotherOne
<1>6. /\ Locked(r, "delete")
      /\ \A q \in Requests, x \in {} : x \notin locks[q]
      /\ locks' = [locks EXCEPT ![r] = Next1(r).ids \cup {}]
      /\ todo' = [todo EXCEPT ![r] = <<>>]
      /\ UNCHANGED <<db, pc, mine, drawn>>
      /\ pend' = [pend EXCEPT ![r][g] = row]
  BY DEF DeleteGrid
<1>7. {} \in SUBSET {g} /\ "delete" \in {"new", "delete"} /\ g \in Next1(r).ids \cup {}
  BY <1>2
<1>. HIDE DEF row, g
<1>. QED
  BY <1>2, <1>4, <1>5, <1>6, <1>7, Counted

\* A commit takes no grid's row away, and of the grids that others count on
\* only those it deletes, which nobody else then does.
LEMMA Commits ==
  ASSUME NEW F \in GridIds, InvFor(F), NEW r \in Requests, Commit(r)
  PROVE  InvFor(F)'
<1>. USE DEF InvFor
<1>1. /\ pc[r] = "tx" /\ todo[r] = <<>> /\ todo' = todo /\ mine' = mine
      /\ grids' = [g \in GridIds |-> Read(r, g)]
  BY DEF Commit
<1>2. /\ pend'[r] = NothingWritten /\ locks'[r] = {}
      /\ \A q \in Requests \ {r} : pend'[q] = pend[q] /\ locks'[q] = locks[q] /\ pc'[q] = pc[q]
      /\ pc'[r] = IF mine[r] = None THEN "idle" ELSE "pool"
  BY DEF Commit, TypeOK
<1>3. TypeOK'
  BY RowTypes DEF TypeOK, Commit, Read
<1>4. \A g \in Known : g \in Known'
  BY <1>1, RowTypes DEF Known, Read, TypeOK
<1>5. \A h \in ActiveIn(grids) : h \in ActiveIn(grids') \/ Deletes(F, r, h)
  BY <1>1, RowTypes DEF ActiveIn, Read, TypeOK, DeletionInv, GridRow
<1>6. AlwaysAGrid'
  <2>1. CASE \E h \in ActiveIn(grids) : Deletes(F, r, h)
    BY <2>1, <1>1 DEF Deletes, AlwaysAGrid, ActiveIn, Read
  <2>. QED
    BY <2>1, <1>5 DEF AlwaysAGrid
<1>7. PhaseInv'
  BY <1>1, <1>2 DEF PhaseInv
<1>8. TodoInv(F)'
  <2>1. \A x : GoodStatement(F, x) => GoodStatement(F, x)'
    BY <1>4 DEF GoodStatement
  <2>2. ASSUME NEW q \in Requests, NEW j \in DOMAIN todo[q]
        PROVE  /\ GoodStatement(F, todo[q][j])
               /\ Counts(todo[q][j]) =>
                    Len(todo[q]) = 1 /\ pend'[q] = NothingWritten /\ locks'[q] = {}
    BY <1>1, <1>2, <2>2 DEF TodoInv
  <2>. QED
    BY <1>1, <2>1, <2>2 DEF TodoInv, GoodStatement, Counts
<1>9. LockInv'
  <2>1. \A q, p \in Requests : q # p => locks'[q] \cap locks'[p] = {}
    BY <1>2 DEF LockInv
  <2>2. \A q \in Requests, x \in GridIds : pend'[q][x] # None => x \in locks'[q]
    BY <1>2 DEF LockInv, NothingWritten
  <2>. QED
    BY <2>1, <2>2 DEF LockInv
<1>10. DeletionInv(F)'
  <2>. SUFFICES ASSUME NEW q \in Requests, NEW x \in GridIds,
                       pend'[q][x] # None, pend'[q][x].state = "deleted"
                PROVE  \/ grids'[x] # None /\ grids'[x].state = "deleted"
                       \/ Deletes(F, q, x)'
    BY DEF DeletionInv
  <2>1. q # r /\ pend[q][x] # None /\ pend[q][x].state = "deleted"
    BY <1>2 DEF NothingWritten
  <2>2. pend[r][x] = None
    BY <2>1 DEF LockInv
  <2>3. grids'[x] = grids[x]
    BY <1>1, <2>2 DEF Read
  <2>4. ASSUME Deletes(F, q, x)
        PROVE  Deletes(F, q, x)'
    <3>1. PICK h \in ActiveIn(grids) : h # x
      BY <2>4 DEF Deletes
    <3>2. ~Deletes(F, r, h)
      BY <2>1, <2>4 DEF Deletes, LockInv
    <3>3. h \in ActiveIn(grids')
      BY <3>1, <3>2, <1>5
    <3>. QED
      BY <2>1, <2>4, <3>1, <3>3, <1>1, <1>2 DEF Deletes
  <2>. QED
    BY <2>1, <2>3, <2>4 DEF DeletionInv
<1>. QED
  BY <1>3, <1>4, <1>6, <1>7, <1>8, <1>9, <1>10

-----------------------------------------------------------------------------
\* The handlers only start transactions of good statements.
LEMMA Handles ==
  ASSUME NEW F \in GridIds, InvFor(F), NEW r \in Requests, Handle(r)
  PROVE  InvFor(F)'
<1>. USE DEF InvFor
<1>1. pc[r] = "handler" /\ mine[r] \in PoolRow
  BY DEF Handle, Create, Edit, Delete, Reorder, Draw, DrawSets, ChangeConfig, SetLocks, Handling,
         PhaseInv, TypeOK
<1>2. None \in PoolRow \cup {None} /\ LockAfterDraw(r) \subseteq PoolRow \cup {None}
  BY <1>1, PoolTypes DEF LockAfterDraw
<1>3. \A i \in Statement :
        GoodStatement(F, i) => \A image \in PoolRow \cup {None} : RunTx(r, <<i>>, image) => InvFor(F)'
  <2>. SUFFICES ASSUME NEW i \in Statement, GoodStatement(F, i),
                       NEW image \in PoolRow \cup {None}, RunTx(r, <<i>>, image)
                PROVE  InvFor(F)'
    OBVIOUS
  <2>1. <<i>> \in Seq(Statement) /\ Len(<<i>>) = 1
    OBVIOUS
  <2>2. \A j \in DOMAIN <<i>> : <<i>>[j] = i
    OBVIOUS
  <2>3. \A j \in DOMAIN <<i>> : GoodStatement(F, <<i>>[j]) /\ (Counts(<<i>>[j]) => Len(<<i>>) = 1)
    BY <2>1, <2>2
  <2>. QED
    BY <1>1, <2>1, <2>3, Starts
<1>4. \A g \in ActiveIn(grids) : g \in Known /\ g \in GridIds /\ grids[g] \in GridRow /\ grids[g].state = "active"
  BY DEF ActiveIn, Known, TypeOK
<1>5. ASSUME Create(r) PROVE InvFor(F)'
  BY <1>2, <1>3, <1>5, StatementTypes DEF Create, GoodStatement
<1>6. ASSUME NEW g \in GridIds, Edit(r, g) PROVE InvFor(F)'
  BY <1>2, <1>3, <1>4, <1>6, StatementTypes DEF Edit, GoodStatement
<1>7. ASSUME NEW g \in GridIds, Delete(r, g) PROVE InvFor(F)'
  BY <1>2, <1>3, <1>4, <1>7, StatementTypes DEF Delete, GoodStatement
<1>8. ASSUME NEW g \in GridIds, NEW numbers \in Draws, Draw(r, g, numbers) PROVE InvFor(F)'
  <2>. DEFINE row == [grids[g] EXCEPT !.numbers = numbers]
  <2>1. row \in GridRow /\ row.state = "active" /\ g \in Known
    BY <1>4, <1>8, RowTypes DEF Draw, GridRow
  <2>2. PICK image \in LockAfterDraw(r) :
          RunTx(r, <<[do |-> "row", grid |-> g, to |-> row]>>, image)
    BY <1>8 DEF Draw
  <2>. HIDE DEF row
  <2>. QED
    BY <1>2, <1>3, <2>1, <2>2, StatementTypes DEF GoodStatement
<1>9. ASSUME NEW list \in Orders, Reorder(r, list) PROVE InvFor(F)'
  <2>. DEFINE S == [i \in DOMAIN list |->
                      [do |-> "ord", grid |-> list[i], to |-> i - 1, was |-> grids[list[i]].ord]]
  <2>1. PICK n \in Nat \ {0} : list \in [1..n -> Known]
    <3>1. IsFiniteSet(Known)
      BY GridsAssumption, FS_Subset DEF Known
    <3>2. Cardinality(Known) \in Nat
      BY <3>1, FS_CardinalityType
    <3>3. PICK n \in 1..Cardinality(Known) : list \in [1..n -> Known]
      BY DEF Orders
    <3>. QED
      BY <3>2, <3>3
  <2>2. \A i \in 1..n : list[i] \in Known /\ list[i] \in GridIds /\ i - 1 \in Nat
                       /\ grids[list[i]].ord \in Nat
    BY <2>1 DEF Known, TypeOK, GridRow
  <2>3. \A i \in 1..n : S[i] \in Statement /\ GoodStatement(F, S[i]) /\ ~Counts(S[i])
    BY <2>1, <2>2, StatementTypes DEF GoodStatement, Counts
  <2>4. DOMAIN S = 1..n /\ S \in Seq(Statement)
    BY <2>1, <2>3
  <2>5. RunTx(r, S, None)
    BY <1>9 DEF Reorder
  <2>. HIDE DEF S
  <2>. QED
    BY <1>1, <1>2, <2>3, <2>4, <2>5, Starts
<1>10. ASSUME NEW g \in GridIds, DrawSets(r, g) PROVE InvFor(F)'
  <2>. DEFINE types == SetTypes(mine[r].config)
              S == [i \in DOMAIN types |-> [do |-> "insert", grid |-> g, to |-> types[i]]]
  <2>1. mine[r].config \in Configs /\ mine[r].config # "standard"
    BY <1>1, <1>10 DEF PoolRow, DrawSets
  <2>2. /\ DOMAIN types = 1..Len(types) /\ Len(types) \in Nat
        /\ \A j \in DOMAIN types : types[j] \in AllSetTypes
    BY <2>1, SetTypesType
  <2>3. PICK image \in LockAfterDraw(r) : RunTx(r, S, image)
    BY <1>10 DEF DrawSets
  <2>. HIDE DEF types
  <2>4. \A i \in DOMAIN S : S[i] \in Statement /\ GoodStatement(F, S[i]) /\ ~Counts(S[i])
    BY <2>2, StatementTypes DEF GoodStatement, Counts
  <2>5. S \in Seq(Statement)
    BY <2>2, <2>4
  <2>. HIDE DEF S
  <2>. QED
    BY <1>1, <1>2, <2>3, <2>4, <2>5, Starts
<1>11. ASSUME NEW config \in Configs, ChangeConfig(r, config) PROVE InvFor(F)'
  BY <1>1, <1>11, PoolTypes, Copies DEF ChangeConfig, SavePool
<1>12. ASSUME NEW past \in BOOLEAN, SetLocks(r, past) PROVE InvFor(F)'
  BY <1>1, <1>12, PoolTypes, Copies DEF SetLocks, SavePool
<1>. QED
  BY <1>5, <1>6, <1>7, <1>8, <1>9, <1>10, <1>11, <1>12 DEF Handle

\* The transactions.
LEMMA Runs ==
  ASSUME NEW F \in GridIds, InvFor(F), NEW r \in Requests, Run(r)
  PROVE  InvFor(F)'
<1>. USE DEF InvFor
<1>1. ASSUME Perform(r) PROVE InvFor(F)'
  BY <1>1, LooksUp
<1>2. ASSUME NEW g \in GridIds, NewGrid(r, g) PROVE InvFor(F)'
  BY <1>2, Creates
<1>3. ASSUME End(r), UNCHANGED <<grids, sets>>, pool' \in PoolRow PROVE InvFor(F)'
  BY <1>3, Ends
<1>4. ASSUME Stop(r) PROVE InvFor(F)'
  BY <1>3, <1>4 DEF Stop, db, TypeOK
<1>5. ASSUME PoolSave(r) PROVE InvFor(F)'
  <2>. mine[r] \in PoolRow
    BY <1>5 DEF PoolSave, PhaseInv, TypeOK
  <2>. QED
    BY <1>3, <1>5 DEF PoolSave
<1>6. ASSUME DeleteGrid(r) PROVE InvFor(F)'
  BY <1>6, DeletesOne
<1>7. ASSUME pc[r] = "tx", todo[r] # <<>>
      PROVE  /\ Next1(r) = todo[r][1] /\ Next1(r) \in Statement
             /\ GoodStatement(F, Next1(r))
  <2>. todo[r] \in Seq(Statement)
    BY DEF TypeOK
  <2>. QED
    BY <1>7, TailOf DEF Next1, TodoInv
<1>8. ASSUME SaveGrid(r) PROVE InvFor(F)'
  <2>1. /\ pc[r] = "tx" /\ todo[r] # <<>> /\ Next1(r).do = "row"
        /\ UpdateRow(r, Next1(r).grid, Next1(r).to)
    BY <1>8 DEF SaveGrid, Doing
  <2>2. Next1(r).grid \in Known /\ Next1(r).to \in GridRow /\ Next1(r).to.state = "active"
    BY <1>7, <2>1, StatementFields DEF GoodStatement
  <2>3. ~Counts(Head(todo[r]))
    BY <2>1 DEF Counts, Next1
  <2>. QED
    BY <2>1, <2>2, <2>3, Updates
<1>9. ASSUME UpdateOrd(r) PROVE InvFor(F)'
  <2>. DEFINE g == Next1(r).grid
              row == [Read(r, g) EXCEPT !.ord = Next1(r).to]
  <2>1. /\ pc[r] = "tx" /\ todo[r] # <<>> /\ Next1(r).do = "ord"
        /\ UpdateRow(r, g, row)
    BY <1>9 DEF UpdateOrd, Doing
  <2>2. g \in Known /\ Next1(r).to \in Nat
    BY <1>7, <2>1, StatementFields DEF GoodStatement
  <2>3. Read(r, g) \in GridRow
    BY <2>2 DEF Read, Known, TypeOK
  <2>4. row \in GridRow /\ row.state = Read(r, g).state
    BY <2>2, <2>3, RowTypes DEF GridRow
  <2>5. ~Counts(Head(todo[r]))
    BY <2>1 DEF Counts, Next1
  <2>. HIDE DEF g, row
  <2>. QED
    BY <2>1, <2>2, <2>4, <2>5, Updates
<1>10. ASSUME KeepOrd(r) PROVE InvFor(F)'
  <2>. drawn' \in [Requests -> SUBSET (GridIds \X AllSetTypes)]
    BY <1>10 DEF KeepOrd, TypeOK
  <2>. QED
    BY <1>10, Advances DEF KeepOrd, Doing
<1>11. ASSUME InsertSet(r) PROVE InvFor(F)'
  <2>1. pc[r] = "tx" /\ todo[r] # <<>> /\ Next1(r).do = "insert"
    BY <1>11 DEF InsertSet, Doing
  <2>2. <<Next1(r).grid, Next1(r).to>> \in GridIds \X AllSetTypes
    BY <1>7, <2>1, StatementFields
  <2>3. drawn' \in [Requests -> SUBSET (GridIds \X AllSetTypes)]
    BY <1>11, <2>2 DEF InsertSet, TypeOK
  <2>. QED
    BY <1>11, <2>1, <2>3, Advances DEF InsertSet
<1>12. ASSUME Commit(r) PROVE InvFor(F)'
  BY <1>12, Commits
<1>. QED
  BY <1>1, <1>2, <1>4, <1>5, <1>6, <1>8, <1>9, <1>10, <1>11, <1>12
     DEF Run, GridLimit, LastGrid

LEMMA InitInv == Init => GridsInv
<1>. SUFFICES ASSUME Init PROVE GridsInv
  OBVIOUS
<1>1. PICK first \in GridIds :
        grids = [g \in GridIds |-> IF g = first THEN NewRow(0) ELSE None]
  BY DEF Init
<1>2. NewRow(0) \in GridRow /\ NewRow(0) # None /\ NewRow(0).state = "active"
  BY RowTypes DEF NewRow
<1>3. TypeOK
  <2>1. grids \in [GridIds -> GridRow \cup {None}]
    BY <1>1, <1>2
  <2>2. pool \in PoolRow
    BY DEF Init, PoolRow
  <2>3. todo \in [Requests -> Seq(Statement)]
    BY DEF Init
  <2>. QED
    BY <2>1, <2>2, <2>3, RowTypes DEF Init, TypeOK
<1>4. first \in Known /\ AlwaysAGrid
  BY <1>1, <1>2 DEF Known, AlwaysAGrid, ActiveIn
<1>5. PhaseInv /\ TodoInv(first) /\ LockInv /\ DeletionInv(first)
  BY DEF Init, PhaseInv, TodoInv, LockInv, DeletionInv, NothingWritten
<1>. QED
  BY <1>3, <1>4, <1>5 DEF GridsInv, InvFor

\* Every step keeps the invariant, with the same F.
LEMMA NextFor ==
  ASSUME NEW F \in GridIds, InvFor(F), [Next]_vars
  PROVE  InvFor(F)'
<1>1. CASE UNCHANGED vars
  BY <1>1
     DEF InvFor, TypeOK, Known, PhaseInv, TodoInv, GoodStatement, Counts, LockInv,
         DeletionInv, Deletes, AlwaysAGrid, ActiveIn, vars
<1>2. ASSUME NEW r \in Requests, Begin(r)
      PROVE  InvFor(F)'
  <2>. pool \in PoolRow
    BY DEF InvFor, TypeOK
  <2>. QED
    BY <1>2, Copies DEF Begin
<1>3. ASSUME NEW r \in Requests, Stop(r)
      PROVE  InvFor(F)'
  <2>. pool' \in PoolRow
    BY <1>3 DEF InvFor, TypeOK, Stop, db
  <2>. QED
    BY <1>3, Ends DEF Stop, db
<1>. QED
  BY <1>1, <1>2, <1>3, Handles, Runs DEF Next

LEMMA NextInv == GridsInv /\ [Next]_vars => GridsInv'
  BY NextFor DEF GridsInv

-----------------------------------------------------------------------------
\* The type invariant, for every number of grids and of requests.
THEOREM GridsTypeCorrect == Spec => []TypeOK
<1>. GridsInv => TypeOK
  BY DEF GridsInv, InvFor
<1>. QED
  BY InitInv, NextInv, PTL DEF Spec

\* However many creations, edits of stale copies, reorders, draws and deletions
\* overlap, the pool keeps an active grid: the transactions that count the
\* grids all lock the first one's row, so between a deletion's count and its
\* commit nothing else deletes.
THEOREM KeepsAGrid == Spec => []AlwaysAGrid
<1>. GridsInv => AlwaysAGrid
  BY DEF GridsInv, InvFor
<1>. QED
  BY InitInv, NextInv, PTL DEF Spec
=============================================================================
