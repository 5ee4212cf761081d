--------------------------- MODULE PoolGridsSafety ---------------------------
(***************************************************************************)
(* That the number sets of a grid come together, that the limit of grids   *)
(* holds and that a new grid comes last: proofs for any number of grids    *)
(* and of requests that overlap.                                           *)
(***************************************************************************)
EXTENDS PoolGridsProofs

TypesOf(config) == {SetTypes(config)[i] : i \in DOMAIN SetTypes(config)}

\* A draw of number sets has inserted some of the sets of its configuration,
\* and the others are what it has still to insert.
Drawing(r, g, config) ==
  /\ drawn[r] \subseteq {g} \X TypesOf(config)
  /\ \A j \in DOMAIN todo[r] :
       todo[r][j].do = "insert" /\ todo[r][j].grid = g /\ todo[r][j].to \in TypesOf(config)
  /\ \A t \in TypesOf(config) :
       <<g, t>> \in drawn[r] \/ \E j \in DOMAIN todo[r] : todo[r][j].to = t

\* Every other request inserts none.
NotDrawing(r) ==
  drawn[r] = {} /\ \A j \in DOMAIN todo[r] : todo[r][j].do # "insert"

WholeDraw(r) == NotDrawing(r) \/ \E g \in GridIds, config \in {"123f", "hf"} : Drawing(r, g, config)

\* The unique key keeps what is inserted apart from what is committed and from
\* what others have inserted.
UniqueKey ==
  /\ \A r \in Requests : drawn[r] \cap sets = {}
  /\ \A r, q \in Requests : r # q => drawn[r] \cap drawn[q] = {}

SetsInv ==
  /\ NumberSetsWhole
  /\ UniqueKey
  /\ \A r \in Requests : WholeDraw(r) /\ (pc[r] # "tx" => drawn[r] = {})

-----------------------------------------------------------------------------
\* Both configurations with several sets have a final one.
LEMMA BothHaveFinal ==
  ASSUME NEW config \in {"123f", "hf"}
  PROVE  TypesOf(config) \subseteq AllSetTypes /\ "final" \in TypesOf(config)
<1>1. CASE config = "123f"
  BY <1>1 DEF TypesOf, SetTypes, AllSetTypes
<1>2. CASE config = "hf"
  BY <1>2 DEF TypesOf, SetTypes, AllSetTypes
<1>. QED
  BY <1>1, <1>2

\* A step of r that inserts nothing and commits nothing.
LEMMA InsertsNothing ==
  ASSUME SetsInv, NEW r \in Requests, sets' = sets,
         \A q \in Requests \ {r} : drawn'[q] = drawn[q] /\ todo'[q] = todo[q] /\ pc'[q] = pc[q],
         drawn'[r] = {},
         WholeDraw(r)'
  PROVE  SetsInv'
<1>1. NumberSetsWhole'
  BY DEF SetsInv, NumberSetsWhole
<1>2. UniqueKey'
  BY DEF SetsInv, UniqueKey
<1>3. \A q \in Requests \ {r} : WholeDraw(q)' /\ (pc'[q] # "tx" => drawn'[q] = {})
  BY DEF SetsInv, WholeDraw, NotDrawing, Drawing
<1>. QED
  BY <1>1, <1>2, <1>3 DEF SetsInv

\* Whoever is to run another kind of statement draws no sets.
LEMMA OtherStatement ==
  ASSUME TypeOK, SetsInv, NEW r \in Requests, todo[r] # <<>>, Next1(r).do # "insert"
  PROVE  NotDrawing(r)
<1>1. Next1(r) = todo[r][1] /\ 1 \in DOMAIN todo[r]
  BY TailOf DEF TypeOK, Next1
<1>. QED
  BY <1>1 DEF SetsInv, WholeDraw, Drawing

\* Such a statement is done, or the function it calls goes on.
LEMMA OtherRuns ==
  ASSUME TypeOK, SetsInv, NEW r \in Requests, todo[r] # <<>>, Next1(r).do # "insert",
         UNCHANGED <<sets, drawn, pc>>,
         NEW S, todo' = [todo EXCEPT ![r] = S],
         \A j \in DOMAIN S : S[j].do # "insert"
  PROVE  SetsInv'
<1>1. NotDrawing(r)
  BY OtherStatement
<1>2. /\ drawn'[r] = {} /\ todo'[r] = S
      /\ \A q \in Requests \ {r} : drawn'[q] = drawn[q] /\ todo'[q] = todo[q] /\ pc'[q] = pc[q]
  BY <1>1 DEF TypeOK, NotDrawing
<1>3. WholeDraw(r)'
  BY <1>2 DEF WholeDraw, NotDrawing
<1>. QED
  BY <1>2, <1>3, InsertsNothing

LEMMA OtherTail ==
  ASSUME TypeOK, SetsInv, NEW r \in Requests, todo[r] # <<>>, Next1(r).do # "insert",
         UNCHANGED <<sets, drawn, pc>>,
         todo' = [todo EXCEPT ![r] = Tail(@)]
  PROVE  SetsInv'
<1>1. NotDrawing(r)
  BY OtherStatement
<1>2. \A j \in DOMAIN Tail(todo[r]) : j + 1 \in DOMAIN todo[r] /\ Tail(todo[r])[j] = todo[r][j + 1]
  BY TailOf DEF TypeOK
<1>3. \A j \in DOMAIN Tail(todo[r]) : Tail(todo[r])[j].do # "insert"
  BY <1>1, <1>2 DEF NotDrawing
<1>4. todo' = [todo EXCEPT ![r] = Tail(todo[r])]
  OBVIOUS
<1>. QED
  BY <1>3, <1>4, OtherRuns

\* A request without a transaction, or whose transaction ends without a commit.
LEMMA NoTransaction ==
  ASSUME TypeOK, SetsInv, NEW r \in Requests, End(r), UNCHANGED sets
  PROVE  SetsInv'
<1>1. /\ drawn'[r] = {} /\ todo'[r] = <<>>
      /\ \A q \in Requests \ {r} : drawn'[q] = drawn[q] /\ todo'[q] = todo[q] /\ pc'[q] = pc[q]
  BY DEF TypeOK, End
<1>2. WholeDraw(r)'
  BY <1>1 DEF WholeDraw, NotDrawing
<1>. QED
  BY <1>1, <1>2, InsertsNothing

LEMMA OutsideTransaction ==
  ASSUME TypeOK, SetsInv, NEW r \in Requests, pc[r] # "tx",
         NEW to, pc' = [pc EXCEPT ![r] = to], UNCHANGED <<db, tx>>
  PROVE  SetsInv'
<1>1. /\ drawn'[r] = {} /\ sets' = sets
      /\ \A q \in Requests \ {r} : drawn'[q] = drawn[q] /\ todo'[q] = todo[q] /\ pc'[q] = pc[q]
  BY DEF TypeOK, SetsInv, db, tx
<1>2. WholeDraw(r)'
  BY DEF SetsInv, WholeDraw, NotDrawing, Drawing, tx
<1>. QED
  BY <1>1, <1>2, InsertsNothing

\* A transaction begins: without sets to insert, or with those of a configuration.
LEMMA BeginsWith ==
  ASSUME TypeOK, SetsInv, NEW r \in Requests, pc[r] = "handler",
         NEW S, NEW image, RunTx(r, S, image),
         \/ \A j \in DOMAIN S : S[j].do # "insert"
         \/ \E g \in GridIds, config \in {"123f", "hf"} :
              S = [i \in DOMAIN SetTypes(config) |->
                     [do |-> "insert", grid |-> g, to |-> SetTypes(config)[i]]]
  PROVE  SetsInv'
<1>1. /\ drawn'[r] = {} /\ todo'[r] = S /\ sets' = sets
      /\ \A q \in Requests \ {r} : drawn'[q] = drawn[q] /\ todo'[q] = todo[q] /\ pc'[q] = pc[q]
  BY DEF TypeOK, SetsInv, RunTx, db
<1>2. CASE \A j \in DOMAIN S : S[j].do # "insert"
  BY <1>1, <1>2, InsertsNothing DEF WholeDraw, NotDrawing
<1>3. ASSUME NEW g \in GridIds, NEW config \in {"123f", "hf"},
             S = [i \in DOMAIN SetTypes(config) |->
                    [do |-> "insert", grid |-> g, to |-> SetTypes(config)[i]]]
      PROVE  SetsInv'
  <2>1. Drawing(r, g, config)'
    BY <1>1, <1>3 DEF Drawing, TypesOf
  <2>. QED
    BY <1>1, <2>1, InsertsNothing DEF WholeDraw
<1>. QED
  BY <1>2, <1>3

-----------------------------------------------------------------------------
\* A set is inserted that nobody else has, committed or not.
LEMMA Inserts ==
  ASSUME TypeOK, SetsInv, NEW r \in Requests, InsertSet(r)
  PROVE  SetsInv'
<1>. DEFINE row == <<Next1(r).grid, Next1(r).to>>
<1>1. /\ pc[r] = "tx" /\ todo[r] # <<>> /\ Next1(r).do = "insert"
      /\ row \notin sets /\ \A q \in Requests \ {r} : row \notin drawn[q]
      /\ UNCHANGED <<sets, pc>>
  BY DEF InsertSet, Doing, db
<1>2. /\ Next1(r) = todo[r][1] /\ 1 \in DOMAIN todo[r]
      /\ DOMAIN todo[r] = 1..Len(todo[r]) /\ Len(todo[r]) \in Nat
      /\ DOMAIN Tail(todo[r]) = 1..(Len(todo[r]) - 1)
      /\ \A j \in DOMAIN Tail(todo[r]) :
           j + 1 \in DOMAIN todo[r] /\ Tail(todo[r])[j] = todo[r][j + 1]
  BY <1>1, TailOf DEF TypeOK, Next1
<1>3. /\ drawn'[r] = drawn[r] \cup {row} /\ todo'[r] = Tail(todo[r])
      /\ \A q \in Requests \ {r} : drawn'[q] = drawn[q] /\ todo'[q] = todo[q]
  BY DEF InsertSet, TypeOK
<1>4. UniqueKey'
  BY <1>1, <1>3 DEF SetsInv, UniqueKey
<1>5. PICK g \in GridIds, config \in {"123f", "hf"} : Drawing(r, g, config)
  BY <1>1, <1>2 DEF SetsInv, WholeDraw, NotDrawing
<1>6. Drawing(r, g, config)'
  <2>1. row = <<g, todo[r][1].to>> /\ todo[r][1].to \in TypesOf(config)
    BY <1>2, <1>5 DEF Drawing
  <2>2. drawn'[r] \subseteq {g} \X TypesOf(config)
    BY <1>3, <1>5, <2>1 DEF Drawing
  <2>3. \A j \in DOMAIN Tail(todo[r]) :
          /\ Tail(todo[r])[j].do = "insert" /\ Tail(todo[r])[j].grid = g
          /\ Tail(todo[r])[j].to \in TypesOf(config)
    BY <1>2, <1>5 DEF Drawing
  <2>4. ASSUME NEW t \in TypesOf(config), <<g, t>> \notin drawn'[r]
        PROVE  \E j \in DOMAIN Tail(todo[r]) : Tail(todo[r])[j].to = t
    <3>1. PICK i \in DOMAIN todo[r] : todo[r][i].to = t
      BY <1>3, <1>5, <2>4 DEF Drawing
    <3>2. i # 1
      BY <1>3, <2>1, <2>4, <3>1
    <3>3. i - 1 \in DOMAIN Tail(todo[r]) /\ (i - 1) + 1 = i
      BY <1>2, <3>1, <3>2
    <3>4. Tail(todo[r])[i - 1] = todo[r][i]
      BY <1>2, <3>3
    <3>. QED
      BY <3>1, <3>3, <3>4
  <2>. QED
    BY <1>3, <2>2, <2>3, <2>4 DEF Drawing
<1>7. \A q \in Requests : WholeDraw(q)' /\ (pc'[q] # "tx" => drawn'[q] = {})
  <2>1. \A q \in Requests \ {r} : WholeDraw(q)' /\ (pc'[q] # "tx" => drawn'[q] = {})
    BY <1>1, <1>3 DEF SetsInv, WholeDraw, NotDrawing, Drawing
  <2>. QED
    BY <1>1, <1>6, <2>1 DEF WholeDraw
<1>8. NumberSetsWhole'
  BY <1>1 DEF SetsInv, NumberSetsWhole
<1>. QED
  BY <1>4, <1>7, <1>8 DEF SetsInv

\* A draw commits all of its sets at once, and the grid had none: it would have
\* had a final one.
LEMMA CommitsWhole ==
  ASSUME TypeOK, SetsInv, NEW r \in Requests, Commit(r)
  PROVE  SetsInv'
<1>1. /\ pc[r] = "tx" /\ todo[r] = <<>> /\ todo' = todo
      /\ sets' = sets \cup drawn[r] /\ drawn'[r] = {}
      /\ \A q \in Requests \ {r} : drawn'[q] = drawn[q] /\ pc'[q] = pc[q]
  BY DEF Commit, TypeOK
<1>2. UniqueKey'
  BY <1>1 DEF SetsInv, UniqueKey
<1>3. \A q \in Requests : WholeDraw(q)' /\ (pc'[q] # "tx" => drawn'[q] = {})
  <2>1. \A q \in Requests \ {r} : WholeDraw(q)' /\ (pc'[q] # "tx" => drawn'[q] = {})
    BY <1>1 DEF SetsInv, WholeDraw, NotDrawing, Drawing
  <2>2. WholeDraw(r)'
    BY <1>1 DEF WholeDraw, NotDrawing
  <2>. QED
    BY <1>1, <2>1, <2>2
<1>4. NumberSetsWhole'
  <2>1. CASE NotDrawing(r)
    BY <1>1, <2>1 DEF NotDrawing, SetsInv, NumberSetsWhole
  <2>2. ASSUME NEW g \in GridIds, NEW config \in {"123f", "hf"}, Drawing(r, g, config)
        PROVE  NumberSetsWhole'
    <3>1. drawn[r] = {g} \X TypesOf(config)
      BY <1>1, <2>2 DEF Drawing
    <3>2. "final" \in TypesOf(config) /\ TypesOf(config) \subseteq AllSetTypes
      BY BothHaveFinal
    <3>3. <<g, "final">> \notin sets
      BY <3>1, <3>2 DEF SetsInv, UniqueKey
    <3>4. {t \in AllSetTypes : <<g, t>> \in sets} = {}
      BY <3>3, BothHaveFinal DEF SetsInv, NumberSetsWhole, TypesOf
    <3>5. {t \in AllSetTypes : <<g, t>> \in sets'} = TypesOf(config)
      BY <1>1, <3>1, <3>2, <3>4
    <3>6. \A x \in GridIds \ {g} :
            {t \in AllSetTypes : <<x, t>> \in sets'} = {t \in AllSetTypes : <<x, t>> \in sets}
      BY <1>1, <3>1
    <3>. QED
      BY <3>5, <3>6 DEF SetsInv, NumberSetsWhole, TypesOf
  <2>. QED
    BY <2>1, <2>2 DEF SetsInv, WholeDraw
<1>. QED
  BY <1>2, <1>3, <1>4 DEF SetsInv

-----------------------------------------------------------------------------
LEMMA HandlesSets ==
  ASSUME GridsInv, SetsInv, NEW r \in Requests, Handle(r)
  PROVE  SetsInv'
<1>1. TypeOK /\ PhaseInv
  BY DEF GridsInv, InvFor
<1>2. pc[r] = "handler" /\ mine[r] \in PoolRow
  BY <1>1 DEF Handle, Create, Edit, Delete, Reorder, Draw, DrawSets, ChangeConfig, SetLocks, Handling,
              PhaseInv, TypeOK
<1>3. ASSUME NEW i, i.do # "insert", NEW image, RunTx(r, <<i>>, image)
      PROVE  SetsInv'
  <2>1. \A j \in DOMAIN <<i>> : <<i>>[j].do # "insert"
    BY <1>3
  <2>. QED
    BY <1>1, <1>2, <1>3, <2>1, BeginsWith
<1>4. ASSUME Create(r) PROVE SetsInv'
  BY <1>3, <1>4 DEF Create
<1>5. ASSUME NEW g \in GridIds, Edit(r, g) PROVE SetsInv'
  BY <1>3, <1>5 DEF Edit
<1>6. ASSUME NEW g \in GridIds, Delete(r, g) PROVE SetsInv'
  BY <1>3, <1>6 DEF Delete
<1>7. ASSUME NEW list \in Orders, Reorder(r, list) PROVE SetsInv'
  <2>. DEFINE S == [i \in DOMAIN list |->
                      [do |-> "ord", grid |-> list[i], to |-> i - 1, was |-> grids[list[i]].ord]]
  <2>1. RunTx(r, S, None)
    BY <1>7 DEF Reorder
  <2>2. \A j \in DOMAIN S : S[j].do # "insert"
    OBVIOUS
  <2>. HIDE DEF S
  <2>. QED
    BY <1>1, <1>2, <2>1, <2>2, BeginsWith
<1>8. ASSUME NEW g \in GridIds, NEW numbers \in Draws, Draw(r, g, numbers) PROVE SetsInv'
  BY <1>3, <1>8 DEF Draw
<1>9. ASSUME NEW g \in GridIds, DrawSets(r, g) PROVE SetsInv'
  <2>. DEFINE config == mine[r].config
              S == [i \in DOMAIN SetTypes(config) |->
                      [do |-> "insert", grid |-> g, to |-> SetTypes(config)[i]]]
  <2>1. config \in {"123f", "hf"}
    BY <1>2, <1>9, GridsAssumption DEF PoolRow, DrawSets
  <2>2. PICK image \in LockAfterDraw(r) : RunTx(r, S, image)
    BY <1>9 DEF DrawSets
  <2>. HIDE DEF config
  <2>. QED
    BY <1>1, <1>2, <2>1, <2>2, BeginsWith
<1>10. ASSUME NEW config \in Configs, ChangeConfig(r, config) PROVE SetsInv'
  BY <1>1, <1>2, <1>10, OutsideTransaction DEF ChangeConfig, SavePool
<1>11. ASSUME NEW past \in BOOLEAN, SetLocks(r, past) PROVE SetsInv'
  BY <1>1, <1>2, <1>11, OutsideTransaction DEF SetLocks, SavePool
<1>. QED
  BY <1>4, <1>5, <1>6, <1>7, <1>8, <1>9, <1>10, <1>11 DEF Handle

LEMMA RunsSets ==
  ASSUME GridsInv, SetsInv, NEW r \in Requests, Run(r) \/ Stop(r)
  PROVE  SetsInv'
<1>1. TypeOK
  BY DEF GridsInv, InvFor
<1>2. ASSUME Stop(r) PROVE SetsInv'
  BY <1>1, <1>2, NoTransaction DEF Stop, db
<1>3. ASSUME PoolSave(r) PROVE SetsInv'
  BY <1>1, <1>3, NoTransaction DEF PoolSave
<1>4. ASSUME Perform(r) PROVE SetsInv'
  <2>. DEFINE i == [do |-> "locking", next |-> Next1(r).next, ids |-> Known]
  <2>1. /\ todo[r] # <<>> /\ Next1(r).do # "insert" /\ UNCHANGED <<sets, drawn, pc>>
        /\ todo' = [todo EXCEPT ![r] = <<i>>]
    BY <1>4 DEF Perform, Doing, db
  <2>2. \A j \in DOMAIN <<i>> : <<i>>[j].do # "insert"
    OBVIOUS
  <2>. HIDE DEF i
  <2>. QED
    BY <1>1, <2>1, <2>2, OtherRuns
<1>5. ASSUME \/ DeleteGrid(r)
             \/ \E g \in GridIds : NewGrid(r, g)
      PROVE  SetsInv'
  <2>1. /\ todo[r] # <<>> /\ Next1(r).do # "insert" /\ UNCHANGED <<sets, drawn, pc>>
        /\ todo' = [todo EXCEPT ![r] = <<>>]
    BY <1>5 DEF DeleteGrid, NewGrid, Locked, Doing, db
  <2>2. \A j \in DOMAIN <<>> : <<>>[j].do # "insert"
    OBVIOUS
  <2>. QED
    BY <1>1, <2>1, <2>2, OtherRuns
<1>6. ASSUME SaveGrid(r) \/ UpdateOrd(r) \/ KeepOrd(r) PROVE SetsInv'
  <2>1. /\ todo[r] # <<>> /\ Next1(r).do # "insert" /\ UNCHANGED <<sets, drawn, pc>>
        /\ todo' = [todo EXCEPT ![r] = Tail(@)]
    BY <1>6 DEF SaveGrid, UpdateOrd, KeepOrd, UpdateRow, Doing, db
  <2>. QED
    BY <1>1, <2>1, OtherTail
<1>7. ASSUME InsertSet(r) PROVE SetsInv'
  BY <1>1, <1>7, Inserts
<1>8. ASSUME Commit(r) PROVE SetsInv'
  BY <1>1, <1>8, CommitsWhole
<1>. QED
  BY <1>2, <1>3, <1>4, <1>5, <1>6, <1>7, <1>8 DEF Run, GridLimit, LastGrid

LEMMA NextSets == GridsInv /\ SetsInv /\ [Next]_vars => SetsInv'
<1>. SUFFICES ASSUME GridsInv, SetsInv, [Next]_vars PROVE SetsInv'
  OBVIOUS
<1>1. CASE UNCHANGED vars
  BY <1>1 DEF vars, SetsInv, NumberSetsWhole, UniqueKey, WholeDraw, NotDrawing, Drawing
<1>2. ASSUME NEW r \in Requests, Begin(r) PROVE SetsInv'
  BY <1>2, OutsideTransaction DEF Begin, GridsInv, InvFor
<1>. QED
  BY <1>1, <1>2, HandlesSets, RunsSets DEF Next

\* The number sets of a grid are those of one configuration, or none, for every
\* number of draws that overlap with each other, with other changes of the grid
\* and with changes of the configuration: a draw that loses the race for the
\* unique key loses all of its sets.
THEOREM NumberSetsComeTogether == Spec => []NumberSetsWhole
<1>1. Init => SetsInv
  BY DEF Init, SetsInv, NumberSetsWhole, UniqueKey, WholeDraw, NotDrawing
<1>2. SetsInv => NumberSetsWhole
  BY DEF SetsInv
<1>. QED
  BY <1>1, <1>2, InitInv, NextInv, NextSets, PTL DEF Spec

-----------------------------------------------------------------------------
\* The limit.

\* Nobody writes a loaded copy of a grid back, and nobody moves grids.
NoCopies == Endpoints \cap {"edit", "draw"} = {}

NoMoves == "reorder" \notin Endpoints

\* A row that is about to appear belongs to a creation that holds F, has
\* counted less than the limit, has nothing else to do, and comes last.
Creating(F, r, g) ==
  /\ grids[g] = None
  /\ F \in locks[r]
  /\ todo[r] = <<>>
  /\ \A x \in GridIds \ {g} : pend[r][x] = None
  /\ Cardinality(ActiveIn(grids)) < MaxGridsPerPool
  /\ NoMoves => \A h \in Known : grids[h].ord < pend[r][g].ord

\* Any other row that is written stays as active as it is, or becomes deleted.
Rewriting(r, g) ==
  /\ grids[g] # None
  /\ pend[r][g].state \in {grids[g].state, "deleted"}
  /\ NoMoves => pend[r][g].ord = grids[g].ord

LimitInv(F) ==
  /\ WithinLimit
  /\ \A r \in Requests : \A j \in DOMAIN todo[r] :
       todo[r][j].do # "row" /\ (NoMoves => todo[r][j].do # "ord")
  /\ \A r \in Requests, g \in GridIds :
       pend[r][g] # None => Rewriting(r, g) \/ Creating(F, r, g)

LimitsInv == \E F \in GridIds : InvFor(F) /\ LimitInv(F)

\* A step of r that commits nothing.
LEMMA CommitsNothing ==
  ASSUME NEW F \in GridIds, LimitInv(F), NEW r \in Requests, grids' = grids,
         \A q \in Requests \ {r} : pend'[q] = pend[q] /\ todo'[q] = todo[q] /\ locks'[q] = locks[q],
         \A j \in DOMAIN todo'[r] : todo'[r][j].do # "row" /\ (NoMoves => todo'[r][j].do # "ord"),
         \A g \in GridIds : pend'[r][g] # None => Rewriting(r, g)' \/ Creating(F, r, g)'
  PROVE  LimitInv(F)'
<1>1. WithinLimit'
  BY DEF LimitInv, WithinLimit, ActiveIn
<1>2. ASSUME NEW q \in Requests, q # r, NEW g \in GridIds, pend'[q][g] # None
      PROVE  Rewriting(q, g)' \/ Creating(F, q, g)'
  <2>1. pend'[q] = pend[q] /\ todo'[q] = todo[q] /\ locks'[q] = locks[q]
    BY <1>2
  <2>2. CASE Rewriting(q, g)
    BY <2>1, <2>2 DEF Rewriting
  <2>3. CASE Creating(F, q, g)
    BY <2>1, <2>3 DEF Creating, ActiveIn, Known
  <2>. QED
    BY <1>2, <2>1, <2>2, <2>3 DEF LimitInv
<1>. QED
  BY <1>1, <1>2 DEF LimitInv

LEMMA StaysWithin ==
  ASSUME NEW F \in GridIds, LimitInv(F), UNCHANGED <<grids, todo, pend, locks>>
  PROVE  LimitInv(F)'
  BY DEF LimitInv, WithinLimit, ActiveIn, Rewriting, Creating, Known

\* A step that leaves what r has written alone, and leaves it fewer statements
\* or statements of its own.
LEMMA WritesNothing ==
  ASSUME NEW F \in GridIds, TypeOK, LimitInv(F), NEW r \in Requests, grids' = grids,
         UNCHANGED <<pend, locks>>, NEW S, todo' = [todo EXCEPT ![r] = S],
         todo[r] # <<>> \/ pend[r] = NothingWritten,
         \A j \in DOMAIN S : S[j].do # "row" /\ (NoMoves => S[j].do # "ord")
  PROVE  LimitInv(F)'
<1>1. /\ todo'[r] = S
      /\ \A q \in Requests \ {r} : todo'[q] = todo[q]
  BY DEF TypeOK
<1>2. ASSUME NEW g \in GridIds, pend'[r][g] # None
      PROVE  Rewriting(r, g)'
  <2>1. pend[r][g] # None /\ todo[r] # <<>>
    BY <1>2 DEF NothingWritten
  <2>2. Rewriting(r, g)
    BY <2>1 DEF LimitInv, Creating
  <2>. QED
    BY <2>2 DEF Rewriting
<1>. QED
  BY <1>1, <1>2, CommitsNothing

LEMMA SkipsStatement ==
  ASSUME NEW F \in GridIds, TypeOK, LimitInv(F), NEW r \in Requests, todo[r] # <<>>,
         grids' = grids, UNCHANGED <<pend, locks>>, todo' = [todo EXCEPT ![r] = Tail(@)]
  PROVE  LimitInv(F)'
<1>1. \A j \in DOMAIN Tail(todo[r]) : j + 1 \in DOMAIN todo[r] /\ Tail(todo[r])[j] = todo[r][j + 1]
  BY TailOf DEF TypeOK
<1>2. \A j \in DOMAIN Tail(todo[r]) :
        Tail(todo[r])[j].do # "row" /\ (NoMoves => Tail(todo[r])[j].do # "ord")
  BY <1>1 DEF LimitInv
<1>. QED
  BY <1>2, WritesNothing

\* The transaction of r, if there is one, is given up.
LEMMA GivesUp ==
  ASSUME NEW F \in GridIds, TypeOK, LimitInv(F), NEW r \in Requests, End(r), grids' = grids
  PROVE  LimitInv(F)'
<1>1. /\ pend'[r] = NothingWritten /\ todo'[r] = <<>>
      /\ \A q \in Requests \ {r} : pend'[q] = pend[q] /\ todo'[q] = todo[q] /\ locks'[q] = locks[q]
  BY DEF TypeOK, End
<1>. QED
  BY <1>1, CommitsNothing DEF NothingWritten

\* The place after the last one.
LEMMA ComesLast ==
  ASSUME TypeOK, NEW h \in GridIds, LastOfAll(h)
  PROVE  \A k \in Known : grids[k].ord < grids[h].ord + 1
<1>1. \A k \in Known : grids[k].ord \in Nat /\ grids[k].ord <= grids[h].ord
  BY DEF TypeOK, Known, LastOfAll, GridRow
<1>2. grids[h].ord \in Nat
  BY <1>1 DEF LastOfAll
<1>. QED
  BY <1>1, <1>2

LEMMA CreatesOne ==
  ASSUME NEW F \in GridIds, InvFor(F), LimitInv(F), NEW r \in Requests, NEW g \in GridIds,
         NewGrid(r, g)
  PROVE  LimitInv(F)'
<1>. TypeOK
  BY DEF InvFor
<1>1. /\ GoodStatement(F, Head(todo[r])) /\ pend[r] = NothingWritten
      /\ Head(todo[r]).do = "locking"
  BY AboutToCount DEF NewGrid, Locked, Doing, Next1, Counts
<1>2. PICK h \in GridIds : LastOfAll(h) /\ pend' = [pend EXCEPT ![r][g] = NewRow(grids[h].ord + 1)]
  BY DEF NewGrid
<1>3. /\ pend'[r] = [NothingWritten EXCEPT ![g] = NewRow(grids[h].ord + 1)]
      /\ \A q \in Requests \ {r} : pend'[q] = pend[q]
  BY <1>1, <1>2 DEF TypeOK
<1>4. /\ grids' = grids /\ todo'[r] = <<>> /\ F \in locks'[r]
      /\ \A q \in Requests \ {r} : todo'[q] = todo[q] /\ locks'[q] = locks[q]
  BY <1>1 DEF NewGrid, TypeOK, GoodStatement, Next1, db
<1>5. grids[g] = None /\ Cardinality(ActiveIn(grids)) < MaxGridsPerPool
  BY DEF NewGrid, Known
<1>6. pend'[r][g].ord = grids[h].ord + 1
  BY <1>3 DEF NewRow, NothingWritten
<1>7. Creating(F, r, g)'
  <2>1. \A x \in GridIds \ {g} : pend'[r][x] = None
    BY <1>3 DEF NothingWritten
  <2>2. \A k \in Known' : grids'[k].ord < pend'[r][g].ord
    BY <1>2, <1>4, <1>6, ComesLast DEF Known
  <2>3. Cardinality(ActiveIn(grids')) < MaxGridsPerPool
    BY <1>4, <1>5
  <2>. QED
    BY <1>4, <1>5, <2>1, <2>2, <2>3 DEF Creating
<1>8. \A x \in GridIds : pend'[r][x] # None => Creating(F, r, x)'
  BY <1>3, <1>7 DEF NothingWritten
<1>9. /\ \A q \in Requests \ {r} : pend'[q] = pend[q] /\ todo'[q] = todo[q] /\ locks'[q] = locks[q]
      /\ \A j \in DOMAIN todo'[r] : todo'[r][j].do # "row" /\ (NoMoves => todo'[r][j].do # "ord")
  BY <1>3, <1>4
<1>. QED
  BY <1>4, <1>8, <1>9, CommitsNothing

LEMMA MarksDeleted ==
  ASSUME NEW F \in GridIds, InvFor(F), LimitInv(F), NEW r \in Requests, DeleteGrid(r)
  PROVE  LimitInv(F)'
<1>. DEFINE g == Next1(r).next.grid
            row == [Read(r, g) EXCEPT !.state = "deleted"]
<1>. TypeOK
  BY DEF InvFor
<1>1. /\ GoodStatement(F, Head(todo[r])) /\ pend[r] = NothingWritten
      /\ Head(todo[r]).do = "locking" /\ Head(todo[r]).next.do = "delete"
  BY AboutToCount DEF DeleteGrid, Locked, Doing, Next1, Counts
<1>2. g \in GridIds /\ grids[g] # None /\ Read(r, g) = grids[g] /\ grids[g] \in GridRow
  BY <1>1 DEF GoodStatement, Next1, Known, Read, NothingWritten, TypeOK
<1>3. row.state = "deleted" /\ row.ord = grids[g].ord
  BY <1>2 DEF GridRow
<1>. HIDE DEF g, row
<1>4. pend' = [pend EXCEPT ![r][g] = row]
  BY DEF DeleteGrid, g, row
<1>5. /\ pend'[r] = [NothingWritten EXCEPT ![g] = row]
      /\ \A q \in Requests \ {r} : pend'[q] = pend[q]
  BY <1>1, <1>4 DEF TypeOK
<1>6. /\ grids' = grids /\ todo'[r] = <<>>
      /\ \A q \in Requests \ {r} : todo'[q] = todo[q] /\ locks'[q] = locks[q]
  BY DEF DeleteGrid, TypeOK, db
<1>7. \A x \in GridIds : pend'[r][x] # None => Rewriting(r, x)'
  BY <1>2, <1>3, <1>5, <1>6 DEF Rewriting, NothingWritten
<1>8. /\ \A q \in Requests \ {r} : pend'[q] = pend[q] /\ todo'[q] = todo[q] /\ locks'[q] = locks[q]
      /\ \A j \in DOMAIN todo'[r] : todo'[r][j].do # "row" /\ (NoMoves => todo'[r][j].do # "ord")
  BY <1>5, <1>6
<1>. QED
  BY <1>6, <1>7, <1>8, CommitsNothing

LEMMA MovesOne ==
  ASSUME NEW F \in GridIds, InvFor(F), LimitInv(F), NEW r \in Requests, UpdateOrd(r)
  PROVE  LimitInv(F)'
<1>. DEFINE g == Next1(r).grid
            row == [Read(r, g) EXCEPT !.ord = Next1(r).to]
<1>. TypeOK
  BY DEF InvFor
<1>1. /\ todo[r] # <<>> /\ Next1(r).do = "ord" /\ UpdateRow(r, g, row)
  BY DEF UpdateOrd, Doing
<1>2. /\ Next1(r) = todo[r][1] /\ 1 \in DOMAIN todo[r]
      /\ Tail(todo[r]) \in Seq(Statement)
      /\ \A j \in DOMAIN Tail(todo[r]) :
           j + 1 \in DOMAIN todo[r] /\ Tail(todo[r])[j] = todo[r][j + 1]
  BY <1>1, TailOf DEF TypeOK, Next1
<1>3. g \in GridIds /\ grids[g] # None /\ ~NoMoves
  BY <1>1, <1>2 DEF InvFor, TodoInv, GoodStatement, Known, LimitInv
<1>4. Read(r, g) \in GridRow /\ Read(r, g).state \in {grids[g].state, "deleted"}
  <2>1. CASE pend[r][g] = None
    BY <1>3, <2>1 DEF Read, TypeOK
  <2>2. CASE pend[r][g] # None
    <3>1. Rewriting(r, g)
      BY <1>1, <1>3, <2>2 DEF LimitInv, Creating
    <3>. QED
      BY <1>3, <2>2, <3>1 DEF Read, TypeOK, Rewriting
  <2>. QED
    BY <2>1, <2>2
<1>5. row.state = Read(r, g).state
  BY <1>4 DEF GridRow
<1>. HIDE DEF g, row
<1>6. /\ pend'[r] = [pend[r] EXCEPT ![g] = row]
      /\ \A q \in Requests \ {r} : pend'[q] = pend[q] /\ todo'[q] = todo[q] /\ locks'[q] = locks[q]
      /\ grids' = grids /\ todo'[r] = Tail(todo[r])
  BY <1>1 DEF UpdateRow, TypeOK, db
<1>7. ASSUME NEW x \in GridIds, pend'[r][x] # None
      PROVE  Rewriting(r, x)'
  <2>1. CASE x = g
    <3>1. pend'[r][x] = row
      BY <1>3, <1>6, <2>1 DEF TypeOK
    <3>. QED
      BY <1>3, <1>4, <1>5, <1>6, <2>1, <3>1 DEF Rewriting
  <2>2. CASE x # g
    <3>1. pend[r][x] = pend'[r][x]
      BY <1>6, <2>2
    <3>2. Rewriting(r, x)
      BY <1>1, <1>7, <3>1 DEF LimitInv, Creating
    <3>. QED
      BY <1>6, <3>1, <3>2 DEF Rewriting
  <2>. QED
    BY <2>1, <2>2
<1>8. \A j \in DOMAIN todo'[r] : todo'[r][j].do # "row" /\ (NoMoves => todo'[r][j].do # "ord")
  BY <1>2, <1>6 DEF LimitInv
<1>. QED
  BY <1>6, <1>7, <1>8, CommitsNothing

\* A commit adds one active grid if it creates one, and then nobody else is
\* creating one; otherwise it adds none.
LEMMA CommitsWithin ==
  ASSUME NEW F \in GridIds, InvFor(F), LimitInv(F), NEW r \in Requests, Commit(r)
  PROVE  LimitInv(F)'
<1>. TypeOK /\ LockInv
  BY DEF InvFor
<1>1. /\ todo' = todo /\ grids' = [g \in GridIds |-> Read(r, g)]
      /\ pend'[r] = NothingWritten
      /\ \A q \in Requests \ {r} : pend'[q] = pend[q] /\ locks'[q] = locks[q]
  BY DEF Commit, TypeOK
<1>2. ActiveIn(grids) \subseteq GridIds /\ IsFiniteSet(ActiveIn(grids)) /\ MaxGridsPerPool \in Nat
  BY GridsAssumption, FS_Subset DEF ActiveIn
<1>3. \A g \in ActiveIn(grids') : g \in ActiveIn(grids) \/ Creating(F, r, g)
  BY <1>1 DEF ActiveIn, Read, LimitInv, Rewriting
<1>4. ASSUME \A g \in GridIds : ~(pend[r][g] # None /\ Creating(F, r, g))
      PROVE  ActiveIn(grids') \subseteq ActiveIn(grids)
  BY <1>1, <1>4 DEF ActiveIn, Read, LimitInv, Rewriting, Creating
<1>5. WithinLimit'
  <2>1. CASE \A g \in GridIds : ~(pend[r][g] # None /\ Creating(F, r, g))
    <3>1. Cardinality(ActiveIn(grids')) <= Cardinality(ActiveIn(grids))
      BY <1>2, <1>4, <2>1, FS_Subset
    <3>2. Cardinality(ActiveIn(grids')) \in Nat /\ Cardinality(ActiveIn(grids)) \in Nat
      BY <1>2, <1>4, <2>1, FS_Subset, FS_CardinalityType
    <3>. QED
      BY <1>2, <3>1, <3>2 DEF LimitInv, WithinLimit
  <2>2. ASSUME NEW g \in GridIds, pend[r][g] # None, Creating(F, r, g)
        PROVE  WithinLimit'
    <3>1. ActiveIn(grids') \subseteq ActiveIn(grids) \cup {g}
      BY <1>1, <2>2 DEF Creating, ActiveIn, Read
    <3>2. /\ IsFiniteSet(ActiveIn(grids) \cup {g})
          /\ Cardinality(ActiveIn(grids) \cup {g}) <= Cardinality(ActiveIn(grids)) + 1
      <4>. DEFINE A == ActiveIn(grids)
      <4>1. IsFiniteSet(A) /\ Cardinality(A) \in Nat
        BY <1>2, FS_CardinalityType
      <4>. HIDE DEF A
      <4>2. /\ IsFiniteSet(A \cup {g})
            /\ Cardinality(A \cup {g}) = IF g \in A THEN Cardinality(A) ELSE Cardinality(A) + 1
        BY <4>1, FS_AddElement
      <4>3. Cardinality(A \cup {g}) <= Cardinality(A) + 1
        BY <4>1, <4>2
      <4>. QED
        BY <4>2, <4>3 DEF A
    <3>3. /\ Cardinality(ActiveIn(grids')) <= Cardinality(ActiveIn(grids) \cup {g})
          /\ Cardinality(ActiveIn(grids')) \in Nat /\ Cardinality(ActiveIn(grids) \cup {g}) \in Nat
          /\ Cardinality(ActiveIn(grids)) \in Nat
      BY <1>2, <3>1, <3>2, FS_Subset, FS_CardinalityType
    <3>4. Cardinality(ActiveIn(grids)) < MaxGridsPerPool
      BY <2>2 DEF Creating
    <3>. QED
      BY <1>2, <3>2, <3>3, <3>4 DEF WithinLimit
  <2>. QED
    BY <2>1, <2>2
<1>6. ASSUME NEW q \in Requests, NEW g \in GridIds, pend'[q][g] # None
      PROVE  Rewriting(q, g)' \/ Creating(F, q, g)'
  <2>1. q # r /\ pend[q][g] # None /\ pend'[q] = pend[q] /\ locks'[q] = locks[q]
    BY <1>1, <1>6 DEF NothingWritten
  <2>2. pend[r][g] = None /\ grids'[g] = grids[g]
    BY <1>1, <2>1 DEF LockInv, Read
  <2>3. CASE Rewriting(q, g)
    BY <2>1, <2>2, <2>3 DEF Rewriting
  <2>4. CASE Creating(F, q, g)
    <3>1. \A x \in GridIds : ~Creating(F, r, x)
      BY <2>1, <2>4 DEF Creating, LockInv
    <3>2. ActiveIn(grids') \subseteq ActiveIn(grids)
      BY <1>4, <3>1
    <3>3. Cardinality(ActiveIn(grids')) < MaxGridsPerPool
      <4>1. Cardinality(ActiveIn(grids')) <= Cardinality(ActiveIn(grids))
        BY <1>2, <3>2, FS_Subset
      <4>2. Cardinality(ActiveIn(grids')) \in Nat /\ Cardinality(ActiveIn(grids)) \in Nat
        BY <1>2, <3>2, FS_Subset, FS_CardinalityType
      <4>. QED
        BY <1>2, <2>4, <4>1, <4>2 DEF Creating
    <3>4. ASSUME NoMoves, NEW h \in Known'
          PROVE  h \in Known /\ grids'[h].ord = grids[h].ord
      <4>1. h \in GridIds /\ grids'[h] = Read(r, h) /\ grids'[h] # None
        BY <1>1, <3>4 DEF Known
      <4>2. CASE pend[r][h] = None
        BY <4>1, <4>2 DEF Read, Known
      <4>3. CASE pend[r][h] # None
        <5>1. Rewriting(r, h)
          BY <3>1, <4>1, <4>3 DEF LimitInv
        <5>. QED
          BY <3>4, <4>1, <4>3, <5>1 DEF Rewriting, Read, Known
      <4>. QED
        BY <4>2, <4>3
    <3>5. NoMoves => \A h \in Known' : grids'[h].ord < pend'[q][g].ord
      BY <2>1, <2>4, <3>4 DEF Creating
    <3>. QED
      BY <1>1, <2>1, <2>2, <2>4, <3>3, <3>5 DEF Creating
  <2>. QED
    BY <2>1, <2>3, <2>4 DEF LimitInv
<1>. QED
  BY <1>1, <1>5, <1>6 DEF LimitInv

\* No handler writes a copy of a grid, and none moves grids if none may.
LEMMA HandlesLimit ==
  ASSUME NoCopies, NEW F \in GridIds, InvFor(F), LimitInv(F), NEW r \in Requests, Handle(r)
  PROVE  LimitInv(F)'
<1>. TypeOK /\ PhaseInv
  BY DEF InvFor
<1>1. pc[r] = "handler"
  BY DEF Handle, Create, Edit, Delete, Reorder, Draw, DrawSets, ChangeConfig, SetLocks, Handling
<1>2. pend[r] = NothingWritten
  BY <1>1 DEF PhaseInv
<1>3. ASSUME NEW S, NEW image, RunTx(r, S, image),
             \A j \in DOMAIN S : S[j].do # "row" /\ (NoMoves => S[j].do # "ord")
      PROVE  LimitInv(F)'
  <2>1. grids' = grids /\ UNCHANGED <<pend, locks>> /\ todo' = [todo EXCEPT ![r] = S]
    BY <1>3 DEF RunTx, db
  <2>. QED
    BY <1>2, <1>3, <2>1, WritesNothing
<1>4. ASSUME NEW i, NEW image, RunTx(r, <<i>>, image), i.do = "perform" PROVE LimitInv(F)'
  <2>1. \A j \in DOMAIN <<i>> : <<i>>[j] = i
    OBVIOUS
  <2>. QED
    BY <1>3, <1>4, <2>1
<1>5. ASSUME Create(r) PROVE LimitInv(F)'
  BY <1>4, <1>5 DEF Create
<1>6. ASSUME NEW g \in GridIds, Delete(r, g) PROVE LimitInv(F)'
  BY <1>4, <1>6 DEF Delete
<1>7. ASSUME NEW list \in Orders, Reorder(r, list) PROVE LimitInv(F)'
  <2>. DEFINE S == [i \in DOMAIN list |->
                      [do |-> "ord", grid |-> list[i], to |-> i - 1, was |-> grids[list[i]].ord]]
  <2>1. RunTx(r, S, None) /\ ~NoMoves
    BY <1>7 DEF Reorder, Handling, NoMoves
  <2>2. \A j \in DOMAIN S : S[j].do = "ord"
    OBVIOUS
  <2>. HIDE DEF S
  <2>. QED
    BY <1>3, <2>1, <2>2
<1>8. ASSUME NEW g \in GridIds, DrawSets(r, g) PROVE LimitInv(F)'
  <2>. DEFINE types == SetTypes(mine[r].config)
              S == [i \in DOMAIN types |-> [do |-> "insert", grid |-> g, to |-> types[i]]]
  <2>1. PICK image \in LockAfterDraw(r) : RunTx(r, S, image)
    BY <1>8 DEF DrawSets
  <2>2. \A j \in DOMAIN S : S[j].do = "insert"
    OBVIOUS
  <2>. HIDE DEF S
  <2>. QED
    BY <1>3, <2>1, <2>2
<1>9. ASSUME NEW image, SavePool(r, image) PROVE LimitInv(F)'
  BY <1>9, StaysWithin DEF SavePool, db, tx
<1>10. \A g \in GridIds : ~Edit(r, g) /\ \A numbers \in Draws : ~Draw(r, g, numbers)
  BY DEF NoCopies, Edit, Draw, Handling
<1>11. \A config \in Configs : ChangeConfig(r, config) => LimitInv(F)'
  BY <1>9 DEF ChangeConfig
<1>12. \A past \in BOOLEAN : SetLocks(r, past) => LimitInv(F)'
  BY <1>9 DEF SetLocks
<1>. QED
  BY <1>5, <1>6, <1>7, <1>8, <1>10, <1>11, <1>12 DEF Handle

\* The transactions.
LEMMA RunsLimit ==
  ASSUME NEW F \in GridIds, InvFor(F), LimitInv(F), NEW r \in Requests, Run(r) \/ Stop(r)
  PROVE  LimitInv(F)'
<1>. TypeOK
  BY DEF InvFor
<1>1. ASSUME Stop(r) \/ PoolSave(r) PROVE LimitInv(F)'
  <2>1. End(r) /\ grids' = grids
    BY <1>1 DEF Stop, PoolSave, db
  <2>. QED
    BY <2>1, GivesUp
<1>2. ASSUME Perform(r) PROVE LimitInv(F)'
  <2>. DEFINE i == [do |-> "locking", next |-> Next1(r).next, ids |-> Known]
  <2>1. /\ todo[r] # <<>> /\ grids' = grids /\ UNCHANGED <<pend, locks>>
        /\ todo' = [todo EXCEPT ![r] = <<i>>]
    BY <1>2 DEF Perform, Doing, db
  <2>2. \A j \in DOMAIN <<i>> : <<i>>[j].do = "locking"
    OBVIOUS
  <2>. HIDE DEF i
  <2>. QED
    BY <2>1, <2>2, WritesNothing
<1>3. ASSUME KeepOrd(r) \/ InsertSet(r) PROVE LimitInv(F)'
  <2>1. /\ todo[r] # <<>> /\ grids' = grids /\ UNCHANGED <<pend, locks>>
        /\ todo' = [todo EXCEPT ![r] = Tail(@)]
    BY <1>3 DEF KeepOrd, InsertSet, Doing, db
  <2>. QED
    BY <2>1, SkipsStatement
<1>4. ~SaveGrid(r)
  <2>. SUFFICES ASSUME SaveGrid(r) PROVE FALSE
    OBVIOUS
  <2>1. todo[r] # <<>> /\ Next1(r).do = "row"
    BY DEF SaveGrid, Doing
  <2>2. Next1(r) = todo[r][1] /\ 1 \in DOMAIN todo[r]
    BY <2>1, TailOf DEF TypeOK, Next1
  <2>. QED
    BY <2>1, <2>2 DEF LimitInv
<1>5. \A g \in GridIds : NewGrid(r, g) => LimitInv(F)'
  BY CreatesOne
<1>6. DeleteGrid(r) => LimitInv(F)'
  BY MarksDeleted
<1>7. UpdateOrd(r) => LimitInv(F)'
  BY MovesOne
<1>8. Commit(r) => LimitInv(F)'
  BY CommitsWithin
<1>. QED
  BY <1>1, <1>2, <1>3, <1>4, <1>5, <1>6, <1>7, <1>8 DEF Run, GridLimit, LastGrid

LEMMA InitLimits == Init => LimitsInv
<1>. SUFFICES ASSUME Init PROVE LimitsInv
  OBVIOUS
<1>1. PICK first \in GridIds :
        grids = [g \in GridIds |-> IF g = first THEN NewRow(0) ELSE None]
  BY DEF Init
<1>2. PICK F \in GridIds : InvFor(F)
  BY InitInv DEF GridsInv
<1>3. ActiveIn(grids) \subseteq {first}
  BY <1>1 DEF ActiveIn
<1>4. WithinLimit
  <2>1. IsFiniteSet({first}) /\ Cardinality({first}) = 1
    BY FS_Singleton
  <2>2. /\ Cardinality(ActiveIn(grids)) <= 1
        /\ Cardinality(ActiveIn(grids)) \in Nat
    BY <1>3, <2>1, FS_Subset, FS_CardinalityType
  <2>. QED
    BY <2>2, GridsAssumption DEF WithinLimit
<1>5. LimitInv(F)
  BY <1>4 DEF LimitInv, Init, NothingWritten
<1>. QED
  BY <1>2, <1>5 DEF LimitsInv

LEMMA NextLimits == NoCopies /\ LimitsInv /\ [Next]_vars => LimitsInv'
<1>. SUFFICES ASSUME NoCopies, [Next]_vars, NEW F \in GridIds, InvFor(F), LimitInv(F)
              PROVE  LimitsInv'
  BY DEF LimitsInv
<1>1. InvFor(F)'
  BY NextFor
<1>2. LimitInv(F)'
  <2>1. CASE UNCHANGED vars
    BY <2>1, StaysWithin DEF vars
  <2>2. ASSUME NEW r \in Requests, Begin(r) PROVE LimitInv(F)'
    BY <2>2, StaysWithin DEF Begin, db, tx
  <2>. QED
    BY <2>1, <2>2, HandlesLimit, RunsLimit DEF Next
<1>. QED
  BY <1>1, <1>2 DEF LimitsInv

\* A commit is the only step that changes grids, and a row it adds comes last.
LEMMA AppearsLast ==
  ASSUME NoMoves, NEW F \in GridIds, InvFor(F), LimitInv(F), NEW r \in Requests, Commit(r),
         NEW g \in GridIds, grids[g] = None, grids'[g] # None
  PROVE  \A h \in Known : grids'[h].ord < grids'[g].ord
<1>1. grids' = [x \in GridIds |-> Read(r, x)]
  BY DEF Commit
<1>2. pend[r][g] # None /\ grids'[g] = pend[r][g]
  BY <1>1 DEF Read
<1>3. Creating(F, r, g)
  BY <1>2 DEF LimitInv, Rewriting
<1>4. \A h \in Known : grids'[h] = grids[h]
  BY <1>1, <1>3 DEF Creating, Known, Read
<1>. QED
  BY <1>2, <1>3, <1>4 DEF Creating

\* "MaxGridsPerPool is the maximum number of grids we allow per pool"
\* (pool.go:36), kept by any number of creations, deletions and moves that
\* overlap, as long as nobody writes a copy of a grid back: each creation counts
\* under a lock on F, which it holds until it commits.
THEOREM LimitIsKept ==
  ASSUME NoCopies
  PROVE  Spec => []WithinLimit
<1>1. LimitsInv => WithinLimit
  BY DEF LimitsInv, LimitInv
<1>2. LimitsInv /\ [Next]_vars => LimitsInv'
  BY NextLimits
<1>. QED
  BY <1>1, <1>2, InitLimits, PTL DEF Spec

\* A grid that appears comes after all the grids there are, for any number of
\* creations and deletions that overlap: the highest place is read under the
\* same lock.
THEOREM NewGridsComeLast ==
  ASSUME NoCopies, NoMoves
  PROVE  Spec => NewGridComesLast
<1>1. LimitsInv /\ [Next]_vars =>
        [\A g \in GridIds : grids[g] = None /\ grids'[g] # None =>
           \A h \in Known : grids'[h].ord < grids'[g].ord]_grids
  <2>. SUFFICES ASSUME NEW F \in GridIds, InvFor(F), LimitInv(F), [Next]_vars, grids' # grids,
                       NEW g \in GridIds, grids[g] = None, grids'[g] # None
                PROVE  \A h \in Known : grids'[h].ord < grids'[g].ord
    BY DEF LimitsInv
  <2>1. PICK r \in Requests : Commit(r)
    BY DEF Next, vars, Begin, Handle, Create, Edit, Delete, Reorder, Draw, DrawSets, ChangeConfig,
           SetLocks, RunTx, SavePool, Run, Perform, NewGrid, GridLimit, DeleteGrid, LastGrid,
           SaveGrid, UpdateOrd, KeepOrd, UpdateRow, InsertSet, PoolSave, Stop, db
  <2>. QED
    BY <2>1, AppearsLast
<1>2. LimitsInv /\ [Next]_vars => LimitsInv'
  BY NextLimits
<1>. QED
  BY <1>1, <1>2, InitLimits, PTL DEF Spec, NewGridComesLast

=============================================================================
