--------------------------- MODULE PoolSquaresProofs ---------------------------
(***************************************************************************)
(* Proofs about PoolSquares, for any users, squares, names and requests.   *)
(***************************************************************************)
EXTENDS PoolSquares, SequenceTheorems, FiniteSetTheorems, TLAPS

-----------------------------------------------------------------------------
\* What a request holds in each of its phases: outside its transaction it has
\* nothing to run, nothing written and no lock, and only managers work on lists.
PhaseInv ==
  \A r \in Requests :
    /\ pc[r] \in {"handler", "list", "tx"} => user[r] \in Users
    /\ pc[r] = "list" => bulk[r] # None
    /\ bulk[r] # None => IsManager(r) /\ pc[r] \in {"list", "tx"}
    /\ pc[r] # "tx" => todo[r] = <<>> /\ pend[r] = NothingWritten /\ share[r] = {}

\* An update follows its own SELECT ... FOR SHARE: it is the next statement and
\* its row is locked.
UpdateHoldsLock ==
  \A r \in Requests : \A j \in DOMAIN todo[r] :
    todo[r][j].do = "update" => j = 1 /\ todo[r][j].sq \in share[r]

LockInv == WritersAreAlone /\ UpdateHoldsLock

Saves(i) == i.do \in {"save", "update"}

ConsistentRow(row) ==
  /\ row.state = "unclaimed" => row = EmptyRow
  /\ row.state # "unclaimed" => row.owner # None /\ row.claimant # None

ConsistentImage(to) ==
  to.state # "unclaimed" => to.owner # None /\ to.claimant # None

\* Rows, written rows and the images still to be saved are consistent, and a
\* SetParentSquare follows the save that takes its square.
DataInv ==
  /\ \A s \in Squares : ConsistentRow(rows[s])
  /\ \A r \in Requests, s \in Squares : HasWritten(r, s) => ConsistentRow(pend[r][s])
  /\ \A r \in Requests : \A j \in DOMAIN todo[r] :
       Saves(todo[r][j]) => ConsistentImage(todo[r][j].to)
  /\ \A r \in Requests : \A j \in DOMAIN todo[r] :
       todo[r][j].do = "link" =>
         IF j = 1
         THEN /\ HasWritten(r, todo[r][j].sq)
              /\ pend[r][todo[r][j].sq].state # "unclaimed"
         ELSE /\ Saves(todo[r][j-1])
              /\ todo[r][j-1].sq = todo[r][j].sq
              /\ todo[r][j-1].to.state # "unclaimed"

\* What a transaction without manager's rights may still do: it saves as its
\* own user, it either claims or unclaims, and what it has written or is about
\* to write it was entitled to when it locked the row.
UserTx(r) ==
  /\ \A j \in DOMAIN todo[r] : todo[r][j].do # "link" => todo[r][j].mgr = FALSE
  /\ \A j \in DOMAIN todo[r] : Saves(todo[r][j]) => todo[r][j].to.owner = user[r]
  /\ \A j \in DOMAIN todo[r] :
       Saves(todo[r][j]) /\ todo[r][j].to.state # "unclaimed" =>
         /\ \A k \in DOMAIN todo[r] :
              /\ todo[r][k].do # "children"
              /\ Saves(todo[r][k]) => todo[r][k].to.state # "unclaimed"
         /\ \A s \in Squares : HasWritten(r, s) => pend[r][s].state # "unclaimed"
  /\ \A j \in DOMAIN todo[r] :
       todo[r][j].do = "children" => todo[r][j].to = None
  /\ \A j \in DOMAIN todo[r] :
       todo[r][j].do = "update" =>
         Allowed(Read(r, todo[r][j].sq), todo[r][j].to, FALSE)
  /\ \A s \in Squares : HasWritten(r, s) =>
       \/ rows[s].state = "unclaimed"
       \/ /\ rows[s].owner = user[r]
          /\ rows[s].state = "claimed"
          /\ pend[r][s] = EmptyRow

UserInv == \A r \in Requests : pc[r] = "tx" /\ ~IsManager(r) => UserTx(r)

SafetyInv == TypeOK /\ PhaseInv /\ LockInv /\ DataInv /\ UserInv

-----------------------------------------------------------------------------
\* Type correctness.

LEMMA SaveType ==
  \A s \in Squares, image \in Image :
    /\ Save(s, image, TRUE) \in Statement
    /\ Save(s, image, FALSE) \in Statement
BY DEF Save, Statement

LEMMA ChildrenType ==
  \A s \in Squares, change \in Names \cup {None} :
    /\ Children(s, change, TRUE) \in Statement
    /\ Children(s, change, FALSE) \in Statement
BY DEF Children, Statement

LEMMA LinkType == \A s, p \in Squares : Link(s, p) \in Statement
BY DEF Link, Statement

LEMMA ShortSequences ==
  ASSUME NEW S, NEW a \in S, NEW b \in S
  PROVE  <<a>> \in Seq(S) /\ <<a, b>> \in Seq(S)
OBVIOUS

\* Programs of one statement, of two, and one that may go on.
LEMMA ProgramTypes ==
  /\ \A s \in Squares, image \in Image :
       /\ <<Save(s, image, TRUE)>> \in Seq(Statement)
       /\ <<Save(s, image, FALSE)>> \in Seq(Statement)
       /\ \A c \in Names \cup {None} :
            /\ <<Save(s, image, TRUE), Children(s, c, TRUE)>> \in Seq(Statement)
            /\ <<Children(s, c, FALSE), Save(s, image, FALSE)>> \in Seq(Statement)
       /\ \A p \in Squares : <<Save(s, image, FALSE), Link(s, p)>> \in Seq(Statement)
  /\ \A s \in Squares : <<Children(s, None, TRUE)>> \in Seq(Statement)
<1>1. ASSUME NEW s \in Squares, NEW image \in Image
      PROVE  /\ <<Save(s, image, TRUE)>> \in Seq(Statement)
             /\ <<Save(s, image, FALSE)>> \in Seq(Statement)
  BY <1>1, SaveType, ShortSequences
<1>2. ASSUME NEW s \in Squares, NEW image \in Image, NEW c \in Names \cup {None}
      PROVE  /\ <<Save(s, image, TRUE), Children(s, c, TRUE)>> \in Seq(Statement)
             /\ <<Children(s, c, FALSE), Save(s, image, FALSE)>> \in Seq(Statement)
  BY <1>2, SaveType, ChildrenType, ShortSequences
<1>3. ASSUME NEW s \in Squares, NEW image \in Image, NEW p \in Squares
      PROVE  <<Save(s, image, FALSE), Link(s, p)>> \in Seq(Statement)
  BY <1>3, SaveType, LinkType, ShortSequences
<1>4. \A s \in Squares : <<Children(s, None, TRUE)>> \in Seq(Statement)
  BY ChildrenType, ShortSequences
<1>5. QED
  BY <1>1, <1>2, <1>3, <1>4

LEMMA ProgramConcat ==
  ASSUME NEW first \in Seq(Statement), NEW then, NEW c \in BOOLEAN,
         ~c => then \in Seq(Statement)
  PROVE  (first \o IF c THEN <<>> ELSE then) \in Seq(Statement)
<1>1. <<>> \in Seq(Statement)
  OBVIOUS
<1>2. CASE c
  BY <1>1, <1>2, ConcatProperties
<1>3. CASE ~c
  BY <1>3, ConcatProperties
<1>4. QED
  BY <1>2, <1>3

LEMMA ImageTypes ==
  /\ \A u \in Users, n \in Names : Claimed(u, n) \in Image
  /\ \A row \in Row : Loaded(row) \in Image
  /\ \A u \in Users : Unclaimed(u) \in Image
BY DEF Claimed, Loaded, Unclaimed, Image, Row, States

LEMMA ReadType ==
  ASSUME TypeOK, NEW r \in Requests, NEW s \in Squares
  PROVE  Read(r, s) \in Row
BY DEF TypeOK, Read

LEMMA UpdatedType ==
  ASSUME NEW row \in Row, NEW to \in Image
  PROVE  Updated(row, to) \in Row
BY DEF Updated, Row, Image, EmptyRow, States

LEMMA NothingWrittenType == NothingWritten \in [Squares -> Row \cup {None}]
BY DEF NothingWritten

LEMMA BulkJobsType == BulkJobsOver(Names, Payments, BulkLists) \subseteq BulkJob
BY SquaresAssumption DEF BulkJobsOver, BulkJob, States

\* The statement a request is at has the type its kind says.
LEMMA HeadType ==
  ASSUME TypeOK, NEW r \in Requests, NEW do, Doing(r, do)
  PROVE  /\ Next1(r) \in Statement
         /\ Next1(r).do = do
         /\ Next1(r).sq \in Squares
         /\ Tail(todo[r]) \in Seq(Statement)
         /\ do \in {"save", "update"} => Next1(r).to \in Image /\ Next1(r).mgr \in BOOLEAN
         /\ do = "link" => Next1(r).to \in Squares
         /\ do = "children" => Next1(r).to \in Names \cup {None} /\ Next1(r).mgr \in BOOLEAN
<1>1. todo[r] \in Seq(Statement) /\ todo[r] # <<>>
  BY DEF TypeOK, Doing
<1>2. Next1(r) \in Statement /\ Tail(todo[r]) \in Seq(Statement)
  BY <1>1, HeadTailProperties DEF Next1
<1>3. Next1(r).do = do
  BY DEF Doing
<1>4. QED
  BY <1>2, <1>3 DEF Statement

\* Finish leaves a well-typed, idle transaction.
LEMMA FinishType ==
  ASSUME TypeOK, PhaseInv, NEW r \in Requests, pc[r] = "tx", Finish(r),
         rows' \in [Squares -> Row], locked' \in BOOLEAN
  PROVE  TypeOK' /\ PhaseInv'
<1>1. /\ todo' \in [Requests -> Seq(Statement)]
      /\ pend' \in [Requests -> [Squares -> Row \cup {None}]]
      /\ share' \in [Requests -> SUBSET Squares]
  BY NothingWrittenType DEF Finish, TypeOK
<1>2. CASE bulk[r] = None /\ End(r)
  <2>1. Answered(r) \in {"idle", "done"}
    BY DEF Answered
  <2>2. TypeOK'
    BY <1>1, <1>2, <2>1 DEF End, TypeOK, Phases
  <2>3. PhaseInv'
    BY <1>2, <2>1 DEF End, TypeOK, PhaseInv, Finish, IsManager
  <2>4. QED
    BY <2>2, <2>3
<1>3. CASE bulk[r] # None /\ pc' = [pc EXCEPT ![r] = "list"] /\ UNCHANGED request
  <2>1. TypeOK'
    BY <1>1, <1>3 DEF TypeOK, Phases, request
  <2>2. PhaseInv'
    BY <1>3 DEF TypeOK, PhaseInv, Finish, IsManager, request
  <2>3. QED
    BY <2>1, <2>2
<1>4. QED
  BY <1>2, <1>3 DEF Finish

\* BeginTx leaves a well-typed transaction when its statements are well typed.
LEMMA BeginTxType ==
  ASSUME TypeOK, PhaseInv, NEW r \in Requests, NEW statements \in Seq(Statement),
         user[r] \in Users, bulk[r] # None => IsManager(r), BeginTx(r, statements),
         \/ UNCHANGED bulk
         \/ bulk[r] # None /\ bulk' = [bulk EXCEPT ![r].left = Tail(@)],
         bulk' \in [Requests -> BulkJob \cup {None}]
  PROVE  TypeOK' /\ PhaseInv'
<1>1. TypeOK'
  BY DEF BeginTx, TypeOK, Phases
<1>2. ASSUME NEW q \in Requests
      PROVE  /\ pc'[q] \in {"handler", "list", "tx"} => user'[q] \in Users
             /\ pc'[q] = "list" => bulk'[q] # None
             /\ bulk'[q] # None => IsManager(q)' /\ pc'[q] \in {"list", "tx"}
             /\ pc'[q] # "tx" =>
                  todo'[q] = <<>> /\ pend'[q] = NothingWritten /\ share'[q] = {}
  BY <1>2 DEF BeginTx, TypeOK, PhaseInv, IsManager
<1>3. PhaseInv'
  BY <1>2 DEF PhaseInv, NothingWritten
<1>4. QED
  BY <1>1, <1>3

LEMMA InitType == Init => TypeOK /\ PhaseInv
<1>1. EmptyRow \in Row
  BY DEF EmptyRow, Row, States
<1>2. Init => TypeOK
  <2>1. <<>> \in Seq(Statement) /\ {} \in SUBSET Squares
    OBVIOUS
  <2>2. QED
    BY <1>1, <2>1, NothingWrittenType DEF Init, TypeOK, Phases
<1>3. Init => PhaseInv
  BY DEF Init, PhaseInv
<1>4. QED
  BY <1>2, <1>3

\* A function on 1..n is a sequence.
LEMMA FunctionIsSeq ==
  ASSUME NEW S, NEW n \in Nat, NEW f \in [1..n -> S]
  PROVE  f \in Seq(S)
BY SeqDef

LEMMA HandlerType ==
  ASSUME TypeOK, PhaseInv, NEW r \in Requests, Handle(r)
  PROVE  TypeOK' /\ PhaseInv'
<1>0. /\ \A s \in Squares : rows[s] \in Row
      /\ pc[r] = "handler" => user[r] \in Users /\ bulk[r] = None
  BY DEF TypeOK, PhaseInv
<1>1. CASE Reject(r)
  <2>1. Answered(r) \in {"idle", "done"}
    BY DEF Answered
  <2>2. TypeOK'
    BY <1>1, <2>1 DEF Reject, End, TypeOK, Phases, tx
  <2>3. PhaseInv'
    BY <1>1, <2>1 DEF Reject, End, TypeOK, PhaseInv, IsManager, tx
  <2>4. QED
    BY <2>2, <2>3
<1>2. ASSUME NEW s \in Squares, NEW n \in Names, Rename(r, s, n)
      PROVE  TypeOK' /\ PhaseInv'
  <2>1. [Loaded(rows[s]) EXCEPT !.claimant = n] \in Image
    BY <1>0, ImageTypes DEF Image
  <2>2. <<Save(s, [Loaded(rows[s]) EXCEPT !.claimant = n], TRUE), Children(s, n, TRUE)>>
          \in Seq(Statement)
    BY <2>1, ProgramTypes
  <2>3. QED
    BY <1>0, <1>2, <2>2, BeginTxType DEF Rename, MayEdit, TypeOK
<1>3. ASSUME NEW s \in Squares, NEW n \in Names, NEW second \in Squares \cup {None},
             Claim(r, s, n, second)
      PROVE  TypeOK' /\ PhaseInv'
  <2> DEFINE image == Claimed(user[r], n)
  <2>1. image \in Image
    BY <1>0, <1>3, ImageTypes DEF Claim, MayEdit
  <2>2. <<Save(s, image, FALSE)>> \in Seq(Statement)
    BY <2>1, ProgramTypes
  <2>3. ASSUME second \in Squares
        PROVE  <<Save(second, image, FALSE), Link(second, s)>> \in Seq(Statement)
    BY <2>1, <2>3, ProgramTypes
  <2>4. (<<Save(s, image, FALSE)>> \o
           IF second = None THEN <<>>
           ELSE <<Save(second, image, FALSE), Link(second, s)>>) \in Seq(Statement)
    BY <2>2, <2>3, ProgramConcat
  <2>5. QED
    BY <1>0, <1>3, <2>4, BeginTxType DEF Claim, MayEdit, TypeOK
<1>4. ASSUME NEW s \in Squares, Unclaim(r, s)
      PROVE  TypeOK' /\ PhaseInv'
  <2> DEFINE image == Unclaimed(user[r])
  <2>1. image \in Image
    BY <1>0, <1>4, ImageTypes DEF Unclaim, MayEdit
  <2>2. <<Children(s, None, FALSE), Save(s, image, FALSE)>> \in Seq(Statement)
    BY <2>1, ProgramTypes
  <2>3. ASSUME rows[s].parent # None
        PROVE  <<Save(rows[s].parent, image, FALSE)>> \in Seq(Statement)
    <3>1. rows[s].parent \in Squares
      BY <1>0, <2>3 DEF Row
    <3>2. QED
      BY <3>1, <2>1, ProgramTypes
  <2>4. (<<Children(s, None, FALSE), Save(s, image, FALSE)>> \o
           IF rows[s].parent = None THEN <<>>
           ELSE <<Save(rows[s].parent, image, FALSE)>>) \in Seq(Statement)
    BY <2>2, <2>3, ProgramConcat
  <2>5. QED
    BY <1>0, <1>4, <2>4, BeginTxType DEF Unclaim, MayEdit, TypeOK
<1>5. ASSUME NEW s \in Squares, NEW st \in Payments \cup {None}, Manage(r, s, st)
      PROVE  TypeOK' /\ PhaseInv'
  <2> DEFINE new == IF st = None THEN rows[s].state ELSE st
             image == [Loaded(rows[s]) EXCEPT !.state = new]
  <2>1. image \in Image
    BY <1>0, ImageTypes, SquaresAssumption DEF Image, Row
  <2>2. <<Save(s, image, TRUE)>> \in Seq(Statement)
    BY <2>1, ProgramTypes
  <2>3. <<Children(s, None, TRUE)>> \in Seq(Statement)
    BY ProgramTypes
  <2>4. (<<Save(s, image, TRUE)>> \o
           IF new = "unclaimed" THEN <<Children(s, None, TRUE)>> ELSE <<>>) \in Seq(Statement)
    BY <2>2, <2>3, ProgramConcat
  <2>5. QED
    BY <1>0, <1>5, <2>4, BeginTxType DEF Manage, MayEdit, TypeOK
<1>6. ASSUME NEW job \in BulkJobsOver(Names, Payments, BulkLists), BeginBulk(r, job)
      PROVE  TypeOK' /\ PhaseInv'
  <2>1. job \in BulkJob /\ job # None
    BY BulkJobsType, NoneAssumption
  <2>2. TypeOK'
    BY <1>6, <2>1 DEF BeginBulk, TypeOK, Phases, tx
  <2>3. PhaseInv'
    BY <1>6, <2>1 DEF BeginBulk, TypeOK, PhaseInv, IsManager, tx
  <2>4. QED
    BY <2>2, <2>3
<1>7. CASE BulkSquare(r)
  <2> DEFINE s == Head(bulk[r].left)
             job == bulk[r]
  <2>1. /\ job \in BulkJob /\ job.left # <<>>
        /\ s \in Squares
        /\ Tail(job.left) \in Seq(Squares)
        /\ user[r] \in Users /\ IsManager(r)
    BY <1>7, HeadTailProperties DEF BulkSquare, TypeOK, PhaseInv, BulkJob, BulkJobsOver
  <2>2. bulk' \in [Requests -> BulkJob \cup {None}]
    BY <1>7, <2>1 DEF BulkSquare, TypeOK, BulkJob, BulkJobsOver
  <2>3. CASE BeginTx(r, BulkStatements(job, s, user[r])) /\ BulkAccepts(job, rows[s])
    <3>1. BulkStatements(job, s, user[r]) \in Seq(Statement)
      <4>1. CASE job.act = "claim"
        <5>1. job.name \in Names
          BY <2>1, <4>1 DEF BulkJob, BulkJobsOver
        <5>2. QED
          BY <4>1, <5>1, <2>1, ImageTypes, ProgramTypes DEF BulkStatements
      <4>2. CASE job.act = "unclaim"
        <5>1. [Loaded(rows[s]) EXCEPT !.state = "unclaimed"] \in Image
          BY <1>0, <2>1, ImageTypes DEF Image, States
        <5>2. QED
          BY <4>2, <5>1, <2>1, ProgramTypes, ProgramConcat DEF BulkStatements
      <4>3. CASE job.act \notin {"claim", "unclaim"}
        <5>1. [Loaded(rows[s]) EXCEPT !.state = job.state] \in Image
          BY <1>0, <2>1, ImageTypes, SquaresAssumption
             DEF Image, BulkJob, BulkJobsOver, States
        <5>2. QED
          BY <4>3, <5>1, <2>1, ProgramTypes DEF BulkStatements
      <4>4. QED
        BY <4>1, <4>2, <4>3
    <3>2. QED
      BY <1>7, <2>1, <2>2, <2>3, <3>1, BeginTxType DEF BulkSquare, PhaseInv
  <2>4. CASE UNCHANGED <<rows, locked, pc, user, sawLocked, tx>>
    <3>1. TypeOK'
      BY <2>2, <2>4 DEF TypeOK, tx
    <3>2. PhaseInv'
      <4>1. [job EXCEPT !.left = Tail(@)] \in BulkJob
        BY <2>1 DEF BulkJob, BulkJobsOver
      <4>2. bulk' = [bulk EXCEPT ![r] = [job EXCEPT !.left = Tail(@)]]
        BY <1>7 DEF BulkSquare
      <4>3. bulk'[r] # None
        BY <4>1, <4>2, NoneAssumption DEF TypeOK
      <4>4. QED
        BY <1>7, <2>1, <2>4, <4>2, <4>3 DEF BulkSquare, TypeOK, PhaseInv, IsManager, tx
    <3>3. QED
      BY <3>1, <3>2
  <2>5. QED
    BY <1>7, <2>3, <2>4 DEF BulkSquare
<1>8. CASE EndBulk(r)
  <2>1. Answered(r) \in {"idle", "done"}
    BY DEF Answered
  <2>2. TypeOK'
    BY <1>8, <2>1 DEF EndBulk, End, TypeOK, Phases, tx
  <2>3. PhaseInv'
    BY <1>8, <2>1 DEF EndBulk, End, TypeOK, PhaseInv, IsManager, tx
  <2>4. QED
    BY <2>2, <2>3
<1>9. QED
  BY <1>1, <1>2, <1>3, <1>4, <1>5, <1>6, <1>7, <1>8 DEF Handle

\* The saves ChildSquares appends are statements.
LEMMA ChildSaveType ==
  ASSUME TypeOK, NEW r \in Requests, user[r] \in Users, NEW i \in Statement,
         i.do = "children", NEW c \in Squares
  PROVE  ChildSave(r, i, c) \in Statement
<1>1. Loaded(Read(r, c)) \in Image
  BY ReadType, ImageTypes
<1>2. i.to \in Names \cup {None} /\ i.mgr \in BOOLEAN
  BY DEF Statement
<1>3. CASE i.to # None
  <2>1. [Loaded(Read(r, c)) EXCEPT !.claimant = i.to] \in Image
    BY <1>1, <1>2, <1>3 DEF Image
  <2>2. QED
    BY <1>2, <1>3, <2>1 DEF ChildSave, Save, Statement
<1>4. CASE i.to = None /\ i.mgr
  <2>1. [Loaded(Read(r, c)) EXCEPT !.state = "unclaimed"] \in Image
    BY <1>1 DEF Image, States
  <2>2. QED
    BY <1>4, <2>1, SaveType DEF ChildSave
<1>5. CASE i.to = None /\ ~i.mgr
  BY <1>5, SaveType, ImageTypes DEF ChildSave
<1>6. QED
  BY <1>2, <1>3, <1>4, <1>5

LEMMA RunType ==
  ASSUME TypeOK, PhaseInv, NEW r \in Requests,
         Run(r) \/ Cancel(r) \/ DeadlockDetected(r)
  PROVE  TypeOK' /\ PhaseInv'
<1>1. CASE SelectForShare(r)
  <2> DEFINE i == Next1(r)
  <2>1. /\ i \in Statement /\ i.do = "save" /\ i.sq \in Squares
        /\ Tail(todo[r]) \in Seq(Statement)
    BY <1>1, HeadType DEF SelectForShare
  <2>2. [i EXCEPT !.do = "update"] \in Statement
    BY <2>1 DEF Statement
  <2>3. <<[i EXCEPT !.do = "update"]>> \o Tail(todo[r]) \in Seq(Statement)
    BY <2>1, <2>2, ShortSequences, ConcatProperties
  <2>4. TypeOK'
    BY <1>1, <2>1, <2>3 DEF SelectForShare, TypeOK, request
  <2>5. PhaseInv'
    BY <1>1 DEF SelectForShare, Doing, TypeOK, PhaseInv, IsManager, request
  <2>6. QED
    BY <2>4, <2>5
<1>2. CASE AlreadyClaimed(r)
  BY <1>2, FinishType DEF AlreadyClaimed, Rollback, Doing, TypeOK
<1>3. CASE Update(r)
  <2> DEFINE i == Next1(r)
  <2>1. /\ i.to \in Image /\ i.sq \in Squares
        /\ Tail(todo[r]) \in Seq(Statement)
    BY <1>3, HeadType DEF Update
  <2>2. Updated(Read(r, i.sq), i.to) \in Row
    BY <2>1, ReadType, UpdatedType
  <2>3. TypeOK'
    BY <1>3, <2>1, <2>2 DEF Update, TypeOK, request
  <2>4. PhaseInv'
    BY <1>3 DEF Update, Doing, TypeOK, PhaseInv, IsManager, request
  <2>5. QED
    BY <2>3, <2>4
<1>4. CASE SetParentSquare(r)
  <2> DEFINE i == Next1(r)
  <2>1. /\ i.to \in Squares /\ i.sq \in Squares
        /\ Tail(todo[r]) \in Seq(Statement)
    BY <1>4, HeadType DEF SetParentSquare
  <2>2. [Read(r, i.sq) EXCEPT !.parent = i.to] \in Row
    BY <2>1, ReadType DEF Row
  <2>3. TypeOK'
    BY <1>4, <2>1, <2>2 DEF SetParentSquare, TypeOK, request
  <2>4. PhaseInv'
    BY <1>4 DEF SetParentSquare, Doing, TypeOK, PhaseInv, IsManager, request
  <2>5. QED
    BY <2>3, <2>4
<1>5. CASE ChildSquares(r)
  <2> DEFINE i == Next1(r)
             kids == {c \in Squares : Read(r, c).parent = i.sq}
  <2>1. /\ i \in Statement /\ i.do = "children"
        /\ Tail(todo[r]) \in Seq(Statement)
        /\ user[r] \in Users
    BY <1>5, HeadType DEF ChildSquares, Doing, PhaseInv
  <2>2. Cardinality(kids) \in Nat
    BY SquaresAssumption, FS_Subset, FS_CardinalityType
  <2>3. PICK order \in [1..Cardinality(kids) -> kids] :
          todo' = [todo EXCEPT ![r] =
                     Tail(@) \o [j \in DOMAIN order |-> ChildSave(r, i, order[j])]]
    BY <1>5 DEF ChildSquares
  <2>4. [j \in DOMAIN order |-> ChildSave(r, i, order[j])]
          \in [1..Cardinality(kids) -> Statement]
    BY <2>1, <2>3, ChildSaveType
  <2>5. [j \in DOMAIN order |-> ChildSave(r, i, order[j])] \in Seq(Statement)
    BY <2>2, <2>4, FunctionIsSeq
  <2>6. Tail(todo[r]) \o [j \in DOMAIN order |-> ChildSave(r, i, order[j])] \in Seq(Statement)
    BY <2>1, <2>5, ConcatProperties
  <2>7. TypeOK'
    BY <1>5, <2>3, <2>6 DEF ChildSquares, TypeOK, request
  <2>8. PhaseInv'
    BY <1>5, <2>3 DEF ChildSquares, Doing, TypeOK, PhaseInv, IsManager, request
  <2>9. QED
    BY <2>7, <2>8
<1>6. CASE Commit(r)
  <2>1. rows' \in [Squares -> Row]
    BY <1>6, ReadType DEF Commit
  <2>2. QED
    BY <1>6, <2>1, FinishType DEF Commit, TypeOK
<1>7. CASE Cancel(r)
  <2>1. Answered(r) \in {"idle", "done"}
    BY DEF Answered
  <2>2. TypeOK'
    BY <1>7, <2>1, NothingWrittenType DEF Cancel, End, TypeOK, Phases
  <2>3. PhaseInv'
    BY <1>7, <2>1 DEF Cancel, End, TypeOK, PhaseInv, IsManager
  <2>4. QED
    BY <2>2, <2>3
<1>8. CASE DeadlockDetected(r)
  <2>1. pc[r] = "tx"
    BY <1>8 DEF DeadlockDetected, WaitsFor, Doing
  <2>2. QED
    BY <1>8, <2>1, FinishType DEF DeadlockDetected, Rollback, TypeOK
<1>9. QED
  BY <1>1, <1>2, <1>3, <1>4, <1>5, <1>6, <1>7, <1>8 DEF Run

LEMMA OtherType ==
  ASSUME TypeOK, PhaseInv,
         \/ \E r \in Requests, u \in Users : Begin(r, u)
         \/ \E past \in BOOLEAN : SetLocks(past)
         \/ UNCHANGED vars
  PROVE  TypeOK' /\ PhaseInv'
<1>1. ASSUME NEW r \in Requests, NEW u \in Users, Begin(r, u)
      PROVE  TypeOK' /\ PhaseInv'
  <2>1. TypeOK'
    BY <1>1 DEF Begin, TypeOK, Phases, tx
  <2>2. PhaseInv'
    BY <1>1 DEF Begin, TypeOK, PhaseInv, IsManager, tx
  <2>3. QED
    BY <2>1, <2>2
<1>2. ASSUME NEW past \in BOOLEAN, SetLocks(past)
      PROVE  TypeOK' /\ PhaseInv'
  BY <1>2 DEF SetLocks, TypeOK, PhaseInv, IsManager, request, tx
<1>3. CASE UNCHANGED vars
  BY <1>3 DEF vars, TypeOK, PhaseInv, IsManager
<1>4. QED
  BY <1>1, <1>2, <1>3

\* Every variable keeps its type, and a request holds statements, written rows
\* and row locks only while its transaction runs: whatever way a request ends
\* (answered, refused, cancelled, chosen as deadlock victim), nothing is left.
THEOREM TypeCorrect == Spec => [](TypeOK /\ PhaseInv)
<1>1. Init => TypeOK /\ PhaseInv
  BY InitType
<1>2. TypeOK /\ PhaseInv /\ [Next]_vars => TypeOK' /\ PhaseInv'
  BY HandlerType, RunType, OtherType DEF Next
<1>3. QED
  BY <1>1, <1>2, PTL DEF Spec
=============================================================================
