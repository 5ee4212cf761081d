--------------------------- MODULE PoolSquaresSafety ---------------------------
(***************************************************************************)
(* Safety of PoolSquares, by one inductive invariant, for any users,       *)
(* squares, names and requests.                                            *)
(***************************************************************************)
EXTENDS PoolSquaresProofs

-----------------------------------------------------------------------------
\* The programs handlers build, and the ways a transaction changes its own.

LEMMA TailElements ==
  ASSUME NEW S, NEW p \in Seq(S), p # <<>>
  PROVE  /\ 1 \in DOMAIN p
         /\ \A j \in DOMAIN Tail(p) :
              j \in Nat /\ j >= 1 /\ j+1 \in DOMAIN p /\ Tail(p)[j] = p[j+1]
BY HeadTailProperties, LenProperties

LEMMA ConcatElements ==
  ASSUME NEW S, NEW p \in Seq(S), NEW q \in Seq(S)
  PROVE  \A j \in DOMAIN (p \o q) :
           /\ j \in Nat /\ j >= 1
           /\ \/ j \in DOMAIN p /\ (p \o q)[j] = p[j]
              \/ /\ j > Len(p) /\ j - Len(p) \in DOMAIN q
                 /\ (p \o q)[j] = q[j - Len(p)]
BY ConcatProperties, LenProperties

LEMMA HeadReplaced ==
  ASSUME NEW S, NEW p \in Seq(S), p # <<>>, NEW a \in S
  PROVE  /\ (<<a>> \o Tail(p))[1] = a
         /\ \A j \in DOMAIN (<<a>> \o Tail(p)) :
              /\ j \in DOMAIN p /\ j \in Nat /\ j >= 1
              /\ (<<a>> \o Tail(p))[j] = IF j = 1 THEN a ELSE p[j]
<1>1. <<a>> \in Seq(S) /\ Len(<<a>>) = 1 /\ <<a>>[1] = a
  OBVIOUS
<1>2. Tail(p) \in Seq(S) /\ Len(Tail(p)) = Len(p) - 1 /\ Len(p) \in Nat
  BY HeadTailProperties, LenProperties
<1>3. \A j \in 1 .. Len(Tail(p)) : Tail(p)[j] = p[j+1]
  BY HeadTailProperties
<1>4. Len(<<a>> \o Tail(p)) = Len(p) /\ DOMAIN p = 1 .. Len(p)
  BY <1>1, <1>2, ConcatProperties, LenProperties
<1>5. DOMAIN (<<a>> \o Tail(p)) = 1 .. Len(p)
  BY <1>1, <1>2, <1>4, ConcatProperties, LenProperties
<1>6. \A j \in 1 .. Len(p) :
        (<<a>> \o Tail(p))[j] = IF j <= 1 THEN <<a>>[j] ELSE Tail(p)[j - 1]
  BY <1>1, <1>2, ConcatProperties
<1>7. Len(p) >= 1
  BY EmptySeq
<1>8. QED
  BY <1>1, <1>2, <1>3, <1>4, <1>5, <1>6, <1>7

LEMMA OneElement ==
  ASSUME NEW S, NEW a \in S
  PROVE  <<a>> \in Seq(S) /\ DOMAIN <<a>> = {1} /\ <<a>>[1] = a /\ Len(<<a>>) = 1
OBVIOUS

LEMMA TwoElements ==
  ASSUME NEW S, NEW a \in S, NEW b \in S
  PROVE  /\ <<a, b>> \in Seq(S) /\ DOMAIN <<a, b>> = {1, 2} /\ Len(<<a, b>>) = 2
         /\ <<a, b>>[1] = a /\ <<a, b>>[2] = b
OBVIOUS

LEMMA OneThenOne ==
  ASSUME NEW a, NEW b
  PROVE  /\ DOMAIN (<<a>> \o <<b>>) = {1, 2}
         /\ (<<a>> \o <<b>>)[1] = a /\ (<<a>> \o <<b>>)[2] = b
<1> DEFINE S == {a, b}
<1>1. Len(<<a>> \o <<b>>) = 2 /\ <<a>> \o <<b>> \in Seq(S)
  BY OneElement, ConcatProperties
<1>2. DOMAIN (<<a>> \o <<b>>) = 1..2
  BY <1>1, LenProperties
<1>3. \A j \in 1..2 : (<<a>> \o <<b>>)[j] = IF j <= 1 THEN <<a>>[j] ELSE <<b>>[j-1]
  BY OneElement, ConcatProperties
<1>4. QED
  BY <1>2, <1>3, OneElement

LEMMA OneThenTwo ==
  ASSUME NEW a, NEW b, NEW c
  PROVE  /\ DOMAIN (<<a>> \o <<b, c>>) = {1, 2, 3}
         /\ (<<a>> \o <<b, c>>)[1] = a
         /\ (<<a>> \o <<b, c>>)[2] = b
         /\ (<<a>> \o <<b, c>>)[3] = c
<1> DEFINE S == {a, b, c}
<1>1. Len(<<a>> \o <<b, c>>) = 3 /\ <<a>> \o <<b, c>> \in Seq(S)
  BY OneElement, TwoElements, ConcatProperties
<1>2. DOMAIN (<<a>> \o <<b, c>>) = 1..3
  BY <1>1, LenProperties
<1>3. \A j \in 1..3 : (<<a>> \o <<b, c>>)[j] = IF j <= 1 THEN <<a>>[j] ELSE <<b, c>>[j-1]
  BY OneElement, TwoElements, ConcatProperties
<1>4. QED
  BY <1>2, <1>3, OneElement, TwoElements

LEMMA TwoThenOne ==
  ASSUME NEW a, NEW b, NEW c
  PROVE  /\ DOMAIN (<<a, b>> \o <<c>>) = {1, 2, 3}
         /\ (<<a, b>> \o <<c>>)[1] = a
         /\ (<<a, b>> \o <<c>>)[2] = b
         /\ (<<a, b>> \o <<c>>)[3] = c
<1> DEFINE S == {a, b, c}
<1>1. Len(<<a, b>> \o <<c>>) = 3 /\ <<a, b>> \o <<c>> \in Seq(S)
  BY OneElement, TwoElements, ConcatProperties
<1>2. DOMAIN (<<a, b>> \o <<c>>) = 1..3
  BY <1>1, LenProperties
<1>3. \A j \in 1..3 : (<<a, b>> \o <<c>>)[j] = IF j <= 2 THEN <<a, b>>[j] ELSE <<c>>[j-2]
  BY OneElement, TwoElements, ConcatProperties
<1>4. QED
  BY <1>2, <1>3, OneElement, TwoElements

-----------------------------------------------------------------------------
\* A program as a handler builds it: no UPDATE before its SELECT ... FOR SHARE,
\* no image that would leave an inconsistent row, no link without its save.
FreshProgram(p) ==
  \A j \in DOMAIN p :
    /\ p[j].do \in {"save", "link", "children"}
    /\ p[j].do = "save" => ConsistentImage(p[j].to)
    /\ p[j].do = "link" => /\ j # 1
                           /\ p[j-1].do = "save"
                           /\ p[j-1].sq = p[j].sq
                           /\ p[j-1].to.state # "unclaimed"

\* The program of a user who is not a manager either claims or unclaims.
UserProgram(p, u) ==
  /\ \A j \in DOMAIN p :
       /\ p[j].do # "link" => p[j].mgr = FALSE
       /\ p[j].do = "save" => p[j].to.owner = u
       /\ p[j].do = "children" => p[j].to = None
  /\ \A j, k \in DOMAIN p :
       p[j].do = "save" /\ p[j].to.state # "unclaimed" =>
         /\ p[k].do # "children"
         /\ p[k].do = "save" => p[k].to.state # "unclaimed"

LEMMA RenameProgram ==
  ASSUME NEW s \in Squares, NEW image \in Image, ConsistentImage(image), NEW n \in Names
  PROVE  FreshProgram(<<Save(s, image, TRUE), Children(s, n, TRUE)>>)
BY DEF FreshProgram, Save, Children

LEMMA ManageProgram ==
  ASSUME NEW s \in Squares, NEW image \in Image, ConsistentImage(image), NEW c \in BOOLEAN
  PROVE  /\ FreshProgram(<<Save(s, image, TRUE)>>)
         /\ FreshProgram(<<Save(s, image, TRUE)>> \o
                           IF c THEN <<Children(s, None, TRUE)>> ELSE <<>>)
<1>1. FreshProgram(<<Save(s, image, TRUE)>>)
  BY DEF FreshProgram, Save
<1>2. CASE c
  <2> DEFINE p == <<Save(s, image, TRUE)>> \o <<Children(s, None, TRUE)>>
  <2>0. Save(s, image, TRUE) \in Statement /\ Children(s, None, TRUE) \in Statement
    BY SaveType, ChildrenType
  <2>1. DOMAIN p = {1, 2} /\ p[1] = Save(s, image, TRUE) /\ p[2] = Children(s, None, TRUE)
    BY <2>0, OneThenOne
  <2> HIDE DEF p
  <2>2. FreshProgram(p)
    BY <2>1 DEF FreshProgram, Save, Children
  <2>3. QED
    BY <1>1, <1>2, <2>2 DEF p
<1>3. CASE ~c
  <2>1. <<Save(s, image, TRUE)>> \o <<>> = <<Save(s, image, TRUE)>>
    BY SaveType, OneElement, ConcatEmptySeq
  <2>2. QED
    BY <1>1, <1>3, <2>1
<1>4. QED
  BY <1>2, <1>3

LEMMA ClaimProgram ==
  ASSUME NEW u \in Users, NEW n \in Names, NEW s \in Squares,
         NEW second \in Squares \cup {None}
  PROVE  LET p == <<Save(s, Claimed(u, n), FALSE)>> \o
                    IF second = None THEN <<>>
                    ELSE <<Save(second, Claimed(u, n), FALSE), Link(second, s)>>
         IN  FreshProgram(p) /\ UserProgram(p, u)
<1> DEFINE image == Claimed(u, n)
<1>1. image \in Image /\ ConsistentImage(image)
      /\ image.state = "claimed" /\ image.owner = u
  BY ImageTypes, NoneAssumption DEF Claimed, ConsistentImage
<1> HIDE DEF image
<1>2. CASE second = None
  <2> DEFINE p == <<Save(s, image, FALSE)>>
  <2>1. FreshProgram(p) /\ UserProgram(p, u)
    BY <1>1 DEF FreshProgram, UserProgram, Save
  <2>2. p \o <<>> = p
    BY <1>1, SaveType, OneElement, ConcatEmptySeq
  <2>3. QED
    BY <1>2, <2>1, <2>2 DEF image
<1>3. CASE second \in Squares
  <2> DEFINE a == Save(s, image, FALSE)
             b == Save(second, image, FALSE)
             c == Link(second, s)
             p == <<a>> \o <<b, c>>
  <2> HIDE DEF a, b, c
  <2>1. /\ DOMAIN p = {1, 2, 3}
        /\ p[1] = a
        /\ p[2] = b
        /\ p[3] = c
    BY OneThenTwo
  <2> HIDE DEF p
  <2>2. FreshProgram(p)
    BY <1>1, <2>1 DEF a, b, c, FreshProgram, Save, Link
  <2>3. UserProgram(p, u)
    BY <1>1, <2>1 DEF a, b, c, UserProgram, Save, Link
  <2>4. QED
    BY <1>3, <2>2, <2>3, NoneAssumption DEF image, a, b, c, p
<1>4. QED
  BY <1>2, <1>3

LEMMA UnclaimProgram ==
  ASSUME NEW u \in Users, NEW s \in Squares, NEW parent \in Squares \cup {None}
  PROVE  LET p == <<Children(s, None, FALSE), Save(s, Unclaimed(u), FALSE)>> \o
                    IF parent = None THEN <<>>
                    ELSE <<Save(parent, Unclaimed(u), FALSE)>>
         IN  FreshProgram(p) /\ UserProgram(p, u)
<1> DEFINE image == Unclaimed(u)
<1>1. image \in Image /\ image.state = "unclaimed" /\ image.owner = u
  BY ImageTypes DEF Unclaimed
<1>2. ConsistentImage(image)
  BY <1>1 DEF ConsistentImage
<1> HIDE DEF image
<1>3. CASE parent = None
  <2> DEFINE p == <<Children(s, None, FALSE), Save(s, image, FALSE)>>
  <2>1. FreshProgram(p) /\ UserProgram(p, u)
    BY <1>1, <1>2 DEF FreshProgram, UserProgram, Save, Children
  <2>2. p \o <<>> = p
    BY <1>1, SaveType, ChildrenType, TwoElements, ConcatEmptySeq
  <2>3. QED
    BY <1>3, <2>1, <2>2 DEF image
<1>4. CASE parent \in Squares
  <2> DEFINE a == Children(s, None, FALSE)
             b == Save(s, image, FALSE)
             c == Save(parent, image, FALSE)
             p == <<a, b>> \o <<c>>
  <2> HIDE DEF a, b, c
  <2>1. /\ DOMAIN p = {1, 2, 3}
        /\ p[1] = a
        /\ p[2] = b
        /\ p[3] = c
    BY TwoThenOne
  <2> HIDE DEF p
  <2>2. FreshProgram(p)
    BY <1>2, <2>1 DEF a, b, c, FreshProgram, Save, Children
  <2>3. UserProgram(p, u)
    BY <1>1, <2>1 DEF a, b, c, UserProgram, Save, Children
  <2>4. QED
    BY <1>4, <2>2, <2>3, NoneAssumption DEF image, a, b, c, p
<1>5. QED
  BY <1>3, <1>4

\* r starts a transaction that will run p.
Starts(r, p) ==
  /\ pc' = [pc EXCEPT ![r] = "tx"]
  /\ todo' = [todo EXCEPT ![r] = p]
  /\ FreshProgram(p)
  /\ ~IsManager(r) => UserProgram(p, user[r])
  /\ UNCHANGED user

LEMMA BulkProgram ==
  ASSUME TypeOK, DataInv, NEW r \in Requests, NEW u \in Users, NEW s \in Squares,
         NEW job \in BulkJob, BulkAccepts(job, rows[s])
  PROVE  FreshProgram(BulkStatements(job, s, u))
<1>1. rows[s] \in Row /\ ConsistentRow(rows[s]) /\ Loaded(rows[s]) \in Image
  BY ImageTypes DEF TypeOK, DataInv
<1>2. CASE job.act = "claim"
  <2>1. job.name \in Names
    BY <1>2 DEF BulkJob, BulkJobsOver
  <2>2. Claimed(u, job.name) \in Image /\ ConsistentImage(Claimed(u, job.name))
    BY <2>1, ImageTypes, NoneAssumption DEF Claimed, ConsistentImage
  <2>3. QED
    BY <1>2, <2>2, ManageProgram DEF BulkStatements
<1>3. CASE job.act = "unclaim"
  <2> DEFINE image == [Loaded(rows[s]) EXCEPT !.state = "unclaimed"]
  <2>1. image \in Image /\ ConsistentImage(image)
    BY <1>1 DEF Image, States, ConsistentImage
  <2> HIDE DEF image
  <2>2. FreshProgram(<<Save(s, image, TRUE)>> \o
                       IF Roll100 THEN <<Children(s, None, TRUE)>> ELSE <<>>)
    BY <2>1, ManageProgram, SquaresAssumption
  <2>3. QED
    BY <1>3, <2>2 DEF BulkStatements, image
<1>4. CASE job.act \notin {"claim", "unclaim"}
  <2> DEFINE image == [Loaded(rows[s]) EXCEPT !.state = job.state]
  <2>1. job.state \in States /\ rows[s].state # "unclaimed"
    BY <1>4 DEF BulkJob, BulkJobsOver, BulkAccepts, States
  <2>2. image \in Image /\ ConsistentImage(image)
    BY <1>1, <2>1 DEF Image, ConsistentImage, ConsistentRow, Loaded
  <2> HIDE DEF image
  <2>3. FreshProgram(<<Save(s, image, TRUE)>>)
    BY <2>2, ManageProgram
  <2>4. QED
    BY <1>4, <2>3 DEF BulkStatements, image
<1>5. QED
  BY <1>2, <1>3, <1>4

\* What a step of a handler does to the transactions.
LEMMA HandlerProgram ==
  ASSUME TypeOK, PhaseInv, DataInv, NEW r \in Requests, Handle(r)
  PROVE  /\ UNCHANGED <<rows, pend, share>>
         /\ pc[r] # "tx"
         /\ \/ /\ UNCHANGED todo
               /\ pc'[r] # "tx"
               /\ \A q \in Requests \ {r} : pc'[q] = pc[q] /\ user'[q] = user[q]
            \/ \E p : Starts(r, p)
<1>0. \A s \in Squares : /\ rows[s] \in Row
                         /\ ConsistentRow(rows[s])
                         /\ Loaded(rows[s]) \in Image
  BY ImageTypes DEF TypeOK, DataInv
<1> DEFINE Idles == /\ UNCHANGED todo
                    /\ pc'[r] # "tx"
                    /\ \A q \in Requests \ {r} : pc'[q] = pc[q] /\ user'[q] = user[q]
           Goal == /\ UNCHANGED <<rows, pend, share>>
                   /\ pc[r] # "tx"
                   /\ Idles \/ \E p : Starts(r, p)
<1>1. CASE Reject(r) \/ EndBulk(r)
  <2>1. Answered(r) # "tx"
    BY DEF Answered
  <2>2. QED
    BY <1>1, <2>1 DEF Reject, EndBulk, End, TypeOK, tx
<1>2. ASSUME NEW s \in Squares, NEW n \in Names, Rename(r, s, n)
      PROVE  Goal
  <2> DEFINE image == [Loaded(rows[s]) EXCEPT !.claimant = n]
  <2>1. image \in Image /\ ConsistentImage(image)
    BY <1>0, NoneAssumption DEF Image, ConsistentImage, ConsistentRow, Loaded
  <2> HIDE DEF image
  <2>2. FreshProgram(<<Save(s, image, TRUE), Children(s, n, TRUE)>>)
    BY <2>1, RenameProgram
  <2>3. BeginTx(r, <<Save(s, image, TRUE), Children(s, n, TRUE)>>) /\ IsManager(r)
        /\ pc[r] # "tx"
    BY <1>2 DEF Rename, MayEdit, image
  <2>4. Starts(r, <<Save(s, image, TRUE), Children(s, n, TRUE)>>)
    BY <2>2, <2>3 DEF Starts, BeginTx
  <2>5. QED
    BY <2>3, <2>4 DEF BeginTx
<1>3. ASSUME NEW s \in Squares, NEW n \in Names, NEW second \in Squares \cup {None},
             Claim(r, s, n, second)
      PROVE  Goal
  <2> DEFINE p == <<Save(s, Claimed(user[r], n), FALSE)>> \o
                    IF second = None THEN <<>>
                    ELSE <<Save(second, Claimed(user[r], n), FALSE), Link(second, s)>>
  <2>1. user[r] \in Users /\ pc[r] # "tx" /\ BeginTx(r, p)
    BY <1>3 DEF Claim, MayEdit, PhaseInv
  <2>2. FreshProgram(p) /\ UserProgram(p, user[r])
    BY <2>1, ClaimProgram
  <2> HIDE DEF p
  <2>3. Starts(r, p)
    BY <2>1, <2>2 DEF Starts, BeginTx
  <2>4. QED
    BY <2>1, <2>3 DEF BeginTx
<1>4. ASSUME NEW s \in Squares, Unclaim(r, s)
      PROVE  Goal
  <2> DEFINE p == <<Children(s, None, FALSE), Save(s, Unclaimed(user[r]), FALSE)>> \o
                    IF rows[s].parent = None THEN <<>>
                    ELSE <<Save(rows[s].parent, Unclaimed(user[r]), FALSE)>>
  <2>1. user[r] \in Users /\ pc[r] # "tx" /\ BeginTx(r, p)
    BY <1>4 DEF Unclaim, MayEdit, PhaseInv
  <2>2. rows[s].parent \in Squares \cup {None}
    BY <1>0 DEF Row
  <2>3. FreshProgram(p) /\ UserProgram(p, user[r])
    BY <2>1, <2>2, UnclaimProgram
  <2> HIDE DEF p
  <2>4. Starts(r, p)
    BY <2>1, <2>3 DEF Starts, BeginTx
  <2>5. QED
    BY <2>1, <2>4 DEF BeginTx
<1>5. ASSUME NEW s \in Squares, NEW st \in Payments \cup {None}, Manage(r, s, st)
      PROVE  Goal
  <2> DEFINE new == IF st = None THEN rows[s].state ELSE st
             image == [Loaded(rows[s]) EXCEPT !.state = new]
             p == <<Save(s, image, TRUE)>> \o
                    IF new = "unclaimed" THEN <<Children(s, None, TRUE)>> ELSE <<>>
  <2>1. new \in States /\ (rows[s].state = "unclaimed" => new = "unclaimed")
    BY <1>0, <1>5, SquaresAssumption DEF Manage, Row
  <2>2. image \in Image /\ ConsistentImage(image)
    BY <1>0, <2>1 DEF Image, ConsistentImage, ConsistentRow, Loaded
  <2>3. IsManager(r) /\ pc[r] # "tx" /\ BeginTx(r, p)
    BY <1>5 DEF Manage, MayEdit
  <2> HIDE DEF image, new
  <2>4. FreshProgram(p)
    BY <2>2, ManageProgram
  <2> HIDE DEF p
  <2>5. Starts(r, p)
    BY <2>3, <2>4 DEF Starts, BeginTx
  <2>6. QED
    BY <2>3, <2>5 DEF BeginTx
<1>6. ASSUME NEW job \in BulkJobsOver(Names, Payments, BulkLists), BeginBulk(r, job)
      PROVE  Goal
  BY <1>6 DEF BeginBulk, TypeOK, tx
<1>7. CASE BulkSquare(r)
  <2> DEFINE s == Head(bulk[r].left)
             p == BulkStatements(bulk[r], s, user[r])
  <2>1. /\ bulk[r] \in BulkJob
        /\ s \in Squares
        /\ user[r] \in Users /\ IsManager(r)
    BY <1>7, HeadTailProperties DEF BulkSquare, TypeOK, PhaseInv, BulkJob, BulkJobsOver
  <2>2. CASE BulkAccepts(bulk[r], rows[s]) /\ BeginTx(r, p)
    <3>1. FreshProgram(p)
      BY <2>1, <2>2, BulkProgram
    <3> HIDE DEF p
    <3>2. Starts(r, p)
      BY <2>1, <2>2, <3>1 DEF Starts, BeginTx
    <3>3. QED
      BY <1>7, <2>2, <3>2 DEF BulkSquare, BeginTx
  <2>3. CASE UNCHANGED <<rows, locked, pc, user, sawLocked, tx>>
    BY <1>7, <2>3 DEF BulkSquare, tx
  <2>4. QED
    BY <1>7, <2>2, <2>3 DEF BulkSquare
<1>8. QED
  BY <1>1, <1>2, <1>3, <1>4, <1>5, <1>6, <1>7 DEF Handle

-----------------------------------------------------------------------------
\* The transactions that do not move.

\* The transaction of q is where it was and the rows it has locked are as they
\* were.
Untouched(q) ==
  /\ pc'[q] = pc[q]
  /\ user'[q] = user[q]
  /\ todo'[q] = todo[q]
  /\ pend'[q] = pend[q]
  /\ share'[q] = share[q]
  /\ \A s \in share[q] : rows'[s] = rows[s]

LEMMA UntouchedUserTx ==
  ASSUME TypeOK, LockInv, NEW q \in Requests, UserTx(q), Untouched(q)
  PROVE  UserTx(q)'
<1>1. \A s \in Squares : HasWritten(q, s) => s \in share[q]
  BY DEF LockInv, WritersAreAlone
<1>2. \A j \in DOMAIN todo[q] : todo[q][j].do = "update" => todo[q][j].sq \in share[q]
  BY DEF LockInv, UpdateHoldsLock
<1>3. \A s \in share[q] : Read(q, s)' = Read(q, s)
  BY DEF Untouched, Read
<1>4. \A s \in Squares : HasWritten(q, s)' <=> HasWritten(q, s)
  BY DEF Untouched, HasWritten
<1>5. (\A j \in DOMAIN todo[q] :
         todo[q][j].do = "update" =>
           Allowed(Read(q, todo[q][j].sq), todo[q][j].to, FALSE))'
  BY <1>2, <1>3 DEF UserTx, Untouched, Allowed, InitialClaim, UserUnclaim
<1>6. \A s \in Squares : HasWritten(q, s)' =>
        \/ rows'[s].state = "unclaimed"
        \/ /\ rows'[s].owner = user'[q]
           /\ rows'[s].state = "claimed"
           /\ pend'[q][s] = EmptyRow
  BY <1>1, <1>4 DEF UserTx, Untouched
<1>7. QED
  BY <1>4, <1>5, <1>6 DEF UserTx, Untouched, Saves

\* DataInv, split into what it says of one request and of the rows.
RequestData(r) ==
  /\ \A s \in Squares : HasWritten(r, s) => ConsistentRow(pend[r][s])
  /\ \A j \in DOMAIN todo[r] : Saves(todo[r][j]) => ConsistentImage(todo[r][j].to)
  /\ \A j \in DOMAIN todo[r] :
       todo[r][j].do = "link" =>
         IF j = 1
         THEN /\ HasWritten(r, todo[r][j].sq)
              /\ pend[r][todo[r][j].sq].state # "unclaimed"
         ELSE /\ Saves(todo[r][j-1])
              /\ todo[r][j-1].sq = todo[r][j].sq
              /\ todo[r][j-1].to.state # "unclaimed"

LEMMA DataInvParts ==
  DataInv <=> /\ \A s \in Squares : ConsistentRow(rows[s])
              /\ \A r \in Requests : RequestData(r)
BY DEF DataInv, RequestData

\* LockInv, split likewise: what r has locked and what it is about to update.
RequestLocks(r) ==
  /\ \A s \in Squares : HasWritten(r, s) => s \in share[r]
  /\ \A j \in DOMAIN todo[r] :
       todo[r][j].do = "update" => j = 1 /\ todo[r][j].sq \in share[r]

LEMMA LockInvParts ==
  LockInv <=>
    /\ \A r \in Requests : RequestLocks(r)
    /\ \A r \in Requests, s \in Squares :
         HasWritten(r, s) => \A q \in Requests \ {r} : s \notin share[q]
BY DEF LockInv, WritersAreAlone, UpdateHoldsLock, RequestLocks

LEMMA UntouchedRequest ==
  ASSUME NEW q \in Requests, Untouched(q)
  PROVE  /\ RequestData(q) => RequestData(q)'
         /\ RequestLocks(q) => RequestLocks(q)'
         /\ \A s \in Squares : HasWritten(q, s)' <=> HasWritten(q, s)
BY DEF Untouched, RequestData, RequestLocks, HasWritten, ConsistentRow, ConsistentImage, Saves

\* A step of one request r that leaves the others and the rows alone keeps the
\* invariant if it keeps what the invariant says of r.
LEMMA OneMoves ==
  ASSUME TypeOK, LockInv, DataInv, UserInv, NEW r \in Requests,
         \A q \in Requests \ {r} : Untouched(q),
         \A s \in Squares : ConsistentRow(rows'[s]),
         RequestData(r)', RequestLocks(r)',
         pc'[r] = "tx" /\ ~IsManager(r)' => UserTx(r)',
         \A s \in Squares : HasWritten(r, s)' =>
           \A q \in Requests \ {r} : s \notin share[q],
         \A s \in share'[r] \ share[r] :
           \A q \in Requests \ {r} : ~HasWritten(q, s)
  PROVE  LockInv' /\ DataInv' /\ UserInv'
<1>1. DataInv'
  <2>1. \A q \in Requests \ {r} : RequestData(q)'
    BY UntouchedRequest, DataInvParts
  <2>2. \A q \in Requests : RequestData(q)'
    BY <2>1
  <2>3. (\A s \in Squares : ConsistentRow(rows[s]))'
    BY DEF ConsistentRow
  <2>4. QED
    BY <2>2, <2>3, DataInvParts DEF DataInv, RequestData
<1>2. LockInv'
  <2>1. \A q \in Requests \ {r} : RequestLocks(q)'
    BY UntouchedRequest, LockInvParts
  <2>2. ASSUME NEW a \in Requests, NEW s \in Squares, HasWritten(a, s)',
               NEW q \in Requests \ {a}
        PROVE  s \notin share'[q]
    <3>1. CASE a = r
      BY <2>2, <3>1 DEF Untouched
    <3>2. CASE a # r
      <4>1. HasWritten(a, s)
        BY <2>2, <3>2, UntouchedRequest
      <4>2. s \notin share[q]
        BY <4>1, LockInvParts
      <4>3. QED
        BY <3>2, <4>1, <4>2 DEF Untouched
    <3>3. QED
      BY <3>1, <3>2
  <2>3. QED
    BY <2>1, <2>2 DEF LockInv, WritersAreAlone, UpdateHoldsLock, RequestLocks
<1>3. UserInv'
  <2>1. ASSUME NEW q \in Requests \ {r}, pc'[q] = "tx", ~IsManager(q)'
        PROVE  UserTx(q)'
    <3>1. pc[q] = "tx" /\ ~IsManager(q) /\ Untouched(q)
      BY <2>1 DEF Untouched, IsManager
    <3>2. QED
      BY <3>1, UntouchedUserTx DEF UserInv
  <2>2. QED
    BY <2>1 DEF UserInv
<1>4. QED
  BY <1>1, <1>2, <1>3

-----------------------------------------------------------------------------
\* The invariant is kept: by the handlers,

LEMMA HandlerKeeps ==
  ASSUME SafetyInv, NEW r \in Requests, Handle(r)
  PROVE  LockInv' /\ DataInv' /\ UserInv'
<1>1. TypeOK /\ PhaseInv /\ LockInv /\ DataInv /\ UserInv
  BY DEF SafetyInv
<1>2. UNCHANGED <<rows, pend, share>> /\ pc[r] # "tx"
  BY <1>1, HandlerProgram
<1>3. todo[r] = <<>> /\ pend[r] = NothingWritten /\ share[r] = {}
  BY <1>1, <1>2 DEF PhaseInv
<1>4. \A s \in Squares : ~HasWritten(r, s) /\ ~HasWritten(r, s)'
  BY <1>2, <1>3 DEF HasWritten, NothingWritten
<1>5. \A s \in Squares : ConsistentRow(rows'[s])
  BY <1>1, <1>2 DEF DataInv
<1>6. CASE /\ UNCHANGED todo
           /\ pc'[r] # "tx"
           /\ \A q \in Requests \ {r} : pc'[q] = pc[q] /\ user'[q] = user[q]
  <2>1. \A q \in Requests \ {r} : Untouched(q)
    BY <1>2, <1>6 DEF Untouched
  <2>2. RequestData(r)' /\ RequestLocks(r)'
    BY <1>3, <1>4, <1>6 DEF RequestData, RequestLocks
  <2>3. QED
    BY <1>1, <1>2, <1>4, <1>5, <1>6, <2>1, <2>2, OneMoves
<1>7. CASE \E p : Starts(r, p)
  <2>1. PICK p : Starts(r, p)
    BY <1>7
  <2>2. /\ pc'[r] = "tx" /\ todo'[r] = p
        /\ user' = user
        /\ \A q \in Requests \ {r} : pc'[q] = pc[q] /\ todo'[q] = todo[q]
    BY <1>1, <2>1 DEF Starts, TypeOK
  <2>3. \A q \in Requests \ {r} : Untouched(q)
    BY <1>2, <2>2 DEF Untouched
  <2>4. FreshProgram(p) /\ (~IsManager(r) => UserProgram(p, user[r]))
    BY <2>1 DEF Starts
  <2>5. RequestData(r)'
    BY <1>4, <2>2, <2>4 DEF RequestData, FreshProgram, Saves
  <2>6. RequestLocks(r)'
    BY <1>4, <2>2, <2>4 DEF RequestLocks, FreshProgram
  <2>7. ASSUME ~IsManager(r)'
        PROVE  UserTx(r)'
    <3>1. UserProgram(p, user[r])
      BY <2>2, <2>4, <2>7 DEF IsManager
    <3>2. \A j \in DOMAIN p : p[j].do # "update"
      BY <2>4 DEF FreshProgram
    <3>3. (\A j \in DOMAIN todo[r] :
             todo[r][j].do = "update" =>
               Allowed(Read(r, todo[r][j].sq), todo[r][j].to, FALSE))'
      BY <2>2, <3>2
    <3>4. QED
      BY <1>4, <2>2, <3>1, <3>2, <3>3 DEF UserTx, UserProgram, Saves
  <2>8. QED
    BY <1>1, <1>2, <1>4, <1>5, <2>3, <2>5, <2>6, <2>7, OneMoves
<1>8. QED
  BY <1>1, <1>6, <1>7, HandlerProgram

\* by the end of a transaction that changes no row,

LEMMA EndKeeps ==
  ASSUME SafetyInv, NEW r \in Requests,
         AlreadyClaimed(r) \/ Cancel(r) \/ DeadlockDetected(r)
  PROVE  LockInv' /\ DataInv' /\ UserInv'
<1>1. TypeOK /\ PhaseInv /\ LockInv /\ DataInv /\ UserInv
  BY DEF SafetyInv
<1>2. Answered(r) # "tx"
  BY DEF Answered
<1>3. /\ rows' = rows /\ pc'[r] # "tx"
      /\ todo'[r] = <<>> /\ pend'[r] = NothingWritten /\ share'[r] = {}
      /\ \A q \in Requests \ {r} : Untouched(q)
  BY <1>1, <1>2 DEF AlreadyClaimed, Cancel, DeadlockDetected, Rollback, Finish, End,
                    request, Untouched, TypeOK
<1>4. \A s \in Squares : ~HasWritten(r, s)'
  BY <1>3 DEF HasWritten, NothingWritten
<1>5. RequestData(r)' /\ RequestLocks(r)'
  BY <1>3, <1>4 DEF RequestData, RequestLocks
<1>6. \A s \in Squares : ConsistentRow(rows'[s])
  BY <1>1, <1>3 DEF DataInv
<1>7. QED
  BY <1>1, <1>3, <1>4, <1>5, <1>6, OneMoves

\* by the commit, which makes its rows the committed ones: nobody else holds a
\* lock on any of them,

LEMMA CommitKeeps ==
  ASSUME SafetyInv, NEW r \in Requests, Commit(r)
  PROVE  LockInv' /\ DataInv' /\ UserInv'
<1>1. TypeOK /\ PhaseInv /\ LockInv /\ DataInv /\ UserInv
  BY DEF SafetyInv
<1>2. Answered(r) # "tx"
  BY DEF Answered
<1>3. /\ rows' = [s \in Squares |-> Read(r, s)] /\ pc'[r] # "tx"
      /\ todo'[r] = <<>> /\ pend'[r] = NothingWritten /\ share'[r] = {}
      /\ \A q \in Requests \ {r} :
           /\ pc'[q] = pc[q] /\ user'[q] = user[q] /\ todo'[q] = todo[q]
           /\ pend'[q] = pend[q] /\ share'[q] = share[q]
  BY <1>1, <1>2 DEF Commit, Finish, End, request, TypeOK
<1>4. \A q \in Requests \ {r} : Untouched(q)
  <2>1. SUFFICES ASSUME NEW q \in Requests \ {r}, NEW s \in share[q]
                 PROVE  rows'[s] = rows[s]
    BY <1>3 DEF Untouched
  <2>2. s \in Squares
    BY <1>1 DEF TypeOK
  <2>3. ~HasWritten(r, s)
    BY <1>1, <2>2, LockInvParts
  <2>4. QED
    BY <1>3, <2>2, <2>3 DEF Read, HasWritten
<1>5. \A s \in Squares : ~HasWritten(r, s)'
  BY <1>3 DEF HasWritten, NothingWritten
<1>6. RequestData(r)' /\ RequestLocks(r)'
  BY <1>3, <1>5 DEF RequestData, RequestLocks
<1>7. \A s \in Squares : ConsistentRow(rows'[s])
  BY <1>1, <1>3 DEF DataInv, Read, HasWritten
<1>8. QED
  BY <1>1, <1>3, <1>4, <1>5, <1>6, <1>7, OneMoves

\* by SELECT ... FOR SHARE: no other transaction has written the row it locks,

LEMMA SelectKeeps ==
  ASSUME SafetyInv, NEW r \in Requests, SelectForShare(r)
  PROVE  LockInv' /\ DataInv' /\ UserInv'
<1> DEFINE i == Next1(r)
           u == [i EXCEPT !.do = "update"]
<1>1. TypeOK /\ PhaseInv /\ LockInv /\ DataInv /\ UserInv
  BY DEF SafetyInv
<1>2. /\ i \in Statement /\ i.do = "save" /\ i.sq \in Squares /\ i.mgr \in BOOLEAN
      /\ todo[r] \in Seq(Statement) /\ todo[r] # <<>> /\ i = todo[r][1]
      /\ pc[r] = "tx"
  BY <1>1, HeadType DEF SelectForShare, Doing, Next1, TypeOK
<1>3. u \in Statement /\ u.do = "update" /\ u.sq = i.sq /\ u.to = i.to /\ u.mgr = i.mgr
  BY <1>2 DEF Statement
<1>4. /\ todo'[r] = <<u>> \o Tail(todo[r])
      /\ share'[r] = share[r] \cup {i.sq}
      /\ rows' = rows /\ pend' = pend /\ pc' = pc /\ user' = user
      /\ \A q \in Requests \ {r} : Untouched(q)
  BY <1>1 DEF SelectForShare, request, Untouched, TypeOK
<1>5. Allowed(Read(r, i.sq), i.to, i.mgr) /\ ~ShareBlocked(r, i.sq)
  BY DEF SelectForShare
<1> HIDE DEF i, u
<1>6. /\ todo'[r][1] = u
      /\ 1 \in DOMAIN todo[r]
      /\ \A j \in DOMAIN todo'[r] :
           j \in DOMAIN todo[r] /\ j \in Nat /\ j >= 1
           /\ todo'[r][j] = IF j = 1 THEN u ELSE todo[r][j]
  BY <1>2, <1>3, <1>4, HeadReplaced, TailElements
<1>7. \A s \in Squares : HasWritten(r, s)' <=> HasWritten(r, s)
  BY <1>4 DEF HasWritten
<1>8. RequestData(r) /\ RequestLocks(r)
  BY <1>1, DataInvParts, LockInvParts
<1>9. \A j \in DOMAIN todo'[r] : todo'[r][j].do = "update" => j = 1
  BY <1>2, <1>6, <1>8 DEF RequestLocks
<1>10. RequestLocks(r)'
  BY <1>3, <1>4, <1>6, <1>7, <1>8, <1>9 DEF RequestLocks
<1>11. RequestData(r)'
  <2>1. \A s \in Squares : HasWritten(r, s)' => ConsistentRow(pend'[r][s])
    BY <1>4, <1>7, <1>8 DEF RequestData
  <2>2. \A j \in DOMAIN todo'[r] : Saves(todo'[r][j]) => ConsistentImage(todo'[r][j].to)
    BY <1>2, <1>3, <1>6, <1>8 DEF RequestData, Saves
  <2>3. ASSUME NEW j \in DOMAIN todo'[r], todo'[r][j].do = "link"
        PROVE  /\ j # 1
               /\ Saves(todo'[r][j-1])
               /\ todo'[r][j-1].sq = todo'[r][j].sq
               /\ todo'[r][j-1].to.state # "unclaimed"
    <3>1. j # 1 /\ j \in DOMAIN todo[r] /\ todo'[r][j] = todo[r][j]
      BY <1>3, <1>6, <2>3
    <3>2. /\ Saves(todo[r][j-1])
          /\ todo[r][j-1].sq = todo[r][j].sq
          /\ todo[r][j-1].to.state # "unclaimed"
      BY <1>8, <2>3, <3>1 DEF RequestData
    <3>3. j - 1 \in DOMAIN todo'[r]
      <4>1. todo'[r] \in Seq(Statement)
        BY <1>1, RunType DEF Run, TypeOK
      <4>2. DOMAIN todo'[r] = 1 .. Len(todo'[r]) /\ Len(todo'[r]) \in Nat
        BY <4>1, LenProperties
      <4>3. QED
        BY <2>3, <3>1, <4>2
    <3>4. QED
      BY <1>2, <1>3, <1>6, <3>1, <3>2, <3>3 DEF Saves
  <2>4. QED
    BY <2>1, <2>2, <2>3 DEF RequestData
<1>12. ASSUME ~IsManager(r)'
       PROVE  UserTx(r)'
  <2>1. UserTx(r)
    BY <1>1, <1>2, <1>4, <1>12 DEF UserInv, IsManager
  <2>2. i.mgr = FALSE
    BY <1>2, <1>6, <2>1 DEF UserTx
  <2>3. Allowed(Read(r, u.sq), u.to, FALSE)
    BY <1>3, <1>5, <2>2
  <2>4. (\A j \in DOMAIN todo[r] :
           todo[r][j].do = "update" =>
             Allowed(Read(r, todo[r][j].sq), todo[r][j].to, FALSE))'
    BY <1>4, <1>6, <1>9, <2>3 DEF Allowed, InitialClaim, UserUnclaim, Read
  <2>5. \A j \in DOMAIN todo'[r] : \E k \in DOMAIN todo[r] :
          /\ Saves(todo'[r][j]) <=> Saves(todo[r][k])
          /\ todo'[r][j].do = "link" <=> todo[r][k].do = "link"
          /\ todo'[r][j].do = "children" <=> todo[r][k].do = "children"
          /\ todo'[r][j].do # "link" => todo'[r][j].mgr = todo[r][k].mgr
          /\ todo'[r][j].to = todo[r][k].to
    BY <1>2, <1>3, <1>6 DEF Saves
  <2>6. \A j \in DOMAIN todo'[r] :
          /\ todo'[r][j].do # "link" => todo'[r][j].mgr = FALSE
          /\ Saves(todo'[r][j]) => todo'[r][j].to.owner = user[r]
          /\ todo'[r][j].do = "children" => todo'[r][j].to = None
    BY <2>1, <2>5 DEF UserTx
  <2>7. ASSUME NEW j \in DOMAIN todo'[r],
               Saves(todo'[r][j]), todo'[r][j].to.state # "unclaimed"
        PROVE  /\ \A k \in DOMAIN todo'[r] :
                    /\ todo'[r][k].do # "children"
                    /\ Saves(todo'[r][k]) => todo'[r][k].to.state # "unclaimed"
               /\ \A s \in Squares : HasWritten(r, s) => pend[r][s].state # "unclaimed"
    <3>1. PICK k \in DOMAIN todo[r] :
            Saves(todo[r][k]) /\ todo[r][k].to.state # "unclaimed"
      BY <2>5, <2>7
    <3>2. /\ \A l \in DOMAIN todo[r] :
               /\ todo[r][l].do # "children"
               /\ Saves(todo[r][l]) => todo[r][l].to.state # "unclaimed"
          /\ \A s \in Squares : HasWritten(r, s) => pend[r][s].state # "unclaimed"
      BY <2>1, <3>1 DEF UserTx
    <3>3. QED
      BY <2>5, <3>2
  <2>8. \A s \in Squares : HasWritten(r, s) =>
          \/ rows[s].state = "unclaimed"
          \/ /\ rows[s].owner = user[r]
             /\ rows[s].state = "claimed"
             /\ pend[r][s] = EmptyRow
    BY <2>1 DEF UserTx
  <2>9. QED
    BY <1>4, <1>7, <2>4, <2>6, <2>7, <2>8 DEF UserTx
<1>13. \A s \in Squares : ConsistentRow(rows'[s])
  BY <1>1, <1>4 DEF DataInv
<1>14. \A s \in Squares : HasWritten(r, s)' =>
         \A q \in Requests \ {r} : s \notin share[q]
  BY <1>1, <1>7, LockInvParts
<1>15. \A s \in share'[r] \ share[r] :
         \A q \in Requests \ {r} : ~HasWritten(q, s)
  BY <1>4, <1>5 DEF ShareBlocked
<1>16. QED
  BY <1>1, <1>4, <1>10, <1>11, <1>12, <1>13, <1>14, <1>15, OneMoves

\* by the statements that only take themselves off the program,

LEMMA NextStatement ==
  ASSUME TypeOK, LockInv, DataInv, NEW r \in Requests, todo[r] # <<>>
  PROVE  LET rest == Tail(todo[r])
         IN  /\ rest \in Seq(Statement)
             /\ Next1(r) = todo[r][1] /\ 1 \in DOMAIN todo[r]
             /\ \A j \in DOMAIN rest :
                  /\ j \in Nat /\ j >= 1 /\ j+1 \in DOMAIN todo[r] /\ rest[j] = todo[r][j+1]
                  /\ rest[j].do # "update"
                  /\ Saves(rest[j]) => ConsistentImage(rest[j].to)
                  /\ rest[j].do = "link" =>
                       IF j = 1
                       THEN /\ Saves(todo[r][1])
                            /\ todo[r][1].sq = rest[1].sq
                            /\ todo[r][1].to.state # "unclaimed"
                       ELSE /\ j-1 \in DOMAIN rest
                            /\ Saves(rest[j-1])
                            /\ rest[j-1].sq = rest[j].sq
                            /\ rest[j-1].to.state # "unclaimed"
<1> DEFINE rest == Tail(todo[r])
<1>1. /\ todo[r] \in Seq(Statement)
      /\ rest \in Seq(Statement)
      /\ Next1(r) = todo[r][1] /\ 1 \in DOMAIN todo[r]
  BY HeadTailProperties, TailElements DEF TypeOK, Next1
<1>2. \A j \in DOMAIN rest :
        j \in Nat /\ j >= 1 /\ j+1 \in DOMAIN todo[r] /\ rest[j] = todo[r][j+1]
  BY <1>1, TailElements
<1>3. DOMAIN rest = 1 .. Len(rest) /\ Len(rest) \in Nat
  BY <1>1, LenProperties
<1>4. RequestData(r) /\ RequestLocks(r)
  BY DataInvParts, LockInvParts
<1> HIDE DEF rest
<1>5. ASSUME NEW j \in DOMAIN rest
      PROVE  /\ rest[j].do # "update"
             /\ Saves(rest[j]) => ConsistentImage(rest[j].to)
  BY <1>2, <1>4 DEF RequestData, RequestLocks
<1>6. ASSUME NEW j \in DOMAIN rest, rest[j].do = "link"
      PROVE  IF j = 1
             THEN /\ Saves(todo[r][1])
                  /\ todo[r][1].sq = rest[1].sq
                  /\ todo[r][1].to.state # "unclaimed"
             ELSE /\ j-1 \in DOMAIN rest
                  /\ Saves(rest[j-1])
                  /\ rest[j-1].sq = rest[j].sq
                  /\ rest[j-1].to.state # "unclaimed"
  <2>1. /\ Saves(todo[r][(j+1)-1])
        /\ todo[r][(j+1)-1].sq = todo[r][j+1].sq
        /\ todo[r][(j+1)-1].to.state # "unclaimed"
    BY <1>2, <1>4, <1>6 DEF RequestData
  <2>2. (j+1)-1 = j /\ (j # 1 => j-1 \in DOMAIN rest /\ (j-1)+1 = j)
    BY <1>2, <1>3
  <2>3. QED
    BY <1>2, <1>6, <2>1, <2>2
<1>7. QED
  BY <1>1, <1>2, <1>5, <1>6 DEF rest

\* What UserTx says of the statements of a program, for the rest of one.
LEMMA RestOfUserTx ==
  ASSUME TypeOK, NEW r \in Requests, UserTx(r), todo[r] # <<>>
  PROVE  LET rest == Tail(todo[r])
         IN  /\ \A j \in DOMAIN rest :
                  /\ rest[j].do # "link" => rest[j].mgr = FALSE
                  /\ Saves(rest[j]) => rest[j].to.owner = user[r]
                  /\ rest[j].do = "children" => rest[j].to = None
             /\ \A j \in DOMAIN rest :
                  Saves(rest[j]) /\ rest[j].to.state # "unclaimed" =>
                    /\ \A k \in DOMAIN todo[r] :
                         /\ todo[r][k].do # "children"
                         /\ Saves(todo[r][k]) => todo[r][k].to.state # "unclaimed"
                    /\ \A k \in DOMAIN rest :
                         /\ rest[k].do # "children"
                         /\ Saves(rest[k]) => rest[k].to.state # "unclaimed"
                    /\ \A s \in Squares : HasWritten(r, s) => pend[r][s].state # "unclaimed"
<1> DEFINE rest == Tail(todo[r])
<1>0. \A j \in DOMAIN rest : j+1 \in DOMAIN todo[r] /\ rest[j] = todo[r][j+1]
  BY TailElements DEF TypeOK
<1> HIDE DEF rest
<1>1. \A j \in DOMAIN rest :
        /\ rest[j].do # "link" => rest[j].mgr = FALSE
        /\ Saves(rest[j]) => rest[j].to.owner = user[r]
        /\ rest[j].do = "children" => rest[j].to = None
  BY <1>0 DEF UserTx
<1>2. ASSUME NEW j \in DOMAIN rest, Saves(rest[j]), rest[j].to.state # "unclaimed"
      PROVE  /\ \A k \in DOMAIN todo[r] :
                  /\ todo[r][k].do # "children"
                  /\ Saves(todo[r][k]) => todo[r][k].to.state # "unclaimed"
             /\ \A s \in Squares : HasWritten(r, s) => pend[r][s].state # "unclaimed"
  BY <1>0, <1>2 DEF UserTx
<1>3. QED
  BY <1>0, <1>1, <1>2 DEF rest

LEMMA UpdateKeeps ==
  ASSUME SafetyInv, NEW r \in Requests, Update(r)
  PROVE  LockInv' /\ DataInv' /\ UserInv'
<1> DEFINE i == Next1(r)
           rest == Tail(todo[r])
           before == Read(r, i.sq)
           after == Updated(Read(r, i.sq), i.to)
<1>1. TypeOK /\ PhaseInv /\ LockInv /\ DataInv /\ UserInv
  BY DEF SafetyInv
<1>2. /\ i.do = "update" /\ i.sq \in Squares /\ i.to \in Image
      /\ todo[r] # <<>> /\ pc[r] = "tx"
      /\ before \in Row /\ after \in Row
  BY <1>1, HeadType, ReadType, UpdatedType DEF Update, Doing
<1>3. /\ todo'[r] = rest
      /\ pend'[r] = [pend[r] EXCEPT ![i.sq] = after]
      /\ share' = share /\ rows' = rows /\ pc' = pc /\ user' = user
      /\ \A q \in Requests \ {r} : Untouched(q)
  BY <1>1 DEF Update, request, Untouched, TypeOK
<1>4. ~UpdateBlocked(r, i.sq)
  BY DEF Update
<1>5. after = IF i.to.state = "unclaimed" THEN EmptyRow
              ELSE [state |-> i.to.state, claimant |-> i.to.claimant,
                    owner |-> i.to.owner, parent |-> before.parent]
  BY DEF Updated
<1>6. /\ i = todo[r][1] /\ 1 \in DOMAIN todo[r]
      /\ RequestData(r) /\ RequestLocks(r)
  BY <1>1, <1>2, NextStatement, DataInvParts, LockInvParts
<1>7. /\ i.sq \in share[r] /\ ConsistentImage(i.to)
  BY <1>2, <1>6 DEF RequestData, RequestLocks, Saves
<1>8. \A j \in DOMAIN rest :
        /\ j \in Nat /\ j >= 1 /\ j+1 \in DOMAIN todo[r] /\ rest[j] = todo[r][j+1]
        /\ rest[j].do # "update"
        /\ Saves(rest[j]) => ConsistentImage(rest[j].to)
        /\ rest[j].do = "link" =>
             IF j = 1
             THEN /\ Saves(i)
                  /\ i.sq = rest[1].sq
                  /\ i.to.state # "unclaimed"
             ELSE /\ j-1 \in DOMAIN rest
                  /\ Saves(rest[j-1])
                  /\ rest[j-1].sq = rest[j].sq
                  /\ rest[j-1].to.state # "unclaimed"
  BY <1>1, <1>2, NextStatement
<1>9. \A s \in Squares : pend'[r][s] = IF s = i.sq THEN after ELSE pend[r][s]
  BY <1>1, <1>2, <1>3 DEF TypeOK
<1>10. after # None
  BY <1>2, NoneAssumption
<1>11. \A s \in Squares : HasWritten(r, s)' <=> s = i.sq \/ HasWritten(r, s)
  BY <1>9, <1>10 DEF HasWritten
<1>12. ConsistentRow(after) /\ after.state = i.to.state
  BY <1>5, <1>7 DEF ConsistentRow, ConsistentImage, EmptyRow
<1> HIDE DEF i, rest, before, after
<1>13. RequestLocks(r)'
  BY <1>3, <1>6, <1>7, <1>8, <1>11 DEF RequestLocks
<1>14. RequestData(r)'
  <2>1. \A s \in Squares : HasWritten(r, s)' => ConsistentRow(pend'[r][s])
    BY <1>6, <1>9, <1>11, <1>12 DEF RequestData
  <2>2. \A j \in DOMAIN rest : rest[j].do = "link" =>
          IF j = 1
          THEN /\ pend'[r][rest[j].sq] # None
               /\ pend'[r][rest[j].sq].state # "unclaimed"
          ELSE /\ Saves(rest[j-1])
               /\ rest[j-1].sq = rest[j].sq
               /\ rest[j-1].to.state # "unclaimed"
    BY <1>2, <1>8, <1>9, <1>10, <1>12
  <2>3. (\A j \in DOMAIN todo[r] : todo[r][j].do = "link" =>
           IF j = 1
           THEN /\ HasWritten(r, todo[r][j].sq)
                /\ pend[r][todo[r][j].sq].state # "unclaimed"
           ELSE /\ Saves(todo[r][j-1])
                /\ todo[r][j-1].sq = todo[r][j].sq
                /\ todo[r][j-1].to.state # "unclaimed")'
    BY <1>3, <2>2 DEF HasWritten, Saves
  <2>4. (\A j \in DOMAIN todo[r] : Saves(todo[r][j]) => ConsistentImage(todo[r][j].to))'
    BY <1>3, <1>8 DEF Saves, ConsistentImage
  <2>5. QED
    BY <2>1, <2>3, <2>4 DEF RequestData, ConsistentRow
<1>15. ASSUME ~IsManager(r)'
       PROVE  UserTx(r)'
  <2>1. UserTx(r)
    BY <1>1, <1>2, <1>3, <1>15 DEF UserInv, IsManager
  <2>2. Allowed(before, i.to, FALSE) /\ i.to.owner = user[r]
    BY <1>2, <1>6, <2>1 DEF UserTx, Saves, before
  <2>3. Saves(i)
    BY <1>2 DEF Saves
  <2>4. \/ rows[i.sq].state = "unclaimed"
        \/ /\ rows[i.sq].owner = user[r]
           /\ rows[i.sq].state = "claimed"
           /\ after = EmptyRow
    <3>1. CASE ~HasWritten(r, i.sq)
      <4>1. before = rows[i.sq]
        BY <3>1 DEF before, Read, HasWritten
      <4>2. QED
        BY <1>5, <2>2, <4>1 DEF Allowed, InitialClaim, UserUnclaim
    <3>2. CASE HasWritten(r, i.sq) /\ rows[i.sq].state # "unclaimed"
      <4>1. /\ rows[i.sq].owner = user[r]
            /\ rows[i.sq].state = "claimed"
            /\ pend[r][i.sq] = EmptyRow
        BY <1>2, <2>1, <3>2 DEF UserTx
      <4>2. i.to.state = "unclaimed"
        BY <1>2, <1>6, <2>1, <2>3, <3>2, <4>1 DEF UserTx, EmptyRow
      <4>3. QED
        BY <1>5, <4>1, <4>2
    <3>3. QED
      BY <3>1, <3>2
  <2>5. \A s \in Squares : HasWritten(r, s)' =>
          \/ rows[s].state = "unclaimed"
          \/ /\ rows[s].owner = user[r]
             /\ rows[s].state = "claimed"
             /\ pend'[r][s] = EmptyRow
    BY <1>9, <1>11, <2>1, <2>4 DEF UserTx
  <2>7. \A j \in DOMAIN rest :
          /\ rest[j].do # "link" => rest[j].mgr = FALSE
          /\ Saves(rest[j]) => rest[j].to.owner = user[r]
          /\ rest[j].do = "children" => rest[j].to = None
    BY <1>1, <1>2, <2>1, RestOfUserTx DEF rest
  <2>8. ASSUME NEW j \in DOMAIN rest, Saves(rest[j]), rest[j].to.state # "unclaimed"
        PROVE  /\ \A k \in DOMAIN rest :
                    /\ rest[k].do # "children"
                    /\ Saves(rest[k]) => rest[k].to.state # "unclaimed"
               /\ \A s \in Squares : HasWritten(r, s)' => pend'[r][s].state # "unclaimed"
    <3>1. /\ \A k \in DOMAIN todo[r] :
               Saves(todo[r][k]) => todo[r][k].to.state # "unclaimed"
          /\ \A k \in DOMAIN rest :
               /\ rest[k].do # "children"
               /\ Saves(rest[k]) => rest[k].to.state # "unclaimed"
          /\ \A s \in Squares : HasWritten(r, s) => pend[r][s].state # "unclaimed"
      BY <1>1, <1>2, <2>1, <2>8, RestOfUserTx DEF rest
    <3>2. after.state # "unclaimed"
      BY <1>6, <1>12, <2>3, <3>1
    <3>3. QED
      BY <1>9, <1>11, <3>1, <3>2
  <2>9. (\A j \in DOMAIN todo[r] :
           todo[r][j].do = "update" =>
             Allowed(Read(r, todo[r][j].sq), todo[r][j].to, FALSE))'
    BY <1>3, <1>8
  <2>10. QED
    BY <1>3, <2>5, <2>7, <2>8, <2>9 DEF UserTx
<1>16. \A s \in Squares : ConsistentRow(rows'[s])
  BY <1>1, <1>3 DEF DataInv
<1>17. \A s \in Squares : HasWritten(r, s)' =>
         \A q \in Requests \ {r} : s \notin share[q]
  BY <1>1, <1>4, <1>11, LockInvParts DEF UpdateBlocked
<1>18. QED
  BY <1>1, <1>3, <1>13, <1>14, <1>15, <1>16, <1>17, OneMoves

LEMMA SetParentSquareKeeps ==
  ASSUME SafetyInv, NEW r \in Requests, SetParentSquare(r)
  PROVE  LockInv' /\ DataInv' /\ UserInv'
<1> DEFINE i == Next1(r)
           rest == Tail(todo[r])
           after == [Read(r, i.sq) EXCEPT !.parent = i.to]
<1>1. TypeOK /\ PhaseInv /\ LockInv /\ DataInv /\ UserInv
  BY DEF SafetyInv
<1>2. /\ i.do = "link" /\ i.sq \in Squares /\ i.to \in Squares
      /\ todo[r] # <<>> /\ pc[r] = "tx"
      /\ Read(r, i.sq) \in Row
  BY <1>1, HeadType, ReadType DEF SetParentSquare, Doing
<1>3. /\ todo'[r] = rest
      /\ pend'[r] = [pend[r] EXCEPT ![i.sq] = after]
      /\ share' = share /\ rows' = rows /\ pc' = pc /\ user' = user
      /\ \A q \in Requests \ {r} : Untouched(q)
  BY <1>1 DEF SetParentSquare, request, Untouched, TypeOK
<1>4. /\ i = todo[r][1] /\ 1 \in DOMAIN todo[r]
      /\ RequestData(r) /\ RequestLocks(r)
  BY <1>1, <1>2, NextStatement, DataInvParts, LockInvParts
<1>5. HasWritten(r, i.sq) /\ pend[r][i.sq].state # "unclaimed"
  BY <1>2, <1>4 DEF RequestData
<1>6. /\ Read(r, i.sq) = pend[r][i.sq] /\ ConsistentRow(pend[r][i.sq])
      /\ after \in Row
  BY <1>2, <1>4, <1>5 DEF Read, HasWritten, RequestData, Row
<1>7. /\ ConsistentRow(after) /\ after.state # "unclaimed" /\ after # None
  BY <1>2, <1>5, <1>6, NoneAssumption DEF ConsistentRow, Row
<1>8. \A j \in DOMAIN rest :
        /\ j \in Nat /\ j >= 1 /\ rest[j].do # "update"
        /\ Saves(rest[j]) => ConsistentImage(rest[j].to)
        /\ rest[j].do = "link" =>
             /\ j # 1
             /\ j-1 \in DOMAIN rest
             /\ Saves(rest[j-1])
             /\ rest[j-1].sq = rest[j].sq
             /\ rest[j-1].to.state # "unclaimed"
  <2>1. ~Saves(todo[r][1])
    BY <1>2, <1>4 DEF Saves
  <2>2. QED
    BY <1>1, <1>2, <2>1, NextStatement
<1>9. \A s \in Squares : pend'[r][s] = IF s = i.sq THEN after ELSE pend[r][s]
  BY <1>1, <1>2, <1>3 DEF TypeOK
<1>10. \A s \in Squares : HasWritten(r, s)' <=> HasWritten(r, s)
  BY <1>5, <1>7, <1>9 DEF HasWritten
<1> HIDE DEF i, rest, after
<1>11. RequestLocks(r)'
  BY <1>3, <1>4, <1>8, <1>10 DEF RequestLocks
<1>12. RequestData(r)'
  <2>1. \A s \in Squares : HasWritten(r, s)' => ConsistentRow(pend'[r][s])
    BY <1>4, <1>7, <1>9, <1>10 DEF RequestData
  <2>2. (\A j \in DOMAIN todo[r] : todo[r][j].do = "link" =>
           /\ j # 1
           /\ Saves(todo[r][j-1])
           /\ todo[r][j-1].sq = todo[r][j].sq
           /\ todo[r][j-1].to.state # "unclaimed")'
    BY <1>3, <1>8 DEF Saves
  <2>3. (\A j \in DOMAIN todo[r] : Saves(todo[r][j]) => ConsistentImage(todo[r][j].to))'
    BY <1>3, <1>8 DEF Saves, ConsistentImage
  <2>4. QED
    BY <2>1, <2>2, <2>3 DEF RequestData, ConsistentRow
<1>13. ASSUME ~IsManager(r)'
       PROVE  UserTx(r)'
  <2>1. UserTx(r)
    BY <1>1, <1>2, <1>3, <1>13 DEF UserInv, IsManager
  <2>2. rows[i.sq].state = "unclaimed"
    BY <1>2, <1>5, <2>1 DEF UserTx, EmptyRow
  <2>3. \A s \in Squares : HasWritten(r, s)' =>
          \/ rows[s].state = "unclaimed"
          \/ /\ rows[s].owner = user[r]
             /\ rows[s].state = "claimed"
             /\ pend'[r][s] = EmptyRow
    BY <1>9, <1>10, <2>1, <2>2 DEF UserTx
  <2>4. \A j \in DOMAIN rest :
          /\ rest[j].do # "link" => rest[j].mgr = FALSE
          /\ Saves(rest[j]) => rest[j].to.owner = user[r]
          /\ rest[j].do = "children" => rest[j].to = None
    BY <1>1, <1>2, <2>1, RestOfUserTx DEF rest
  <2>5. ASSUME NEW j \in DOMAIN rest, Saves(rest[j]), rest[j].to.state # "unclaimed"
        PROVE  /\ \A k \in DOMAIN rest :
                    /\ rest[k].do # "children"
                    /\ Saves(rest[k]) => rest[k].to.state # "unclaimed"
               /\ \A s \in Squares : HasWritten(r, s)' => pend'[r][s].state # "unclaimed"
    <3>1. /\ \A k \in DOMAIN rest :
               /\ rest[k].do # "children"
               /\ Saves(rest[k]) => rest[k].to.state # "unclaimed"
          /\ \A s \in Squares : HasWritten(r, s) => pend[r][s].state # "unclaimed"
      BY <1>1, <1>2, <2>1, <2>5, RestOfUserTx DEF rest
    <3>2. QED
      BY <1>7, <1>9, <1>10, <3>1
  <2>6. (\A j \in DOMAIN todo[r] :
           todo[r][j].do = "update" =>
             Allowed(Read(r, todo[r][j].sq), todo[r][j].to, FALSE))'
    BY <1>3, <1>8
  <2>7. QED
    BY <1>3, <2>3, <2>4, <2>5, <2>6 DEF UserTx
<1>14. \A s \in Squares : ConsistentRow(rows'[s])
  BY <1>1, <1>3 DEF DataInv
<1>15. \A s \in Squares : HasWritten(r, s)' =>
         \A q \in Requests \ {r} : s \notin share[q]
  BY <1>1, <1>10, LockInvParts
<1>16. QED
  BY <1>1, <1>3, <1>11, <1>12, <1>13, <1>14, <1>15, OneMoves

\* and by ChildSquares, which only appends saves to the program.

LEMMA ChildSaves ==
  ASSUME TypeOK, DataInv, NEW r \in Requests, user[r] \in Users, NEW i \in Statement,
         i.do = "children", NEW c \in Squares
  PROVE  LET save == ChildSave(r, i, c)
         IN  /\ save \in Statement
             /\ save.do = "save"
             /\ ConsistentImage(save.to)
             /\ i.to = None /\ i.mgr = FALSE =>
                  /\ save.mgr = FALSE
                  /\ save.to.owner = user[r]
                  /\ save.to.state = "unclaimed"
<1>1. Read(r, c) \in Row /\ ConsistentRow(Read(r, c))
  BY ReadType DEF DataInv, Read, HasWritten
<1>2. i.to \in Names \cup {None} /\ i.mgr \in BOOLEAN
  BY DEF Statement
<1>3. CASE i.to # None
  BY <1>1, <1>2, <1>3, ChildSaveType
     DEF ChildSave, Save, Loaded, ConsistentImage, ConsistentRow, Row
<1>4. CASE i.to = None
  BY <1>2, <1>4, ChildSaveType DEF ChildSave, Save, Loaded, Unclaimed, ConsistentImage
<1>5. QED
  BY <1>3, <1>4

LEMMA ChildSquaresKeeps ==
  ASSUME SafetyInv, NEW r \in Requests, ChildSquares(r)
  PROVE  LockInv' /\ DataInv' /\ UserInv'
<1> DEFINE i == Next1(r)
           rest == Tail(todo[r])
           kids == {c \in Squares : Read(r, c).parent = i.sq}
<1>1. TypeOK /\ PhaseInv /\ LockInv /\ DataInv /\ UserInv
  BY DEF SafetyInv
<1>2. /\ i \in Statement /\ i.do = "children" /\ i.mgr \in BOOLEAN
      /\ rest \in Seq(Statement)
      /\ todo[r] # <<>> /\ pc[r] = "tx" /\ user[r] \in Users
      /\ i = todo[r][1] /\ 1 \in DOMAIN todo[r]
  BY <1>1, HeadType, NextStatement DEF ChildSquares, Doing, PhaseInv
<1>3. Cardinality(kids) \in Nat
  BY SquaresAssumption, FS_Subset, FS_CardinalityType
<1>4. PICK order \in [1..Cardinality(kids) -> kids] :
        todo' = [todo EXCEPT ![r] =
                   rest \o [j \in DOMAIN order |-> ChildSave(r, i, order[j])]]
  BY DEF ChildSquares
<1> DEFINE saves == [j \in DOMAIN order |-> ChildSave(r, i, order[j])]
<1>5. \A j \in DOMAIN saves :
        /\ saves[j] \in Statement
        /\ saves[j].do = "save"
        /\ ConsistentImage(saves[j].to)
        /\ i.to = None /\ i.mgr = FALSE =>
             /\ saves[j].mgr = FALSE
             /\ saves[j].to.owner = user[r]
             /\ saves[j].to.state = "unclaimed"
  BY <1>1, <1>2, <1>4, ChildSaves
<1>6. saves \in Seq(Statement)
  <2>1. saves \in [1..Cardinality(kids) -> Statement]
    BY <1>4, <1>5
  <2>2. QED
    BY <1>3, <2>1, FunctionIsSeq
<1>7. /\ todo'[r] = rest \o saves
      /\ pend' = pend /\ share' = share /\ rows' = rows /\ pc' = pc /\ user' = user
      /\ \A q \in Requests \ {r} : Untouched(q)
  BY <1>1, <1>4 DEF ChildSquares, request, Untouched, TypeOK
<1>8. RequestData(r) /\ RequestLocks(r)
  BY <1>1, DataInvParts, LockInvParts
<1>9. \A j \in DOMAIN rest :
        /\ j \in Nat /\ j >= 1 /\ rest[j].do # "update"
        /\ Saves(rest[j]) => ConsistentImage(rest[j].to)
        /\ rest[j].do = "link" =>
             /\ j # 1
             /\ j-1 \in DOMAIN rest
             /\ Saves(rest[j-1])
             /\ rest[j-1].sq = rest[j].sq
             /\ rest[j-1].to.state # "unclaimed"
  <2>1. ~Saves(todo[r][1])
    BY <1>2 DEF Saves
  <2>2. QED
    BY <1>1, <1>2, <2>1, NextStatement
<1> HIDE DEF i, rest, saves
<1>10. /\ \A j \in DOMAIN todo'[r] :
            \/ j \in DOMAIN rest /\ todo'[r][j] = rest[j]
            \/ \E k \in DOMAIN saves : todo'[r][j] = saves[k]
       /\ \A j \in DOMAIN rest : todo'[r][j] = rest[j]
  <2>1. DOMAIN rest = 1 .. Len(rest) /\ Len(rest) \in Nat /\ Len(saves) \in Nat
    BY <1>2, <1>6, LenProperties
  <2>2. \A j \in DOMAIN rest : (rest \o saves)[j] = rest[j]
    BY <1>2, <1>6, <2>1, ConcatProperties
  <2>3. QED
    BY <1>2, <1>6, <1>7, <2>2, ConcatElements
<1>11. \A s \in Squares : HasWritten(r, s)' <=> HasWritten(r, s)
  BY <1>7 DEF HasWritten
<1>12. \A j \in DOMAIN todo'[r] :
         /\ todo'[r][j].do # "update"
         /\ Saves(todo'[r][j]) => ConsistentImage(todo'[r][j].to)
         /\ todo'[r][j].do = "link" =>
              /\ j # 1
              /\ Saves(todo'[r][j-1])
              /\ todo'[r][j-1].sq = todo'[r][j].sq
              /\ todo'[r][j-1].to.state # "unclaimed"
  BY <1>5, <1>9, <1>10 DEF Saves
<1>13. RequestLocks(r)'
  BY <1>7, <1>8, <1>11, <1>12 DEF RequestLocks
<1>14. RequestData(r)'
  <2>1. \A s \in Squares : HasWritten(r, s)' => ConsistentRow(pend'[r][s])
    BY <1>7, <1>8, <1>11 DEF RequestData
  <2>2. QED
    BY <1>12, <2>1 DEF RequestData, Saves, ConsistentRow, ConsistentImage
<1>15. ASSUME ~IsManager(r)'
       PROVE  UserTx(r)'
  <2>1. UserTx(r)
    BY <1>1, <1>2, <1>7, <1>15 DEF UserInv, IsManager
  <2>2. i.mgr = FALSE /\ i.to = None
    BY <1>2, <2>1 DEF UserTx
  <2>3. \A j \in DOMAIN rest :
          /\ rest[j].do # "link" => rest[j].mgr = FALSE
          /\ Saves(rest[j]) => rest[j].to.owner = user[r]
          /\ rest[j].do = "children" => rest[j].to = None
          /\ Saves(rest[j]) => rest[j].to.state = "unclaimed"
    BY <1>1, <1>2, <2>1, RestOfUserTx DEF rest
  <2>4. \A j \in DOMAIN todo'[r] :
          /\ todo'[r][j].do # "link" => todo'[r][j].mgr = FALSE
          /\ Saves(todo'[r][j]) => todo'[r][j].to.owner = user[r]
          /\ todo'[r][j].do = "children" => todo'[r][j].to = None
          /\ Saves(todo'[r][j]) => todo'[r][j].to.state = "unclaimed"
    BY <1>5, <1>10, <2>2, <2>3 DEF Saves
  <2>5. (\A j \in DOMAIN todo[r] :
           todo[r][j].do = "update" =>
             Allowed(Read(r, todo[r][j].sq), todo[r][j].to, FALSE))'
    BY <1>12
  <2>6. (\A s \in Squares : HasWritten(r, s) =>
           \/ rows[s].state = "unclaimed"
           \/ /\ rows[s].owner = user[r]
              /\ rows[s].state = "claimed"
              /\ pend[r][s] = EmptyRow)'
    BY <1>7, <1>11, <2>1 DEF UserTx
  <2>7. QED
    BY <1>7, <2>4, <2>5, <2>6 DEF UserTx, Saves
<1>16. \A s \in Squares : ConsistentRow(rows'[s])
  BY <1>1, <1>7 DEF DataInv
<1>17. \A s \in Squares : HasWritten(r, s)' =>
         \A q \in Requests \ {r} : s \notin share[q]
  BY <1>1, <1>11, LockInvParts
<1>18. QED
  BY <1>1, <1>7, <1>13, <1>14, <1>15, <1>16, <1>17, OneMoves

-----------------------------------------------------------------------------
\* The invariant and what follows from it.

LEMMA SafetyInit == Init => SafetyInv
<1>1. Init => TypeOK /\ PhaseInv
  BY InitType
<1>2. Init => LockInv
  BY DEF Init, LockInv, WritersAreAlone, UpdateHoldsLock, HasWritten, NothingWritten
<1>3. Init => DataInv
  BY DEF Init, DataInv, HasWritten, NothingWritten, ConsistentRow, EmptyRow
<1>4. Init => UserInv
  BY DEF Init, UserInv
<1>5. QED
  BY <1>1, <1>2, <1>3, <1>4 DEF SafetyInv

LEMMA SafetyNext == SafetyInv /\ [Next]_vars => SafetyInv'
<1> SUFFICES ASSUME SafetyInv, [Next]_vars
             PROVE  SafetyInv'
  OBVIOUS
<1>1. TypeOK /\ PhaseInv /\ LockInv /\ DataInv /\ UserInv
  BY DEF SafetyInv
<1>2. TypeOK' /\ PhaseInv'
  BY <1>1, HandlerType, RunType, OtherType DEF Next
<1>3. ASSUME NEW r \in Requests, NEW u \in Users, Begin(r, u)
      PROVE  LockInv' /\ DataInv' /\ UserInv'
  <2>1. /\ UNCHANGED <<rows, todo, pend, share>>
        /\ pc[r] # "tx" /\ pc'[r] # "tx"
        /\ \A q \in Requests \ {r} : pc'[q] = pc[q] /\ user'[q] = user[q]
    BY <1>1, <1>3 DEF Begin, tx, TypeOK
  <2>2. \A q \in Requests \ {r} : Untouched(q)
    BY <2>1 DEF Untouched
  <2>3. RequestData(r) /\ RequestLocks(r)
    BY <1>1, DataInvParts, LockInvParts
  <2>4. RequestData(r)' /\ RequestLocks(r)'
    BY <2>1, <2>3 DEF RequestData, RequestLocks, HasWritten, Saves, ConsistentRow,
                      ConsistentImage
  <2>5. \A s \in Squares : HasWritten(r, s)' <=> HasWritten(r, s)
    BY <2>1 DEF HasWritten
  <2>6. \A s \in Squares : ConsistentRow(rows'[s])
    BY <1>1, <2>1 DEF DataInv
  <2>7. \A s \in Squares : HasWritten(r, s)' =>
          \A q \in Requests \ {r} : s \notin share[q]
    BY <1>1, <2>5, LockInvParts
  <2>8. QED
    BY <1>1, <2>1, <2>2, <2>4, <2>6, <2>7, OneMoves
<1>4. ASSUME (\E past \in BOOLEAN : SetLocks(past)) \/ UNCHANGED vars
      PROVE  LockInv' /\ DataInv' /\ UserInv'
  <2>1. UNCHANGED <<rows, pc, user, todo, pend, share>>
    BY <1>4 DEF SetLocks, vars, request, tx
  <2>2. \A q \in Requests : Untouched(q)
    BY <2>1 DEF Untouched
  <2>3. LockInv'
    BY <1>1, <2>1 DEF LockInv, WritersAreAlone, UpdateHoldsLock, HasWritten
  <2>4. DataInv'
    BY <1>1, <2>1 DEF DataInv, HasWritten, Saves, ConsistentRow, ConsistentImage
  <2>5. UserInv'
    <3>1. ASSUME NEW q \in Requests, pc'[q] = "tx", ~IsManager(q)'
          PROVE  UserTx(q)'
      <4>1. UserTx(q) /\ Untouched(q)
        BY <1>1, <2>1, <2>2, <3>1 DEF UserInv, IsManager
      <4>2. QED
        BY <1>1, <4>1, UntouchedUserTx
    <3>2. QED
      BY <3>1 DEF UserInv
  <2>6. QED
    BY <2>3, <2>4, <2>5
<1>5. ASSUME NEW r \in Requests, Handle(r) \/ Run(r) \/ Cancel(r) \/ DeadlockDetected(r)
      PROVE  LockInv' /\ DataInv' /\ UserInv'
  <2>1. CASE Handle(r)
    BY <2>1, HandlerKeeps
  <2>2. CASE AlreadyClaimed(r) \/ Cancel(r) \/ DeadlockDetected(r)
    BY <2>2, EndKeeps
  <2>3. CASE Commit(r)
    BY <2>3, CommitKeeps
  <2>4. CASE SelectForShare(r)
    BY <2>4, SelectKeeps
  <2>5. CASE Update(r)
    BY <2>5, UpdateKeeps
  <2>6. CASE SetParentSquare(r)
    BY <2>6, SetParentSquareKeeps
  <2>7. CASE ChildSquares(r)
    BY <2>7, ChildSquaresKeeps
  <2>8. QED
    BY <1>5, <2>1, <2>2, <2>3, <2>4, <2>5, <2>6, <2>7 DEF Run
<1>6. \/ \E r \in Requests, u \in Users : Begin(r, u)
      \/ \E r \in Requests : Handle(r) \/ Run(r) \/ Cancel(r) \/ DeadlockDetected(r)
      \/ (\E past \in BOOLEAN : SetLocks(past)) \/ UNCHANGED vars
  BY DEF Next
<1>7. LockInv' /\ DataInv' /\ UserInv'
  BY <1>3, <1>4, <1>5, <1>6
<1>8. QED
  BY <1>2, <1>7 DEF SafetyInv

\* The types, the row locks, the consistency of every row and image, and what
\* a user's transaction may do, in one inductive invariant.
THEOREM Safety == Spec => []SafetyInv
<1>1. QED
  BY SafetyInit, SafetyNext, PTL DEF Spec

\* No interleaving of claims, unclaims, renames and manager's saves, whatever
\* stale copies they hold, leaves a square between free and taken.
THEOREM RowsStayConsistent == Spec => []RowsConsistent
<1>1. SafetyInv => RowsConsistent
  BY DEF SafetyInv, DataInv, ConsistentRow, RowsConsistent
<1>2. QED
  BY <1>1, Safety, PTL

\* The order of statements in the handlers and in update_pool_square makes a
\* writer of a row the only holder of a lock on it, to the end of its transaction.
THEOREM LocksExclude == Spec => []WritersAreAlone
<1>1. SafetyInv => WritersAreAlone
  BY DEF SafetyInv, LockInv
<1>2. QED
  BY <1>1, Safety, PTL

\* Only a commit changes a row.
LEMMA RowsChangeAtCommit ==
  ASSUME SafetyInv, [Next]_vars, rows' # rows
  PROVE  \E r \in Requests : Commit(r)
<1>1. TypeOK /\ PhaseInv /\ DataInv
  BY DEF SafetyInv
<1>2. \A r \in Requests : Handle(r) => UNCHANGED rows
  BY <1>1, HandlerProgram
<1>3. QED
  BY <1>2 DEF Next, Run, Begin, SelectForShare, AlreadyClaimed, Update, SetParentSquare,
              ChildSquares, Cancel, DeadlockDetected, Rollback, SetLocks, vars

\* Whoever claims, no taken square changes hands: for any number of users,
\* squares and overlapping requests, only a manager or the owner frees it.
THEOREM OwnersKeepTheirSquares == Spec => OnlyOwnerOrManager
<1>1. ASSUME SafetyInv, [Next]_vars, rows' # rows,
             NEW s \in Squares, rows[s].state # "unclaimed", rows'[s] # rows[s]
      PROVE  \E r \in Requests :
               /\ pc[r] = "tx" /\ pc'[r] # "tx"
               /\ \/ user[r] \in Managers
                  \/ /\ rows[s].owner = user[r]
                     /\ rows[s].state = "claimed"
                     /\ rows'[s] = EmptyRow
  <2>1. PICK r \in Requests : Commit(r)
    BY <1>1, RowsChangeAtCommit
  <2>2. Answered(r) # "tx"
    BY DEF Answered
  <2>3. pc[r] = "tx" /\ pc'[r] # "tx" /\ rows'[s] = Read(r, s)
    BY <1>1, <2>1, <2>2 DEF Commit, Finish, End, SafetyInv, TypeOK
  <2>4. HasWritten(r, s) /\ rows'[s] = pend[r][s]
    BY <1>1, <2>3 DEF Read, HasWritten
  <2>5. CASE ~IsManager(r)
    <3>1. UserTx(r)
      BY <1>1, <2>3, <2>5 DEF SafetyInv, UserInv
    <3>2. /\ rows[s].owner = user[r]
          /\ rows[s].state = "claimed"
          /\ pend[r][s] = EmptyRow
      BY <1>1, <2>4, <3>1 DEF UserTx
    <3>3. QED
      BY <2>3, <2>4, <3>2
  <2>6. QED
    BY <2>3, <2>5 DEF IsManager
<1>2. SafetyInv /\ [Next]_vars =>
        [\A s \in Squares :
           rows[s].state # "unclaimed" /\ rows'[s] # rows[s] =>
             \E r \in Requests :
               /\ pc[r] = "tx" /\ pc'[r] # "tx"
               /\ \/ user[r] \in Managers
                  \/ /\ rows[s].owner = user[r]
                     /\ rows[s].state = "claimed"
                     /\ rows'[s] = EmptyRow]_rows
  BY <1>1
<1>3. QED
  BY <1>2, Safety, PTL DEF Spec, OnlyOwnerOrManager
=============================================================================
