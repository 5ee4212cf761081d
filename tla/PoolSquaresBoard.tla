--------------------------- MODULE PoolSquaresBoard ---------------------------
(***************************************************************************)
(* PoolSquares implements SquareBoard: every commit is one step of the     *)
(* board, and no other step changes it.  What a commit will do has to be   *)
(* known from the statements before it, so the invariant follows a claim   *)
(* through its stages and says of every other transaction what it may      *)
(* have written.                                                           *)
(*                                                                         *)
(* Then, for requests that do not overlap, FamiliesIntact: the invariant   *)
(* says of every transaction that is not a claim which rows it will leave, *)
(* and that their families are intact.                                     *)
(***************************************************************************)
EXTENDS PoolSquaresSafety

-----------------------------------------------------------------------------
\* The stages of a claim of square s, with second or, where that is None, alone.

Locking(i) == [i EXCEPT !.do = "update"]

\* What a claim does after its first square, and the whole of it from its first
\* statement i on.
Further(u, n, s, second) ==
  IF second = None THEN <<>>
  ELSE <<Save(second, Claimed(u, n), FALSE), Link(second, s)>>

ClaimFrom(i, u, n, s, second) == <<i>> \o Further(u, n, s, second)

\* What is written of s and of second, None where nothing is.
Written(first, s, other, second) ==
  [q \in Squares |-> IF q = s THEN first ELSE IF q = second THEN other ELSE None]

\* r holds a lock on s, and s is free.
HoldsFree(r, s) == s \in share[r] /\ rows[s] = EmptyRow

Asked(r, n, s, second) ==
  /\ pend[r] = NothingWritten
  /\ todo[r] = ClaimFrom(Save(s, Claimed(user[r], n), FALSE), user[r], n, s, second)

FirstChecked(r, n, s, second) ==
  /\ pend[r] = NothingWritten
  /\ HoldsFree(r, s)
  /\ todo[r] = ClaimFrom(Locking(Save(s, Claimed(user[r], n), FALSE)), user[r], n, s, second)

FirstTaken(r, n, s, second) ==
  /\ pend[r] = Written(Board!Claim(user[r], n, None), s, None, None)
  /\ HoldsFree(r, s)
  /\ todo[r] = Further(user[r], n, s, second)

SecondChecked(r, n, s, second) ==
  /\ second \in Squares \ {s}
  /\ pend[r] = Written(Board!Claim(user[r], n, None), s, None, None)
  /\ HoldsFree(r, s) /\ HoldsFree(r, second)
  /\ todo[r] = <<Locking(Save(second, Claimed(user[r], n), FALSE)), Link(second, s)>>

BothTaken(r, n, s, second) ==
  /\ second \in Squares \ {s}
  /\ pend[r] = Written(Board!Claim(user[r], n, None), s, Board!Claim(user[r], n, None), second)
  /\ HoldsFree(r, s) /\ HoldsFree(r, second)
  /\ todo[r] = <<Link(second, s)>>

Linked(r, n, s, second) ==
  /\ second \in Squares \ {s}
  /\ pend[r] = Written(Board!Claim(user[r], n, None), s, Board!Claim(user[r], n, s), second)
  /\ HoldsFree(r, s) /\ HoldsFree(r, second)
  /\ todo[r] = <<>>

Claiming(r, n, s, second) ==
  \/ Asked(r, n, s, second) \/ FirstChecked(r, n, s, second) \/ FirstTaken(r, n, s, second)
  \/ SecondChecked(r, n, s, second) \/ BothTaken(r, n, s, second) \/ Linked(r, n, s, second)

ClaimTx(r) ==
  \E n \in Names, s \in Squares, second \in Squares \cup {None} :
    (second # None => Roll100) /\ Claiming(r, n, s, second)

\* A transaction that gives squares up, and only that.
GivesUp(p) ==
  \A j \in DOMAIN p :
    /\ p[j].do # "link"
    /\ Saves(p[j]) => p[j].to.state = "unclaimed"
    /\ p[j].do = "children" => p[j].to = None /\ p[j].mgr = FALSE

UnclaimTx(r) ==
  /\ GivesUp(todo[r])
  /\ \A s \in Squares : HasWritten(r, s) => pend[r][s] = EmptyRow

\* A manager's transaction links no square to another.
LinksNone(p) == \A j \in DOMAIN p : p[j].do # "link"

ManagerTx(r) ==
  /\ IsManager(r)
  /\ LinksNone(todo[r])
  /\ \A s \in Squares : HasWritten(r, s) => pend[r][s].parent \in {rows[s].parent, None}

BoardInv ==
  \A r \in Requests : pc[r] = "tx" => ClaimTx(r) \/ UnclaimTx(r) \/ ManagerTx(r)

-----------------------------------------------------------------------------
\* Short programs.

LEMMA PairsAndTriples ==
  ASSUME NEW a, NEW b, NEW c
  PROVE  <<a>> \o <<b>> = <<a, b>> /\ <<a>> \o <<b, c>> = <<a, b, c>>
<1>1. <<a>> \o <<b>> = <<a, b>>
  <2>. DEFINE p == <<a>> \o <<b>>
  <2>1. p \in Seq({a, b}) /\ <<a, b>> \in Seq({a, b})
    OBVIOUS
  <2>2. Len(p) = 2 /\ \A j \in 1..2 : p[j] = <<a, b>>[j]
    BY OneThenOne
  <2>. HIDE DEF p
  <2>. QED
    BY <2>1, <2>2, SeqEqual DEF p
<1>2. <<a>> \o <<b, c>> = <<a, b, c>>
  <2>. DEFINE p == <<a>> \o <<b, c>>
  <2>1. p \in Seq({a, b, c}) /\ <<a, b, c>> \in Seq({a, b, c})
    OBVIOUS
  <2>2. Len(p) = 3 /\ \A j \in 1..3 : p[j] = <<a, b, c>>[j]
    BY OneThenTwo
  <2>. HIDE DEF p
  <2>. QED
    BY <2>1, <2>2, SeqEqual DEF p
<1>. QED
  BY <1>1, <1>2

\* The first statement of a claim, and the others.
LEMMA ClaimFromParts ==
  \A i, u, n, s, second :
    /\ Head(ClaimFrom(i, u, n, s, second)) = i
    /\ Tail(ClaimFrom(i, u, n, s, second)) = Further(u, n, s, second)
<1>. SUFFICES ASSUME NEW i, NEW u, NEW n, NEW s, NEW second
              PROVE  /\ Head(ClaimFrom(i, u, n, s, second)) = i
                     /\ Tail(ClaimFrom(i, u, n, s, second)) = Further(u, n, s, second)
  OBVIOUS
<1>1. \A a : Tail(<<a>>) = <<>> /\ Head(<<a>>) = a /\ <<a>> \o <<>> = <<a>>
  OBVIOUS
<1>2. \A a, b, c : Tail(<<a, b, c>>) = <<b, c>> /\ Head(<<a, b, c>>) = a
  OBVIOUS
<1>3. CASE second = None
  BY <1>1, <1>3 DEF ClaimFrom, Further
<1>4. CASE second # None
  <2>. DEFINE b == Save(second, Claimed(u, n), FALSE)
              c == Link(second, s)
  <2>1. Further(u, n, s, second) = <<b, c>>
    BY <1>4 DEF Further
  <2>2. ClaimFrom(i, u, n, s, second) = <<i>> \o <<b, c>>
    BY <2>1 DEF ClaimFrom
  <2>. HIDE DEF b, c
  <2>3. <<i>> \o <<b, c>> = <<i, b, c>>
    BY PairsAndTriples
  <2>. QED
    BY <1>2, <2>1, <2>2, <2>3
<1>. QED
  BY <1>3, <1>4

\* What a handler starts is a claim, an unclaim or a manager's program.
LEMMA Plans ==
  ASSUME TypeOK, PhaseInv, NEW r \in Requests, Handle(r), pc'[r] = "tx"
  PROVE  /\ user' = user
         /\ \/ \E n \in Names, s \in Squares, second \in Squares \cup {None} :
                 /\ second # None => Roll100
                 /\ todo'[r] = ClaimFrom(Save(s, Claimed(user[r], n), FALSE), user[r], n, s, second)
            \/ GivesUp(todo'[r])
            \/ IsManager(r) /\ LinksNone(todo'[r])
<1>1. ~Reject(r) /\ ~EndBulk(r) /\ ~(\E job : BeginBulk(r, job))
  BY DEF Reject, EndBulk, BeginBulk, End, Answered, TypeOK
<1>2. ASSUME NEW p, BeginTx(r, p) PROVE todo'[r] = p /\ user' = user
  BY <1>2 DEF BeginTx, TypeOK
<1>3. ASSUME NEW a, a.do # "link" PROVE LinksNone(<<a>>)
  BY <1>3 DEF LinksNone
<1>4. ASSUME NEW a, NEW b, a.do # "link", b.do # "link"
      PROVE  LinksNone(<<a, b>>) /\ LinksNone(<<a>> \o <<b>>)
  BY <1>4, OneThenOne DEF LinksNone
<1>5. \A a : <<a>> \o <<>> = <<a>>
  OBVIOUS
<1>6. ASSUME NEW s \in Squares, NEW n \in Names, Rename(r, s, n)
      PROVE  IsManager(r) /\ LinksNone(todo'[r]) /\ user' = user
  BY <1>2, <1>4, <1>6 DEF Rename, Save, Children
<1>7. ASSUME NEW s \in Squares, NEW st \in Payments \cup {None}, Manage(r, s, st)
      PROVE  IsManager(r) /\ LinksNone(todo'[r]) /\ user' = user
  <2>. DEFINE new == IF st = None THEN rows[s].state ELSE st
              a == Save(s, [Loaded(rows[s]) EXCEPT !.state = new], TRUE)
              b == Children(s, None, TRUE)
  <2>1. BeginTx(r, <<a>> \o IF new = "unclaimed" THEN <<b>> ELSE <<>>) /\ IsManager(r)
    BY <1>7 DEF Manage
  <2>2. a.do # "link" /\ b.do # "link"
    BY DEF Save, Children
  <2>. HIDE DEF new, a, b
  <2>3. todo'[r] \in {<<a>> \o <<b>>, <<a>>} /\ user' = user
    BY <1>2, <1>5, <2>1
  <2>. QED
    BY <1>3, <1>4, <2>1, <2>2, <2>3
<1>8. CASE BulkSquare(r)
  <2>. DEFINE s == Head(bulk[r].left)
              a == Save(s, Claimed(user[r], bulk[r].name), TRUE)
              b == Save(s, [Loaded(rows[s]) EXCEPT !.state = "unclaimed"], TRUE)
              c == Children(s, None, TRUE)
              d == Save(s, [Loaded(rows[s]) EXCEPT !.state = bulk[r].state], TRUE)
  <2>1. IsManager(r) /\ BeginTx(r, BulkStatements(bulk[r], s, user[r]))
    <3>1. IsManager(r)
      BY <1>8 DEF BulkSquare, PhaseInv
    <3>2. pc' # pc
      BY <1>8 DEF BulkSquare
    <3>. QED
      BY <1>8, <3>1, <3>2 DEF BulkSquare
  <2>2. a.do # "link" /\ b.do # "link" /\ c.do # "link" /\ d.do # "link"
    BY DEF Save, Children
  <2>3. bulk[r].act \in {"claim", "unclaim", "set_state"}
    BY <1>8 DEF BulkSquare, TypeOK, PhaseInv, BulkJob, BulkJobsOver
  <2>4. BulkStatements(bulk[r], s, user[r]) \in {<<a>>, <<b>> \o <<c>>, <<b>> \o <<>>, <<d>>}
    BY <2>3 DEF BulkStatements
  <2>. HIDE DEF s, a, b, c, d
  <2>5. LinksNone(BulkStatements(bulk[r], s, user[r]))
    BY <1>3, <1>4, <1>5, <2>2, <2>4
  <2>. QED
    BY <1>2, <2>1, <2>5
<1>9. ASSUME NEW s \in Squares, NEW n \in Names, NEW second \in Squares \cup {None},
             Claim(r, s, n, second)
      PROVE  /\ second # None => Roll100
             /\ todo'[r] = ClaimFrom(Save(s, Claimed(user[r], n), FALSE), user[r], n, s, second)
             /\ user' = user
  BY <1>2, <1>9 DEF Claim, ClaimFrom, Further
<1>10. ASSUME NEW s \in Squares, Unclaim(r, s)
       PROVE  GivesUp(todo'[r]) /\ user' = user
  <2>. DEFINE a == Children(s, None, FALSE)
              b == Save(s, Unclaimed(user[r]), FALSE)
              c == Save(rows[s].parent, Unclaimed(user[r]), FALSE)
  <2>1. BeginTx(r, <<a, b>> \o IF rows[s].parent = None THEN <<>> ELSE <<c>>)
    BY <1>10 DEF Unclaim
  <2>2. /\ a.do = "children" /\ a.to = None /\ a.mgr = FALSE
        /\ b.do = "save" /\ b.to.state = "unclaimed"
        /\ c.do = "save" /\ c.to.state = "unclaimed"
    BY DEF Save, Children, Unclaimed
  <2>. HIDE DEF a, b, c
  <2>3. <<a, b>> \o <<>> = <<a, b>>
    OBVIOUS
  <2>4. GivesUp(<<a, b>>)
    BY <2>2 DEF GivesUp, Saves
  <2>5. GivesUp(<<a, b>> \o <<c>>)
    BY <2>2, TwoThenOne DEF GivesUp, Saves
  <2>6. GivesUp(<<a, b>> \o IF rows[s].parent = None THEN <<>> ELSE <<c>>)
    BY <2>3, <2>4, <2>5
  <2>. QED
    BY <1>2, <2>1, <2>6
<1>. QED
  BY <1>1, <1>6, <1>7, <1>8, <1>9, <1>10 DEF Handle
-----------------------------------------------------------------------------
\* A claim from stage to stage.

\* A user's save of a claim is let through by a free row only.
LEMMA OnlyFreeIsClaimed ==
  \A row, u, n : ConsistentRow(row) /\ Allowed(row, Claimed(u, n), FALSE) => row = EmptyRow
BY DEF ConsistentRow, Allowed, InitialClaim, UserUnclaim, Claimed

LEMMA ClaimRowType ==
  ASSUME NEW u \in Users, NEW n \in Names, NEW parent \in Squares \cup {None}
  PROVE  /\ Board!Claim(u, n, parent) \in Row
         /\ Board!Claim(u, n, parent) # None
         /\ Board!Claim(u, n, parent).state = "claimed"
<1>1. Board!Claim(u, n, parent) \in Row
  BY DEF Board!Claim, Row, States
<1>. QED
  BY <1>1, NoneAssumption DEF Board!Claim

\* The next statement at each stage, and the others.
LEMMA AskedHead ==
  ASSUME NEW r \in Requests, NEW n, NEW s, NEW second, Asked(r, n, s, second)
  PROVE  /\ Next1(r) = Save(s, Claimed(user[r], n), FALSE)
         /\ Tail(todo[r]) = Further(user[r], n, s, second)
<1>. DEFINE i == Save(s, Claimed(user[r], n), FALSE)
            p == ClaimFrom(i, user[r], n, s, second)
<1>1. todo[r] = p
  BY DEF Asked
<1>2. Head(p) = i /\ Tail(p) = Further(user[r], n, s, second)
  <2>. HIDE DEF i
  <2>. QED
    BY ClaimFromParts
<1>. QED
  BY <1>1, <1>2 DEF Next1

LEMMA FirstCheckedHead ==
  ASSUME NEW r \in Requests, NEW n, NEW s, NEW second, FirstChecked(r, n, s, second)
  PROVE  /\ Next1(r) = Locking(Save(s, Claimed(user[r], n), FALSE))
         /\ Tail(todo[r]) = Further(user[r], n, s, second)
<1>. DEFINE i == Locking(Save(s, Claimed(user[r], n), FALSE))
            p == ClaimFrom(i, user[r], n, s, second)
<1>1. todo[r] = p
  BY DEF FirstChecked
<1>2. Head(p) = i /\ Tail(p) = Further(user[r], n, s, second)
  <2>. HIDE DEF i
  <2>. QED
    BY ClaimFromParts
<1>. QED
  BY <1>1, <1>2 DEF Next1

LEMMA Pairs == \A a, b : Tail(<<a, b>>) = <<b>> /\ Head(<<a, b>>) = a
OBVIOUS

LEMMA FirstTakenHead ==
  ASSUME NEW r \in Requests, NEW n, NEW s, NEW second, FirstTaken(r, n, s, second), todo[r] # <<>>
  PROVE  /\ second # None
         /\ Next1(r) = Save(second, Claimed(user[r], n), FALSE)
         /\ Tail(todo[r]) = <<Link(second, s)>>
BY Pairs DEF FirstTaken, Further, Next1

LEMMA SecondCheckedHead ==
  ASSUME NEW r \in Requests, NEW n, NEW s, NEW second, SecondChecked(r, n, s, second)
  PROVE  /\ Next1(r) = Locking(Save(second, Claimed(user[r], n), FALSE))
         /\ Tail(todo[r]) = <<Link(second, s)>>
BY Pairs DEF SecondChecked, Next1

LEMMA BothTakenHead ==
  ASSUME NEW r \in Requests, NEW n, NEW s, NEW second, BothTaken(r, n, s, second)
  PROVE  Next1(r) = Link(second, s) /\ Tail(todo[r]) = <<>>
<1>1. \A a : Tail(<<a>>) = <<>> /\ Head(<<a>>) = a
  OBVIOUS
<1>. QED
  BY <1>1 DEF BothTaken, Next1

\* What kind of statement it is tells the stage.
LEMMA ClaimDoes ==
  ASSUME NEW r \in Requests, NEW n, NEW s, NEW second, Claiming(r, n, s, second), todo[r] # <<>>
  PROVE  /\ Next1(r).do = "save" => Asked(r, n, s, second) \/ FirstTaken(r, n, s, second)
         /\ Next1(r).do = "update" =>
              FirstChecked(r, n, s, second) \/ SecondChecked(r, n, s, second)
         /\ Next1(r).do = "link" => BothTaken(r, n, s, second)
         /\ Next1(r).do # "children"
<1>1. \A q, u : Save(q, u, FALSE).do = "save" /\ Locking(Save(q, u, FALSE)).do = "update"
  BY DEF Save, Locking
<1>2. Link(second, s).do = "link"
  BY DEF Link
<1>3. CASE Asked(r, n, s, second)
  BY <1>1, <1>3, AskedHead
<1>4. CASE FirstChecked(r, n, s, second)
  BY <1>1, <1>4, FirstCheckedHead
<1>5. CASE FirstTaken(r, n, s, second)
  BY <1>1, <1>5, FirstTakenHead
<1>6. CASE SecondChecked(r, n, s, second)
  BY <1>1, <1>6, SecondCheckedHead
<1>7. CASE BothTaken(r, n, s, second)
  BY <1>2, <1>7, BothTakenHead
<1>8. ~Linked(r, n, s, second)
  BY DEF Linked
<1>. QED
  BY <1>3, <1>4, <1>5, <1>6, <1>7, <1>8 DEF Claiming

LEMMA ClaimSelects ==
  ASSUME TypeOK, DataInv, NEW r \in Requests, user[r] \in Users, NEW n \in Names,
         NEW s \in Squares, NEW second \in Squares \cup {None},
         Claiming(r, n, s, second), SelectForShare(r)
  PROVE  Claiming(r, n, s, second)'
<1>. DEFINE a == Save(s, Claimed(user[r], n), FALSE)
            b == Save(second, Claimed(user[r], n), FALSE)
            i == Next1(r)
<1>1. /\ todo[r] # <<>> /\ i.do = "save"
      /\ Allowed(Read(r, i.sq), i.to, i.mgr)
      /\ share'[r] = share[r] \cup {i.sq}
      /\ todo'[r] = <<Locking(i)>> \o Tail(todo[r])
      /\ pend' = pend /\ rows' = rows /\ user' = user
  BY DEF SelectForShare, Doing, Locking, request, TypeOK
<1>2. \A q \in Squares : ConsistentRow(Read(r, q))
  BY DEF DataInv, Read, HasWritten
<1>3. /\ a.sq = s /\ a.to = Claimed(user[r], n) /\ a.mgr = FALSE
      /\ b.sq = second /\ b.to = Claimed(user[r], n) /\ b.mgr = FALSE
      /\ Locking(a).do = "update" /\ Locking(b).do = "update" /\ Link(second, s).do = "link"
  BY DEF Save, Link, Locking
<1>4. CASE Asked(r, n, s, second)
  <2>1. i = a /\ Tail(todo[r]) = Further(user[r], n, s, second)
    BY <1>4, AskedHead
  <2>2. Read(r, s) = EmptyRow
    <3>1. Allowed(Read(r, s), Claimed(user[r], n), FALSE)
      BY <1>1, <1>3, <2>1
    <3>. QED
      BY <1>2, <3>1, OnlyFreeIsClaimed
  <2>3. rows[s] = EmptyRow /\ pend[r] = NothingWritten
    BY <1>4, <2>2 DEF Asked, Read, NothingWritten
  <2>4. todo'[r] = ClaimFrom(Locking(a), user[r], n, s, second)
    BY <1>1, <2>1 DEF ClaimFrom
  <2>5. FirstChecked(r, n, s, second)'
    BY <1>1, <1>3, <2>1, <2>3, <2>4 DEF FirstChecked, HoldsFree
  <2>. QED
    BY <2>5 DEF Claiming
<1>5. CASE FirstTaken(r, n, s, second)
  <2>1. second \in Squares /\ i = b /\ Tail(todo[r]) = <<Link(second, s)>>
    BY <1>1, <1>5, FirstTakenHead
  <2>2. Read(r, second) = EmptyRow
    <3>1. Allowed(Read(r, second), Claimed(user[r], n), FALSE)
      BY <1>1, <1>3, <2>1
    <3>. QED
      BY <1>2, <2>1, <3>1, OnlyFreeIsClaimed
  <2>3. \A q \in Squares : pend[r][q] = IF q = s THEN Board!Claim(user[r], n, None) ELSE None
    BY <1>5 DEF FirstTaken, Written
  <2>4. second # s
    BY <2>2, <2>3, ClaimRowType DEF Read, EmptyRow
  <2>5. rows[second] = EmptyRow
    BY <2>1, <2>2, <2>3, <2>4 DEF Read
  <2>6. todo'[r] = <<Locking(b), Link(second, s)>>
    BY <1>1, <2>1, PairsAndTriples
  <2>7. SecondChecked(r, n, s, second)'
    BY <1>1, <1>3, <1>5, <2>1, <2>4, <2>5, <2>6 DEF SecondChecked, FirstTaken, HoldsFree
  <2>. QED
    BY <2>7 DEF Claiming
<1>. QED
  BY <1>1, <1>4, <1>5, ClaimDoes

LEMMA ClaimUpdates ==
  ASSUME TypeOK, NEW r \in Requests, user[r] \in Users, NEW n \in Names,
         NEW s \in Squares, NEW second \in Squares \cup {None},
         Claiming(r, n, s, second), Update(r)
  PROVE  Claiming(r, n, s, second)'
<1>. DEFINE a == Save(s, Claimed(user[r], n), FALSE)
            b == Save(second, Claimed(user[r], n), FALSE)
            i == Next1(r)
            c == Board!Claim(user[r], n, None)
<1>1. /\ todo[r] # <<>> /\ i.do = "update"
      /\ pend'[r] = [pend[r] EXCEPT ![i.sq] = Updated(Read(r, i.sq), i.to)]
      /\ todo'[r] = Tail(todo[r])
      /\ share' = share /\ rows' = rows /\ user' = user
  BY DEF Update, Doing, request, TypeOK
<1>2. /\ Locking(a).sq = s /\ Locking(a).to = Claimed(user[r], n) /\ a.do = "save"
      /\ Locking(b).sq = second /\ Locking(b).to = Claimed(user[r], n) /\ b.do = "save"
      /\ Link(second, s).do = "link"
  BY DEF Save, Link, Locking
<1>3. Updated(EmptyRow, Claimed(user[r], n)) = c
  BY DEF Updated, EmptyRow, Claimed, Board!Claim
<1>4. CASE FirstChecked(r, n, s, second)
  <2>1. i = Locking(a) /\ Tail(todo[r]) = Further(user[r], n, s, second)
    BY <1>4, FirstCheckedHead
  <2>2. Read(r, s) = EmptyRow /\ pend[r] = NothingWritten
    BY <1>4 DEF FirstChecked, HoldsFree, Read, NothingWritten
  <2>3. pend'[r] = [NothingWritten EXCEPT ![s] = c]
    BY <1>1, <1>2, <1>3, <2>1, <2>2
  <2>. HIDE DEF c
  <2>4. pend'[r] = Written(c, s, None, None)
    BY <2>3, NoneAssumption DEF NothingWritten, Written
  <2>5. FirstTaken(r, n, s, second)'
    BY <1>1, <1>4, <2>1, <2>4 DEF FirstTaken, FirstChecked, HoldsFree, c
  <2>. QED
    BY <2>5 DEF Claiming
<1>5. CASE SecondChecked(r, n, s, second)
  <2>1. second \in Squares \ {s} /\ i = Locking(b) /\ Tail(todo[r]) = <<Link(second, s)>>
    BY <1>5, SecondCheckedHead DEF SecondChecked
  <2>2. pend[r] = Written(c, s, None, None) /\ rows[second] = EmptyRow
    BY <1>5 DEF SecondChecked, HoldsFree
  <2>3. Read(r, second) = EmptyRow
    BY <2>1, <2>2, NoneAssumption DEF Read, Written
  <2>4. i.sq = second /\ i.to = Claimed(user[r], n)
    BY <1>2, <2>1
  <2>7. Updated(Read(r, i.sq), i.to) = c
    BY <1>3, <2>3, <2>4
  <2>8. pend'[r] = [Written(c, s, None, None) EXCEPT ![second] = c]
    BY <1>1, <2>2, <2>4, <2>7
  <2>. HIDE DEF c
  <2>5. pend'[r] = Written(c, s, c, second)
    BY <2>1, <2>8, NoneAssumption DEF Written
  <2>6. BothTaken(r, n, s, second)'
    BY <1>1, <1>5, <2>1, <2>5 DEF BothTaken, SecondChecked, HoldsFree, c
  <2>. QED
    BY <2>6 DEF Claiming
<1>. QED
  BY <1>1, <1>4, <1>5, ClaimDoes

LEMMA ClaimLinks ==
  ASSUME TypeOK, NEW r \in Requests, user[r] \in Users, NEW n \in Names,
         NEW s \in Squares, NEW second \in Squares \cup {None},
         Claiming(r, n, s, second), SetParentSquare(r) \/ ChildSquares(r)
  PROVE  Claiming(r, n, s, second)'
<1>. DEFINE i == Next1(r)
            c == Board!Claim(user[r], n, None)
            d == Board!Claim(user[r], n, s)
<1>1. todo[r] # <<>> /\ i.do \in {"link", "children"}
  BY DEF SetParentSquare, ChildSquares, Doing
<1>2. /\ \A q, u : Save(q, u, FALSE).do = "save" /\ Locking(Save(q, u, FALSE)).do = "update"
      /\ Link(second, s).do = "link" /\ Link(second, s).sq = second /\ Link(second, s).to = s
  BY DEF Save, Link, Locking
<1>3. BothTaken(r, n, s, second) /\ i = Link(second, s) /\ Tail(todo[r]) = <<>>
  BY <1>1, ClaimDoes, BothTakenHead
<1>4. ~ChildSquares(r)
  BY <1>2, <1>3 DEF ChildSquares, Doing
<1>5. /\ pend'[r] = [pend[r] EXCEPT ![second] = [Read(r, second) EXCEPT !.parent = s]]
      /\ todo'[r] = <<>>
      /\ share' = share /\ rows' = rows /\ user' = user
  <2>1. /\ pend'[r] = [pend[r] EXCEPT ![i.sq] = [Read(r, i.sq) EXCEPT !.parent = i.to]]
        /\ todo'[r] = Tail(todo[r])
        /\ share' = share /\ rows' = rows /\ user' = user
    BY <1>4 DEF SetParentSquare, request, TypeOK
  <2>. QED
    BY <1>2, <1>3, <2>1
<1>6. second \in Squares \ {s} /\ pend[r] = Written(c, s, c, second)
  BY <1>3 DEF BothTaken
<1>7. [c EXCEPT !.parent = s] = d
  BY DEF Board!Claim
<1>8. Read(r, second) = c
  BY <1>6, ClaimRowType DEF Read, Written
<1>9. pend'[r] = [Written(c, s, c, second) EXCEPT ![second] = d]
  BY <1>5, <1>6, <1>7, <1>8
<1>. HIDE DEF c, d
<1>10. pend'[r] = Written(c, s, d, second)
  BY <1>6, <1>9 DEF Written
<1>11. Linked(r, n, s, second)'
  BY <1>3, <1>5, <1>6, <1>10 DEF Linked, BothTaken, HoldsFree, c, d
<1>. QED
  BY <1>11 DEF Claiming
-----------------------------------------------------------------------------
\* Other transactions from statement to statement.

Proceeds(r) == SelectForShare(r) \/ Update(r) \/ SetParentSquare(r) \/ ChildSquares(r)

\* The statements left are those that were, the lock of a save, or saves of children.
LEMMA NextElements ==
  ASSUME TypeOK, NEW r \in Requests, Proceeds(r)
  PROVE  /\ todo[r] # <<>> /\ Next1(r) = todo[r][1] /\ 1 \in DOMAIN todo[r]
         /\ \A j \in DOMAIN todo'[r] :
              \/ \E k \in DOMAIN todo[r] :
                   todo'[r][j] = todo[r][k]
                   \/ (todo[r][k].do = "save" /\ todo'[r][j] = Locking(todo[r][k]))
              \/ Next1(r).do = "children" /\ \E c \in Squares : todo'[r][j] = ChildSave(r, Next1(r), c)
<1>. DEFINE i == Next1(r)
            rest == Tail(todo[r])
<1>1. /\ todo[r] \in Seq(Statement) /\ todo[r] # <<>>
      /\ i \in Statement /\ i = todo[r][1] /\ 1 \in DOMAIN todo[r]
  <2>1. todo[r] # <<>> /\ todo[r] \in Seq(Statement)
    BY DEF Proceeds, SelectForShare, Update, SetParentSquare, ChildSquares, Doing, TypeOK
  <2>. QED
    BY <2>1, HeadTailProperties, TailElements DEF Next1
<1>2. \A j \in DOMAIN rest : \E k \in DOMAIN todo[r] : rest[j] = todo[r][k]
  BY <1>1, TailElements
<1>3. CASE SelectForShare(r)
  <2>1. i.do = "save" /\ todo'[r] = <<Locking(i)>> \o rest
    BY <1>3 DEF SelectForShare, Doing, Locking, TypeOK
  <2>2. Locking(i) \in Statement
    BY <1>1, <2>1 DEF Locking, Statement
  <2>. HIDE DEF i
  <2>3. \A j \in DOMAIN todo'[r] :
          j \in DOMAIN todo[r] /\ todo'[r][j] = IF j = 1 THEN Locking(i) ELSE todo[r][j]
    BY <1>1, <2>1, <2>2, HeadReplaced
  <2>. QED
    BY <1>1, <2>1, <2>3 DEF i
<1>4. CASE Update(r) \/ SetParentSquare(r)
  <2>1. todo'[r] = rest
    BY <1>4 DEF Update, SetParentSquare, TypeOK
  <2>. QED
    BY <1>1, <1>2, <2>1
<1>5. CASE ChildSquares(r)
  <2>. DEFINE kids == {c \in Squares : Read(r, c).parent = i.sq}
  <2>1. PICK order \in [1..Cardinality(kids) -> kids] :
          todo' = [todo EXCEPT ![r] = rest \o [j \in DOMAIN order |-> ChildSave(r, i, order[j])]]
    BY <1>5 DEF ChildSquares
  <2>. DEFINE saves == [j \in DOMAIN order |-> ChildSave(r, i, order[j])]
              Any == {ChildSave(r, i, c) : c \in Squares}
  <2>2. Cardinality(kids) \in Nat
    BY SquaresAssumption, FS_Subset, FS_CardinalityType
  <2>3. \A j \in DOMAIN saves : \E c \in Squares : saves[j] = ChildSave(r, i, c)
    BY <2>1
  <2>4. saves \in [1..Cardinality(kids) -> Any]
    BY <2>1, <2>3
  <2>5. saves \in Seq(Any)
    BY <2>2, <2>4, FunctionIsSeq
  <2>6. i.do = "children" /\ todo'[r] = rest \o saves
    BY <1>5, <2>1 DEF ChildSquares, Doing, TypeOK
  <2>7. rest \in Seq(Statement)
    BY <1>1, HeadTailProperties
  <2>. HIDE DEF saves, Any, rest, kids
  <2>8. rest \in Seq(Statement \cup Any) /\ saves \in Seq(Statement \cup Any)
    BY <2>5, <2>7
  <2>9. \A j \in DOMAIN todo'[r] :
          \/ \E k \in DOMAIN rest : todo'[r][j] = rest[k]
          \/ \E k \in DOMAIN saves : todo'[r][j] = saves[k]
    BY <2>6, <2>8, ConcatElements
  <2>. QED
    BY <1>1, <1>2, <2>3, <2>6, <2>9
<1>. QED
  BY <1>3, <1>4, <1>5 DEF Proceeds

\* What r has written, before and after it.
LEMMA NextWritten ==
  ASSUME TypeOK, NEW r \in Requests, Proceeds(r)
  PROVE  /\ rows' = rows /\ user' = user
         /\ \A s \in Squares :
              \/ pend'[r][s] = pend[r][s]
              \/ /\ Next1(r).do = "update"
                 /\ pend'[r][s] = Updated(Read(r, s), Next1(r).to)
              \/ Next1(r).do = "link"
BY DEF Proceeds, SelectForShare, Update, SetParentSquare, ChildSquares, Doing, request, TypeOK

LEMMA ClaimGoesOn ==
  ASSUME TypeOK, DataInv, NEW r \in Requests, user[r] \in Users, Proceeds(r), ClaimTx(r)
  PROVE  ClaimTx(r)'
<1>1. PICK n \in Names, s \in Squares, second \in Squares \cup {None} :
        (second # None => Roll100) /\ Claiming(r, n, s, second)
  BY DEF ClaimTx
<1>2. Claiming(r, n, s, second)'
  BY <1>1, ClaimSelects, ClaimUpdates, ClaimLinks DEF Proceeds
<1>. QED
  BY <1>1, <1>2 DEF ClaimTx

LEMMA UnclaimGoesOn ==
  ASSUME TypeOK, NEW r \in Requests, Proceeds(r), UnclaimTx(r)
  PROVE  UnclaimTx(r)'
<1>1. /\ Next1(r).do # "link"
      /\ Saves(Next1(r)) => Next1(r).to.state = "unclaimed"
      /\ Next1(r).do = "children" => Next1(r).to = None /\ Next1(r).mgr = FALSE
  BY NextElements DEF UnclaimTx, GivesUp
<1>2. ASSUME NEW c, Next1(r).do = "children", NEW i, i = ChildSave(r, Next1(r), c)
      PROVE  i.do = "save" /\ i.to.state = "unclaimed"
  BY <1>1, <1>2 DEF ChildSave, Save, Unclaimed
<1>3. ASSUME NEW j \in DOMAIN todo[r], todo[r][j].do = "save"
      PROVE  Locking(todo[r][j]).do = "update" /\ Locking(todo[r][j]).to.state = "unclaimed"
  <2>1. todo[r][j] \in Statement
    BY DEF TypeOK
  <2>. QED
    BY <1>3, <2>1 DEF Locking, UnclaimTx, GivesUp, Saves, Statement
<1>4. GivesUp(todo'[r])
  <2>. SUFFICES ASSUME NEW j \in DOMAIN todo'[r]
                PROVE  /\ todo'[r][j].do # "link"
                       /\ Saves(todo'[r][j]) => todo'[r][j].to.state = "unclaimed"
                       /\ todo'[r][j].do = "children" =>
                            todo'[r][j].to = None /\ todo'[r][j].mgr = FALSE
    BY DEF GivesUp
  <2>1. CASE \E k \in DOMAIN todo[r] : todo'[r][j] = todo[r][k]
    BY <2>1 DEF UnclaimTx, GivesUp
  <2>2. CASE \E k \in DOMAIN todo[r] : todo[r][k].do = "save" /\ todo'[r][j] = Locking(todo[r][k])
    BY <1>3, <2>2
  <2>3. CASE Next1(r).do = "children" /\ \E c \in Squares : todo'[r][j] = ChildSave(r, Next1(r), c)
    BY <1>2, <2>3
  <2>. QED
    BY <2>1, <2>2, <2>3, NextElements
<1>5. ASSUME NEW s \in Squares, HasWritten(r, s)' PROVE pend'[r][s] = EmptyRow
  <2>1. CASE pend'[r][s] = pend[r][s]
    BY <1>5, <2>1 DEF HasWritten, UnclaimTx
  <2>2. CASE Next1(r).do = "update" /\ pend'[r][s] = Updated(Read(r, s), Next1(r).to)
    BY <1>1, <2>2 DEF Saves, Updated
  <2>. QED
    BY <1>1, <2>1, <2>2, NextWritten
<1>. QED
  BY <1>4, <1>5 DEF UnclaimTx, HasWritten

LEMMA ManagerGoesOn ==
  ASSUME TypeOK, NEW r \in Requests, Proceeds(r), ManagerTx(r)
  PROVE  ManagerTx(r)'
<1>1. Next1(r).do # "link"
  BY NextElements DEF ManagerTx, LinksNone
<1>2. LinksNone(todo'[r])
  <2>. SUFFICES ASSUME NEW j \in DOMAIN todo'[r] PROVE todo'[r][j].do # "link"
    BY DEF LinksNone
  <2>1. \A c : ChildSave(r, Next1(r), c).do = "save"
    BY DEF ChildSave, Save
  <2>2. \A k \in DOMAIN todo[r] : Locking(todo[r][k]).do # "link"
    <3>1. \A k \in DOMAIN todo[r] : todo[r][k].do # "link"
      BY DEF ManagerTx, LinksNone
    <3>2. \A k \in DOMAIN todo[r] : todo[r][k] \in Statement
      BY DEF TypeOK
    <3>. QED
      BY <3>1, <3>2 DEF Locking, Statement
  <2>. QED
    BY <2>1, <2>2, NextElements DEF ManagerTx, LinksNone
<1>3. ASSUME NEW s \in Squares, HasWritten(r, s)' PROVE pend'[r][s].parent \in {rows[s].parent, None}
  <2>1. CASE pend'[r][s] = pend[r][s]
    BY <1>3, <2>1 DEF HasWritten, ManagerTx
  <2>2. CASE pend'[r][s] = Updated(Read(r, s), Next1(r).to)
    <3>1. Read(r, s).parent \in {rows[s].parent, None}
      BY DEF Read, HasWritten, ManagerTx
    <3>. QED
      BY <2>2, <3>1 DEF Updated, EmptyRow
  <2>. QED
    BY <1>1, <2>1, <2>2, NextWritten
<1>. QED
  BY <1>2, <1>3, NextWritten DEF ManagerTx, HasWritten, IsManager

\* A transaction that another request's step leaves alone is what it was.
LEMMA UntouchedClaim ==
  ASSUME NEW q \in Requests, Untouched(q), ClaimTx(q)
  PROVE  ClaimTx(q)'
<1>1. PICK n \in Names, s \in Squares, second \in Squares \cup {None} :
        (second # None => Roll100) /\ Claiming(q, n, s, second)
  BY DEF ClaimTx
<1>2. \A x : HoldsFree(q, x) => HoldsFree(q, x)'
  BY DEF Untouched, HoldsFree
<1>3. Claiming(q, n, s, second)'
  BY <1>1, <1>2 DEF Untouched, Claiming, Asked, FirstChecked, FirstTaken, SecondChecked,
                    BothTaken, Linked
<1>. QED
  BY <1>1, <1>3 DEF ClaimTx

LEMMA UntouchedStays ==
  ASSUME LockInv, TypeOK, NEW q \in Requests, Untouched(q), ClaimTx(q) \/ UnclaimTx(q) \/ ManagerTx(q)
  PROVE  ClaimTx(q)' \/ UnclaimTx(q)' \/ ManagerTx(q)'
<1>1. UnclaimTx(q) => UnclaimTx(q)'
  BY DEF Untouched, UnclaimTx, HasWritten
<1>2. CASE ManagerTx(q)
  <2>1. \A s \in Squares : HasWritten(q, s) => s \in share[q]
    BY DEF LockInv, WritersAreAlone
  <2>. QED
    BY <1>2, <2>1 DEF Untouched, ManagerTx, HasWritten, IsManager
<1>. QED
  BY <1>1, <1>2, UntouchedClaim

-----------------------------------------------------------------------------
\* The invariant.

LEMMA BoardInit == Init => BoardInv
BY DEF Init, BoardInv

\* A step moves one request at most, and leaves the transactions of the others.
LEMMA StepOfOne ==
  ASSUME SafetyInv, [Next]_vars
  PROVE  \/ \A q \in Requests : Untouched(q)
         \/ \E r \in Requests :
              /\ \A q \in Requests \ {r} : Untouched(q)
              /\ pc'[r] = "tx" => Handle(r) \/ (pc[r] = "tx" /\ Proceeds(r))
<1>1. TypeOK /\ PhaseInv /\ LockInv /\ DataInv
  BY DEF SafetyInv
<1>. DEFINE Moves(r) == /\ \A q \in Requests \ {r} : Untouched(q)
                        /\ pc'[r] = "tx" => Handle(r) \/ (pc[r] = "tx" /\ Proceeds(r))
<1>2. \A r \in Requests : Answered(r) # "tx"
  BY DEF Answered
<1>3. CASE (\E past \in BOOLEAN : SetLocks(past)) \/ UNCHANGED vars
  BY <1>3 DEF SetLocks, vars, request, tx, Untouched
<1>4. ASSUME NEW r \in Requests, NEW u \in Users, Begin(r, u) PROVE Moves(r)
  BY <1>1, <1>4 DEF Begin, tx, TypeOK, Untouched
<1>5. ASSUME NEW r \in Requests, Handle(r) PROVE Moves(r)
  <2>1. UNCHANGED <<rows, pend, share>>
    BY <1>1, <1>5, HandlerProgram
  <2>2. \A q \in Requests \ {r} : pc'[q] = pc[q] /\ user'[q] = user[q] /\ todo'[q] = todo[q]
    <3>1. CASE \E p : Starts(r, p)
      BY <1>1, <3>1 DEF Starts, TypeOK
    <3>2. CASE /\ UNCHANGED todo
               /\ \A q \in Requests \ {r} : pc'[q] = pc[q] /\ user'[q] = user[q]
      BY <3>2
    <3>. QED
      BY <1>1, <1>5, <3>1, <3>2, HandlerProgram
  <2>. QED
    BY <1>5, <2>1, <2>2 DEF Untouched
<1>6. ASSUME NEW r \in Requests, AlreadyClaimed(r) \/ Cancel(r) \/ DeadlockDetected(r)
      PROVE  Moves(r)
  BY <1>1, <1>2, <1>6 DEF AlreadyClaimed, Cancel, DeadlockDetected, Rollback, Finish, End,
                          request, Untouched, TypeOK
<1>7. ASSUME NEW r \in Requests, Proceeds(r) PROVE Moves(r)
  BY <1>1, <1>7 DEF Proceeds, SelectForShare, Update, SetParentSquare, ChildSquares, Doing,
                    request, Untouched, TypeOK
<1>8. ASSUME NEW r \in Requests, Commit(r) PROVE Moves(r)
  <2>1. /\ rows' = [s \in Squares |-> Read(r, s)] /\ pc'[r] # "tx"
        /\ \A q \in Requests \ {r} :
             /\ pc'[q] = pc[q] /\ user'[q] = user[q] /\ todo'[q] = todo[q]
             /\ pend'[q] = pend[q] /\ share'[q] = share[q]
    BY <1>1, <1>2, <1>8 DEF Commit, Finish, End, request, TypeOK
  <2>2. ASSUME NEW q \in Requests \ {r}, NEW s \in share[q] PROVE rows'[s] = rows[s]
    <3>1. s \in Squares
      BY <1>1 DEF TypeOK
    <3>2. ~HasWritten(r, s)
      BY <1>1, <3>1, LockInvParts
    <3>. QED
      BY <2>1, <3>1, <3>2 DEF Read, HasWritten
  <2>. QED
    BY <2>1, <2>2 DEF Untouched
<1>. QED
  BY <1>3, <1>4, <1>5, <1>6, <1>7, <1>8 DEF Next, Run, Proceeds

\* A handler starts a transaction that has written nothing.
LEMMA HandlerStarts ==
  ASSUME SafetyInv, NEW r \in Requests, Handle(r), pc'[r] = "tx"
  PROVE  ClaimTx(r)' \/ UnclaimTx(r)' \/ ManagerTx(r)'
<1>1. TypeOK /\ PhaseInv /\ DataInv
  BY DEF SafetyInv
<1>2. rows' = rows /\ pend' = pend /\ user' = user /\ pend'[r] = NothingWritten
  BY <1>1, HandlerProgram, Plans DEF PhaseInv
<1>3. \A s \in Squares : ~HasWritten(r, s)'
  BY <1>2 DEF HasWritten, NothingWritten
<1>4. ASSUME NEW n \in Names, NEW s \in Squares, NEW second \in Squares \cup {None},
             second # None => Roll100,
             todo'[r] = ClaimFrom(Save(s, Claimed(user[r], n), FALSE), user[r], n, s, second)
      PROVE  ClaimTx(r)'
  <2>1. Asked(r, n, s, second)'
    BY <1>2, <1>4 DEF Asked, NothingWritten
  <2>. QED
    BY <1>4, <2>1 DEF ClaimTx, Claiming
<1>5. GivesUp(todo'[r]) => UnclaimTx(r)'
  BY <1>3 DEF UnclaimTx
<1>6. IsManager(r) /\ LinksNone(todo'[r]) => ManagerTx(r)'
  BY <1>2, <1>3 DEF ManagerTx, IsManager
<1>. QED
  BY <1>1, <1>4, <1>5, <1>6, Plans

LEMMA BoardStep == SafetyInv /\ BoardInv /\ [Next]_vars => BoardInv'
<1>. SUFFICES ASSUME SafetyInv, BoardInv, [Next]_vars,
                     NEW r \in Requests, pc'[r] = "tx"
              PROVE  ClaimTx(r)' \/ UnclaimTx(r)' \/ ManagerTx(r)'
  BY DEF BoardInv
<1>1. TypeOK /\ PhaseInv /\ LockInv /\ DataInv
  BY DEF SafetyInv
<1>2. CASE Untouched(r)
  <2>1. ClaimTx(r) \/ UnclaimTx(r) \/ ManagerTx(r)
    BY <1>2 DEF Untouched, BoardInv
  <2>. QED
    BY <1>1, <1>2, <2>1, UntouchedStays
<1>3. CASE Handle(r)
  BY <1>3, HandlerStarts
<1>4. CASE pc[r] = "tx" /\ Proceeds(r)
  <2>1. user[r] \in Users
    BY <1>1, <1>4 DEF PhaseInv
  <2>. QED
    BY <1>1, <1>4, <2>1, ClaimGoesOn, UnclaimGoesOn, ManagerGoesOn DEF BoardInv
<1>. QED
  BY <1>2, <1>3, <1>4, StepOfOne

-----------------------------------------------------------------------------
\* The commit of each kind of transaction is a step of the board.

LEMMA ClaimCommits ==
  ASSUME TypeOK, NEW r \in Requests, user[r] \in Users, ClaimTx(r), Commit(r)
  PROVE  \E s \in Squares, n \in Names :
           \/ Board!TakeOne(user[r], s, n)
           \/ \E second \in Squares : Board!TakeTwo(user[r], s, second, n)
<1>1. PICK n \in Names, s \in Squares, second \in Squares \cup {None} :
        (second # None => Roll100) /\ Claiming(r, n, s, second)
  BY DEF ClaimTx
<1>2. todo[r] = <<>> /\ rows' = [q \in Squares |-> Read(r, q)]
  BY DEF Commit
<1>. DEFINE c == Board!Claim(user[r], n, None)
            d == Board!Claim(user[r], n, s)
<1>3. Board!Free = EmptyRow
  BY DEF Board!Free, EmptyRow
<1>4. c # None /\ d # None
  BY ClaimRowType
<1>5. CASE FirstTaken(r, n, s, second)
  <2>1. pend[r] = Written(c, s, None, None) /\ rows[s] = EmptyRow
    BY <1>5 DEF FirstTaken, HoldsFree
  <2>. HIDE DEF c
  <2>2. rows' = [rows EXCEPT ![s] = c]
    BY <1>2, <1>4, <2>1 DEF Written, Read, TypeOK
  <2>3. Board!TakeOne(user[r], s, n)
    BY <1>3, <2>1, <2>2 DEF Board!TakeOne, c
  <2>. QED
    BY <2>3
<1>6. CASE Linked(r, n, s, second)
  <2>1. /\ pend[r] = Written(c, s, d, second) /\ second \in Squares \ {s}
        /\ rows[s] = EmptyRow /\ rows[second] = EmptyRow
    BY <1>6 DEF Linked, HoldsFree
  <2>. HIDE DEF c, d
  <2>2. rows' = [rows EXCEPT ![s] = c, ![second] = d]
    BY <1>2, <1>4, <2>1 DEF Written, Read, TypeOK
  <2>3. Roll100
    BY <1>1, <2>1, NoneAssumption
  <2>4. Board!TakeTwo(user[r], s, second, n)
    BY <1>3, <2>1, <2>2, <2>3 DEF Board!TakeTwo, c, d
  <2>. QED
    BY <2>1, <2>4
<1>7. ~Asked(r, n, s, second) /\ ~FirstChecked(r, n, s, second)
  <2>1. ASSUME NEW i PROVE ClaimFrom(i, user[r], n, s, second) # <<>>
    <3>1. Further(user[r], n, s, second) \in {<<>>,
            <<Save(second, Claimed(user[r], n), FALSE), Link(second, s)>>}
      BY DEF Further
    <3>2. \A a, b, e : <<a>> \o <<>> # <<>> /\ <<a>> \o <<b, e>> # <<>>
      <4>1. \A a, b, e : <<a, b, e>> # <<>> /\ <<a>> # <<>> /\ <<a>> \o <<>> = <<a>>
        OBVIOUS
      <4>. QED
        BY <4>1, PairsAndTriples
    <3>. QED
      BY <3>1, <3>2 DEF ClaimFrom
  <2>. QED
    BY <1>2, <2>1 DEF Asked, FirstChecked
<1>8. ~SecondChecked(r, n, s, second) /\ ~BothTaken(r, n, s, second)
  BY <1>2 DEF SecondChecked, BothTaken
<1>. QED
  BY <1>1, <1>5, <1>6, <1>7, <1>8 DEF Claiming

LEMMA OwnerCommits ==
  ASSUME TypeOK, DataInv, NEW r \in Requests, user[r] \in Users, UserTx(r), UnclaimTx(r), Commit(r)
  PROVE  Board!Next
<1>. DEFINE given == {s \in Squares : HasWritten(r, s) /\ rows[s].state # "unclaimed"}
<1>1. \A s \in given : rows[s].owner = user[r] /\ rows[s].state = "claimed"
  BY DEF UserTx
<1>2. \A s \in Squares : Read(r, s) = IF s \in given THEN Board!Free ELSE rows[s]
  <2>1. \A s \in Squares : rows[s].state = "unclaimed" => rows[s] = EmptyRow
    BY DEF DataInv, ConsistentRow
  <2>. QED
    BY <2>1 DEF Read, HasWritten, UnclaimTx, Board!Free, EmptyRow
<1>3. rows' = [s \in Squares |-> IF s \in given THEN Board!Free ELSE rows[s]]
  BY <1>2 DEF Commit
<1>. HIDE DEF given
<1>4. given \in SUBSET Squares
  BY DEF given
<1>5. Board!GiveUp(user[r])
  BY <1>1, <1>3, <1>4 DEF Board!GiveUp
<1>. QED
  BY <1>5 DEF Board!Next

LEMMA ManagerCommits ==
  ASSUME TypeOK, TypeOK', DataInv', NEW r \in Requests, IsManager(r),
         UnclaimTx(r) \/ ManagerTx(r), Commit(r)
  PROVE  Board!Next
<1>1. Managers # {}
  BY DEF IsManager
<1>2. ASSUME NEW s \in Squares PROVE rows'[s] \in Board!Taken \cup {Board!Free}
  <2>1. rows'[s] \in Row
    BY DEF TypeOK
  <2>2. ConsistentRow(rows'[s])
    BY DEF DataInv, ConsistentRow
  <2>3. CASE rows'[s].state = "unclaimed"
    BY <2>2, <2>3 DEF ConsistentRow, EmptyRow, Board!Free
  <2>4. CASE rows'[s].state # "unclaimed"
    BY <2>1, <2>2, <2>4 DEF ConsistentRow, Row, States, Board!Taken, Board!States
  <2>. QED
    BY <2>3, <2>4
<1>3. rows' \in [Squares -> Board!Taken \cup {Board!Free}]
  BY <1>2 DEF TypeOK
<1>4. ASSUME NEW s \in Squares PROVE rows'[s].parent \in {rows[s].parent, None}
  <2>1. rows'[s] = Read(r, s)
    BY DEF Commit
  <2>. QED
    BY <2>1 DEF Read, HasWritten, UnclaimTx, ManagerTx, EmptyRow
<1>5. Board!Administer
  BY <1>1, <1>3, <1>4 DEF Board!Administer
<1>. QED
  BY <1>5 DEF Board!Next

\* Every commit is one step of the abstract board and no other step changes it:
\* for any number of users, squares and overlapping requests, a claim takes
\* squares that are free when it commits, both or none, an owner gives up only
\* unpaid squares of his own, and only a manager does anything else.
THEOREM CommitsAreBoardSteps == Spec => ImplementsBoard
<1>1. Init => Board!Init
  BY DEF Init, Board!Init, Board!Free, EmptyRow
<1>2. ASSUME SafetyInv, BoardInv, SafetyInv', [Next]_vars, rows' # rows
      PROVE  Board!Next
  <2>1. PICK r \in Requests : Commit(r)
    BY <1>2, RowsChangeAtCommit
  <2>2. /\ TypeOK /\ DataInv /\ PhaseInv /\ UserInv /\ TypeOK' /\ DataInv'
        /\ pc[r] = "tx" /\ user[r] \in Users
    BY <1>2, <2>1 DEF SafetyInv, Commit, PhaseInv
  <2>3. ClaimTx(r) \/ UnclaimTx(r) \/ ManagerTx(r)
    BY <1>2, <2>2 DEF BoardInv
  <2>4. ~IsManager(r) => UserTx(r)
    BY <2>2 DEF UserInv
  <2>5. ManagerTx(r) => IsManager(r)
    BY DEF ManagerTx
  <2>6. CASE ClaimTx(r)
    BY <2>1, <2>2, <2>6, ClaimCommits DEF Board!Next
  <2>. QED
    BY <2>1, <2>2, <2>3, <2>4, <2>5, <2>6, OwnerCommits, ManagerCommits
<1>3. SafetyInv /\ BoardInv /\ SafetyInv' /\ [Next]_vars => [Board!Next]_rows
  BY <1>2
<1>4. Spec => [](SafetyInv /\ BoardInv)
  <2>1. Init => SafetyInv /\ BoardInv
    BY SafetyInit, BoardInit
  <2>2. SafetyInv /\ BoardInv /\ [Next]_vars => (SafetyInv /\ BoardInv)'
    BY SafetyNext, BoardStep
  <2>. QED
    BY <2>1, <2>2, PTL DEF Spec
<1>. QED
  BY <1>1, <1>3, <1>4, PTL DEF Spec, ImplementsBoard, Board!Spec

-----------------------------------------------------------------------------
\* Families, for requests that do not overlap: what a transaction will leave
\* is known when its handler has built it, and every statement keeps to that.

OneAtATime == \A r, q \in Requests : r = q

\* The families of T are intact; without roll squares there are none.
Families(T) ==
  /\ \A c \in Squares : T[c].parent # None =>
       /\ T[T[c].parent].state # "unclaimed"
       /\ T[T[c].parent].parent = None
       /\ T[T[c].parent].owner = T[c].owner
       /\ T[T[c].parent].claimant = T[c].claimant
       /\ \A d \in Squares : T[d].parent = T[c].parent => d = c
  /\ ~Roll100 => \A c \in Squares : T[c].parent = None

\* Statement i of r saves c, or finds it as a child and has it saved.
Touches(r, i, c) ==
  \/ Saves(i) /\ i.sq = c
  \/ i.do = "children" /\ i.sq = Read(r, c).parent

ImageOf(r, i, c) == IF Saves(i) THEN i.to ELSE ChildSave(r, i, c).to

\* At most one statement left touches c, and it makes it row.
WillBe(r, c, row) ==
  \/ /\ \A j \in DOMAIN todo[r] : ~Touches(r, todo[r][j], c)
     /\ row = Read(r, c)
  \/ \E j \in DOMAIN todo[r] :
       /\ \A k \in DOMAIN todo[r] : Touches(r, todo[r][k], c) <=> k = j
       /\ row = Updated(Read(r, c), ImageOf(r, todo[r][j], c))

LeadsTo(r, T) == LinksNone(todo[r]) /\ \A c \in Squares : WillBe(r, c, T[c])

FamilyTx(r) == \E T : Families(T) /\ LeadsTo(r, T)

FamilyInv ==
  /\ Families(rows)
  /\ \A r \in Requests : pc[r] = "tx" => ClaimTx(r) \/ FamilyTx(r)

-----------------------------------------------------------------------------
\* Statements keep to it.

\* Where the elements of short-lived programs are.
LEMMA TailPlaces ==
  ASSUME NEW S, NEW p \in Seq(S), p # <<>>
  PROVE  /\ \A j \in DOMAIN p : j \in Nat /\ (j # 1 => j - 1 \in DOMAIN Tail(p))
         /\ \A a \in S : DOMAIN (<<a>> \o Tail(p)) = DOMAIN p
<1>1. Tail(p) \in Seq(S) /\ Len(Tail(p)) = Len(p) - 1 /\ Len(p) \in Nat
  BY HeadTailProperties, LenProperties
<1>2. DOMAIN p = 1 .. Len(p) /\ DOMAIN Tail(p) = 1 .. Len(Tail(p))
  BY <1>1, LenProperties
<1>3. ASSUME NEW a \in S PROVE DOMAIN (<<a>> \o Tail(p)) = DOMAIN p
  <2>1. <<a>> \in Seq(S) /\ Len(<<a>>) = 1
    OBVIOUS
  <2>2. Len(<<a>> \o Tail(p)) = Len(p) /\ <<a>> \o Tail(p) \in Seq(S)
    BY <1>1, <2>1, ConcatProperties
  <2>. QED
    BY <1>2, <2>2, LenProperties
<1>. QED
  BY <1>1, <1>2, <1>3

LEMMA ConcatPlaces ==
  ASSUME NEW S, NEW p \in Seq(S), NEW q \in Seq(S)
  PROVE  /\ Len(p) \in Nat
         /\ \A j \in DOMAIN p : /\ j \in DOMAIN (p \o q) /\ (p \o q)[j] = p[j]
                               /\ j \in Nat /\ j <= Len(p)
         /\ \A j \in DOMAIN q :
              /\ j \in Nat /\ Len(p) + j \in DOMAIN (p \o q)
              /\ (p \o q)[Len(p) + j] = q[j]
BY ConcatProperties, LenProperties

LEMMA SelectLeads ==
  ASSUME TypeOK, NEW r \in Requests, NEW T, LeadsTo(r, T), SelectForShare(r)
  PROVE  LeadsTo(r, T)'
<1>. DEFINE i == Next1(r)
<1>1. /\ todo[r] \in Seq(Statement) /\ todo[r] # <<>> /\ i = todo[r][1] /\ i \in Statement
      /\ i.do = "save" /\ todo'[r] = <<Locking(i)>> \o Tail(todo[r])
      /\ pend' = pend /\ rows' = rows /\ user' = user
  BY HeadTailProperties DEF SelectForShare, Doing, Locking, Next1, request, TypeOK
<1>2. /\ Locking(i) \in Statement /\ Locking(i).do = "update"
      /\ Locking(i).sq = i.sq /\ Locking(i).to = i.to
  BY <1>1 DEF Locking, Statement
<1>. HIDE DEF i
<1>3. /\ DOMAIN todo'[r] = DOMAIN todo[r]
      /\ \A j \in DOMAIN todo[r] : todo'[r][j] = IF j = 1 THEN Locking(i) ELSE todo[r][j]
  BY <1>1, <1>2, HeadReplaced, TailPlaces
<1>4. \A c \in Squares : Read(r, c)' = Read(r, c)
  BY <1>1 DEF Read
<1>5. \A j \in DOMAIN todo[r], c \in Squares :
        /\ Touches(r, todo[r][j], c)' <=> Touches(r, todo[r][j], c)
        /\ ImageOf(r, todo[r][j], c)' = ImageOf(r, todo[r][j], c)
  BY <1>1, <1>2, <1>3, <1>4 DEF Touches, ImageOf, Saves, ChildSave
<1>6. \A c \in Squares : WillBe(r, c, T[c])'
  <2>. SUFFICES ASSUME NEW c \in Squares PROVE WillBe(r, c, T[c])'
    OBVIOUS
  <2>1. CASE \A j \in DOMAIN todo[r] : ~Touches(r, todo[r][j], c)
    BY <1>3, <1>4, <1>5, <2>1 DEF WillBe, LeadsTo
  <2>2. ASSUME NEW j \in DOMAIN todo[r],
               \A k \in DOMAIN todo[r] : Touches(r, todo[r][k], c) <=> k = j,
               T[c] = Updated(Read(r, c), ImageOf(r, todo[r][j], c))
        PROVE  WillBe(r, c, T[c])'
    BY <1>3, <1>4, <1>5, <2>2 DEF WillBe, Updated
  <2>. QED
    BY <2>1, <2>2 DEF WillBe, LeadsTo
<1>7. LinksNone(todo'[r])
  BY <1>2, <1>3 DEF LinksNone, LeadsTo
<1>. QED
  BY <1>6, <1>7 DEF LeadsTo

LEMMA UpdateLeads ==
  ASSUME TypeOK, NEW r \in Requests, NEW T, LeadsTo(r, T), Update(r)
  PROVE  LeadsTo(r, T)'
<1>. DEFINE i == Next1(r)
            rest == Tail(todo[r])
<1>1. /\ todo[r] \in Seq(Statement) /\ todo[r] # <<>> /\ i = todo[r][1] /\ i \in Statement
      /\ i.do = "update" /\ i.sq \in Squares /\ todo'[r] = rest
      /\ pend'[r] = [pend[r] EXCEPT ![i.sq] = Updated(Read(r, i.sq), i.to)]
      /\ rows' = rows /\ user' = user /\ pend[r] \in [Squares -> Row \cup {None}]
  BY HeadType, HeadTailProperties DEF Update, Doing, Next1, request, TypeOK
<1>2. /\ 1 \in DOMAIN todo[r]
      /\ \A j \in DOMAIN rest : j \in Nat /\ j >= 1 /\ j + 1 \in DOMAIN todo[r] /\ rest[j] = todo[r][j+1]
      /\ \A j \in DOMAIN todo[r] : j \in Nat /\ (j # 1 => j - 1 \in DOMAIN rest)
  BY <1>1, TailElements, TailPlaces
<1>3. i.to \in Image
  BY <1>1, HeadType DEF Update
<1>. HIDE DEF i, rest
<1>. PICK q \in Squares, to \in Image : q = i.sq /\ to = i.to
  BY <1>1, <1>3
<1>4. Read(r, q)' = Updated(Read(r, q), to)
  <2>1. Updated(Read(r, q), to) # None
    BY ReadType, UpdatedType, NoneAssumption
  <2>2. pend'[r][q] = Updated(Read(r, q), to)
    BY <1>1
  <2>. QED
    BY <2>1, <2>2 DEF Read
<1>5. \A c \in Squares : c # q => Read(r, c)' = Read(r, c)
  BY <1>1 DEF Read
<1>6. Touches(r, i, q)
  BY <1>1 DEF Touches, Saves
<1>7. \A c \in Squares : c # q => ~Touches(r, i, c)
  BY <1>1 DEF Touches, Saves
<1>8. ASSUME NEW j \in DOMAIN rest, NEW c \in Squares, c # q
      PROVE  /\ Touches(r, todo[r][j], c)' <=> Touches(r, todo[r][j+1], c)
             /\ ImageOf(r, todo[r][j], c)' = ImageOf(r, todo[r][j+1], c)
  BY <1>1, <1>2, <1>5, <1>8 DEF Touches, ImageOf, Saves, ChildSave
<1>9. WillBe(r, q, T[q])'
  <2>1. PICK j \in DOMAIN todo[r] :
          /\ \A k \in DOMAIN todo[r] : Touches(r, todo[r][k], q) <=> k = j
          /\ T[q] = Updated(Read(r, q), ImageOf(r, todo[r][j], q))
    BY <1>1, <1>2, <1>6 DEF WillBe, LeadsTo
  <2>2. j = 1
    BY <1>1, <1>2, <1>6, <2>1
  <2>3. T[q] = Read(r, q)'
    BY <1>1, <1>4, <2>1, <2>2 DEF ImageOf, Saves
  <2>4. ASSUME NEW k \in DOMAIN rest PROVE ~Touches(r, todo[r][k], q)'
    <3>1. ~Touches(r, rest[k], q)
      BY <1>2, <2>1, <2>2
    <3>2. rest[k] \in Statement
      BY <1>1, <1>2
    <3>3. Read(r, q)'.parent \in {Read(r, q).parent, None}
      BY <1>4 DEF Updated, EmptyRow
    <3>4. rest[k].do = "children" => rest[k].sq \in Squares
      BY <3>2 DEF Statement
    <3>. QED
      BY <1>1, <3>1, <3>3, <3>4, NoneAssumption DEF Touches, Saves
  <2>. QED
    BY <1>1, <2>3, <2>4 DEF WillBe
<1>10. ASSUME NEW c \in Squares, c # q PROVE WillBe(r, c, T[c])'
  <2>1. CASE \A j \in DOMAIN todo[r] : ~Touches(r, todo[r][j], c)
    <3>1. T[c] = Read(r, c)'
      BY <1>5, <1>10, <2>1 DEF WillBe, LeadsTo
    <3>. QED
      BY <1>1, <1>2, <1>8, <1>10, <2>1, <3>1 DEF WillBe
  <2>2. ASSUME NEW j \in DOMAIN todo[r],
               \A k \in DOMAIN todo[r] : Touches(r, todo[r][k], c) <=> k = j,
               T[c] = Updated(Read(r, c), ImageOf(r, todo[r][j], c))
        PROVE  WillBe(r, c, T[c])'
    <3>1. j # 1 /\ j - 1 \in DOMAIN rest /\ j \in Nat
      BY <1>1, <1>2, <1>7, <1>10, <2>2
    <3>2. \A k \in DOMAIN rest : Touches(r, todo[r][k], c)' <=> k = j - 1
      BY <1>2, <1>8, <1>10, <2>2, <3>1
    <3>3. ImageOf(r, todo[r][j-1], c)' = ImageOf(r, todo[r][j], c)
      BY <1>8, <1>10, <3>1
    <3>4. T[c] = Updated(Read(r, c), ImageOf(r, todo[r][j-1], c))'
      BY <1>5, <1>10, <2>2, <3>3 DEF Updated
    <3>. QED
      BY <1>1, <3>1, <3>2, <3>4 DEF WillBe
  <2>. QED
    BY <2>1, <2>2 DEF WillBe, LeadsTo
<1>11. LinksNone(todo'[r])
  BY <1>1, <1>2 DEF LinksNone, LeadsTo
<1>. QED
  BY <1>9, <1>10, <1>11 DEF LeadsTo

\* A strictly increasing list of all of a finite set has each element once.
LEMMA ListsEach ==
  ASSUME NEW K \in SUBSET Squares, NEW order \in [1..Cardinality(K) -> K],
         \A j, k \in DOMAIN order : j < k => order[j] < order[k]
  PROVE  /\ \A c \in K : \E j \in DOMAIN order : order[j] = c
         /\ \A j, k \in DOMAIN order : order[j] = order[k] => j = k
<1>1. IsFiniteSet(K) /\ Cardinality(K) \in Nat
  BY SquaresAssumption, FS_Subset, FS_CardinalityType
<1>2. \A j, k \in 1..Cardinality(K) : j # k => order[j] # order[k]
  <2>1. \A j, k \in 1..Cardinality(K) : j < k => order[j] < order[k]
    OBVIOUS
  <2>2. \A j \in 1..Cardinality(K) : order[j] \in Nat
    BY SquaresAssumption
  <2>3. ASSUME NEW j \in 1..Cardinality(K), NEW k \in 1..Cardinality(K), j # k PROVE order[j] # order[k]
    <3>1. j < k \/ k < j
      BY <1>1, <2>3
    <3>. QED
      BY <2>1, <2>2, <3>1
  <2>. QED
    BY <2>3
<1>3. order \in Injection(1..Cardinality(K), K)
  BY <1>2 DEF Injection, IsInjective
<1>4. Cardinality(1..Cardinality(K)) = Cardinality(K)
  BY <1>1, FS_Interval
<1>5. order \in Surjection(1..Cardinality(K), K)
  BY <1>1, <1>3, <1>4, FS_Injection
<1>. QED
  BY <1>2, <1>5 DEF Surjection

LEMMA ChildSquaresLeads ==
  ASSUME TypeOK, PhaseInv, NEW r \in Requests, NEW T, LeadsTo(r, T), ChildSquares(r)
  PROVE  LeadsTo(r, T)'
<1>. DEFINE i == Next1(r)
            rest == Tail(todo[r])
            kids == {c \in Squares : Read(r, c).parent = i.sq}
<1>1. /\ todo[r] \in Seq(Statement) /\ todo[r] # <<>> /\ i = todo[r][1] /\ i \in Statement
      /\ i.do = "children" /\ user[r] \in Users /\ rest \in Seq(Statement)
      /\ pend' = pend /\ rows' = rows /\ user' = user
  BY HeadTailProperties DEF ChildSquares, Doing, Next1, request, TypeOK, PhaseInv
<1>2. PICK order \in [1..Cardinality(kids) -> kids] :
        /\ \A j, k \in DOMAIN order : j < k => order[j] < order[k]
        /\ todo' = [todo EXCEPT ![r] =
                      rest \o [j \in DOMAIN order |-> ChildSave(r, i, order[j])]]
  BY DEF ChildSquares
<1>. DEFINE saves == [j \in DOMAIN order |-> ChildSave(r, i, order[j])]
<1>3. todo'[r] = rest \o saves
  BY <1>2 DEF TypeOK
<1>4. Cardinality(kids) \in Nat
  BY SquaresAssumption, FS_Subset, FS_CardinalityType
<1>5. saves \in Seq(Statement)
  <2>1. saves \in [1..Cardinality(kids) -> Statement]
    BY <1>1, <1>2, ChildSaveType
  <2>. QED
    BY <1>4, <2>1, FunctionIsSeq
<1>6. /\ \A c \in kids : \E j \in DOMAIN order : order[j] = c
      /\ \A j, k \in DOMAIN order : order[j] = order[k] => j = k
      /\ \A j \in DOMAIN order : order[j] \in kids
  BY <1>2, ListsEach
<1>7. \A c \in Squares : c \in kids <=> Touches(r, i, c)
  BY <1>1 DEF Touches, Saves
<1>8. /\ DOMAIN saves = DOMAIN order
      /\ \A j \in DOMAIN saves :
           /\ saves[j].do = "save" /\ saves[j].sq = order[j]
           /\ saves[j].to = ChildSave(r, i, order[j]).to
  BY DEF ChildSave, Save
<1>. HIDE DEF i, rest, kids, saves
<1>9. /\ 1 \in DOMAIN todo[r]
      /\ \A j \in DOMAIN rest : j \in Nat /\ j >= 1 /\ j + 1 \in DOMAIN todo[r] /\ rest[j] = todo[r][j+1]
      /\ \A j \in DOMAIN todo[r] : j \in Nat /\ (j # 1 => j - 1 \in DOMAIN rest)
  BY <1>1, TailElements, TailPlaces DEF rest
<1>. PICK m \in Nat : m = Len(rest)
  BY <1>1, ConcatPlaces
<1>10. /\ \A j \in DOMAIN rest : j \in DOMAIN todo'[r] /\ todo'[r][j] = rest[j] /\ j <= m
       /\ \A j \in DOMAIN saves : /\ j \in Nat /\ m + j \in DOMAIN todo'[r]
                                  /\ todo'[r][m + j] = saves[j]
       /\ \A j \in DOMAIN todo'[r] :
            j \in DOMAIN rest \/ (j \in Nat /\ j > m /\ j - m \in DOMAIN saves)
  <2>1. \A j \in DOMAIN (rest \o saves) :
          j \in DOMAIN rest \/ (j \in Nat /\ j > Len(rest) /\ j - Len(rest) \in DOMAIN saves)
    BY <1>1, <1>5, ConcatElements
  <2>0. rest \in Seq(Statement) /\ saves \in Seq(Statement)
    BY <1>1, <1>5
  <2>2. \A j \in DOMAIN rest : /\ j \in DOMAIN (rest \o saves) /\ (rest \o saves)[j] = rest[j]
                              /\ j \in Nat /\ j <= Len(rest)
    BY <2>0, ConcatPlaces
  <2>4. \A j \in DOMAIN saves : /\ j \in Nat /\ Len(rest) + j \in DOMAIN (rest \o saves)
                               /\ (rest \o saves)[Len(rest) + j] = saves[j]
    BY <2>0, ConcatPlaces
  <2>. DEFINE p == rest \o saves
  <2>3. /\ \A j \in DOMAIN rest : j \in DOMAIN p /\ p[j] = rest[j] /\ j <= m
        /\ \A j \in DOMAIN saves : j \in Nat /\ m + j \in DOMAIN p /\ p[m + j] = saves[j]
        /\ \A j \in DOMAIN p : j \in DOMAIN rest \/ (j \in Nat /\ j > m /\ j - m \in DOMAIN saves)
    BY <2>1, <2>2, <2>4, Zenon
  <2>. HIDE DEF p
  <2>. QED
    BY <1>3, <2>3 DEF p
<1>11. \A c \in Squares : Read(r, c)' = Read(r, c)
  BY <1>1 DEF Read
<1>12. ASSUME NEW j \in DOMAIN rest, NEW c \in Squares
       PROVE  /\ Touches(r, todo[r][j], c)' <=> Touches(r, todo[r][j+1], c)
              /\ ImageOf(r, todo[r][j], c)' = ImageOf(r, todo[r][j+1], c)
  BY <1>1, <1>9, <1>10, <1>11 DEF Touches, ImageOf, Saves, ChildSave
<1>13. ASSUME NEW j \in DOMAIN saves, NEW c \in Squares
       PROVE  Touches(r, todo[r][m + j], c)' <=> c = order[j]
  <2>1. PICK x : x = saves[j]
    OBVIOUS
  <2>2. todo'[r][m + j] = x /\ x.do = "save" /\ x.sq = order[j]
    BY <1>8, <1>10, <2>1
  <2>. QED
    BY <2>2 DEF Touches, Saves
<1>14. ASSUME NEW c \in kids PROVE WillBe(r, c, T[c])'
  <2>1. c \in Squares /\ Touches(r, i, c)
    BY <1>7 DEF kids
  <2>2. PICK j \in DOMAIN todo[r] :
          /\ \A k \in DOMAIN todo[r] : Touches(r, todo[r][k], c) <=> k = j
          /\ T[c] = Updated(Read(r, c), ImageOf(r, todo[r][j], c))
    BY <1>1, <1>9, <2>1 DEF WillBe, LeadsTo
  <2>3. j = 1
    BY <1>1, <1>9, <2>1, <2>2
  <2>4. T[c] = Updated(Read(r, c), ChildSave(r, i, c).to)
    BY <1>1, <2>2, <2>3 DEF ImageOf, Saves
  <2>5. PICK n \in DOMAIN saves : order[n] = c /\ n \in Nat /\ n >= 1
    BY <1>4, <1>6, <1>8
  <2>6. \A k \in DOMAIN rest : ~Touches(r, todo[r][k], c)'
    BY <1>9, <1>12, <2>1, <2>2, <2>3
  <2>7. ASSUME NEW k \in DOMAIN todo'[r]
        PROVE  Touches(r, todo[r][k], c)' <=> k = m + n
    <3>1. CASE k \in DOMAIN rest
      BY <1>10, <2>5, <2>6, <3>1
    <3>2. CASE k \in Nat /\ k > m /\ k - m \in DOMAIN saves
      <4>. DEFINE l == k - m
      <4>1. l \in DOMAIN saves /\ k = m + l /\ l \in Nat
        BY <1>10, <3>2
      <4>. HIDE DEF l
      <4>2. Touches(r, todo[r][m + l], c)' <=> c = order[l]
        BY <1>13, <2>1, <4>1
      <4>3. c = order[l] <=> l = n
        BY <1>6, <1>8, <2>5, <4>1
      <4>4. n \in Nat
        BY <1>10
      <4>. QED
        BY <1>10, <4>1, <4>2, <4>3, <4>4
    <3>. QED
      BY <1>10, <3>1, <3>2
  <2>8. ImageOf(r, todo[r][m + n], c)' = ChildSave(r, i, c).to
    <3>1. PICK x : x = saves[n]
      OBVIOUS
    <3>2. todo'[r][m + n] = x /\ x.do = "save" /\ x.to = ChildSave(r, i, c).to
      BY <1>8, <1>10, <2>5, <3>1
    <3>. QED
      BY <3>2 DEF ImageOf, Saves
  <2>9. m + n \in DOMAIN todo'[r]
    BY <1>10
  <2>10. T[c] = Updated(Read(r, c), ImageOf(r, todo[r][m + n], c))'
    BY <1>11, <2>1, <2>4, <2>8 DEF Updated
  <2>. QED
    BY <2>7, <2>9, <2>10 DEF WillBe
<1>15. ASSUME NEW c \in Squares, c \notin kids PROVE WillBe(r, c, T[c])'
  <2>1. ~Touches(r, i, c)
    BY <1>7, <1>15
  <2>2. \A n \in DOMAIN saves : ~Touches(r, todo[r][m + n], c)'
    BY <1>6, <1>8, <1>13, <1>15
  <2>3. ASSUME NEW k \in DOMAIN todo'[r], k \notin DOMAIN rest PROVE ~Touches(r, todo[r][k], c)'
    <3>. DEFINE l == k - m
    <3>1. l \in DOMAIN saves /\ k = m + l
      BY <1>10, <2>3
    <3>. HIDE DEF l
    <3>. QED
      BY <2>2, <3>1
  <2>4. CASE \A j \in DOMAIN todo[r] : ~Touches(r, todo[r][j], c)
    <3>1. T[c] = Read(r, c)'
      BY <1>11, <2>4 DEF WillBe, LeadsTo
    <3>2. \A k \in DOMAIN rest : ~Touches(r, todo[r][k], c)'
      BY <1>9, <1>12, <2>4
    <3>. QED
      BY <2>3, <3>1, <3>2 DEF WillBe
  <2>5. ASSUME NEW j \in DOMAIN todo[r],
               \A k \in DOMAIN todo[r] : Touches(r, todo[r][k], c) <=> k = j,
               T[c] = Updated(Read(r, c), ImageOf(r, todo[r][j], c))
        PROVE  WillBe(r, c, T[c])'
    <3>1. j # 1 /\ j - 1 \in DOMAIN rest /\ j \in Nat
      BY <1>1, <1>9, <2>1, <2>5
    <3>2. \A k \in DOMAIN rest : Touches(r, todo[r][k], c)' <=> k = j - 1
      BY <1>9, <1>12, <2>5, <3>1
    <3>3. ImageOf(r, todo[r][j-1], c)' = ImageOf(r, todo[r][j], c)
      BY <1>12, <3>1
    <3>4. T[c] = Updated(Read(r, c), ImageOf(r, todo[r][j-1], c))'
      BY <1>11, <2>5, <3>3 DEF Updated
    <3>5. j - 1 \in DOMAIN todo'[r] /\ \A k \in DOMAIN todo'[r] : Touches(r, todo[r][k], c)' <=> k = j - 1
      BY <1>10, <2>3, <3>1, <3>2
    <3>. QED
      BY <3>4, <3>5 DEF WillBe
  <2>. QED
    BY <2>4, <2>5 DEF WillBe, LeadsTo
<1>16. LinksNone(todo'[r])
  <2>1. \A j \in DOMAIN rest : rest[j].do # "link"
    BY <1>9 DEF LinksNone, LeadsTo
  <2>. QED
    BY <1>3, <1>5, <1>8, <1>10, <2>1, ConcatElements, <1>1 DEF LinksNone
<1>. QED
  BY <1>14, <1>15, <1>16 DEF LeadsTo

\* Nothing else has happened to it, and no statement links a square.
LEMMA FamilyGoesOn ==
  ASSUME TypeOK, PhaseInv, NEW r \in Requests, Proceeds(r), FamilyTx(r)
  PROVE  FamilyTx(r)'
<1>1. PICK T : Families(T) /\ LeadsTo(r, T)
  BY DEF FamilyTx
<1>2. ~SetParentSquare(r)
  <2>1. Next1(r).do # "link"
    BY <1>1, NextElements DEF LeadsTo, LinksNone
  <2>. QED
    BY <2>1 DEF SetParentSquare, Doing
<1>3. LeadsTo(r, T)'
  BY <1>1, <1>2, SelectLeads, UpdateLeads, ChildSquaresLeads DEF Proceeds
<1>4. Families(T)'
  BY <1>1
<1>. QED
  BY <1>1, <1>3 DEF FamilyTx, Families

\* Its commit leaves the families intact.
LEMMA FamilyCommits ==
  ASSUME TypeOK, NEW r \in Requests, FamilyTx(r), Commit(r)
  PROVE  Families(rows')
<1>1. PICK T : Families(T) /\ LeadsTo(r, T)
  BY DEF FamilyTx
<1>2. todo[r] = <<>> /\ rows' = [s \in Squares |-> Read(r, s)]
  BY DEF Commit
<1>3. \A c \in Squares : rows'[c] = T[c] /\ rows'[c].parent \in Squares \cup {None}
  <2>1. DOMAIN todo[r] = {}
    BY <1>2
  <2>2. \A c \in Squares : T[c] = Read(r, c) /\ Read(r, c) \in Row
    BY <1>1, <2>1, ReadType DEF WillBe, LeadsTo
  <2>. QED
    BY <1>2, <2>2 DEF Row
<1>. QED
  BY <1>1, <1>3, NoneAssumption DEF Families

-----------------------------------------------------------------------------
\* What handlers set out to do leaves the families intact.

\* Freeing whole families, or secondaries alone.
LEMMA FamiliesFreed ==
  ASSUME TypeOK, Families(rows), NEW freed, NEW T,
         \A c \in Squares : T[c] = IF c \in freed THEN EmptyRow ELSE rows[c],
         \A c \in Squares : c \notin freed /\ rows[c].parent # None => rows[c].parent \notin freed
  PROVE  Families(T)
<1>1. \A c \in Squares : rows[c].parent \in Squares \cup {None}
  BY DEF TypeOK, Row
<1>2. ASSUME NEW c \in Squares, T[c].parent # None
      PROVE  /\ T[T[c].parent].state # "unclaimed"
             /\ T[T[c].parent].parent = None
             /\ T[T[c].parent].owner = T[c].owner
             /\ T[T[c].parent].claimant = T[c].claimant
             /\ \A d \in Squares : T[d].parent = T[c].parent => d = c
  <2>1. c \notin freed /\ T[c] = rows[c] /\ rows[c].parent \in Squares
    BY <1>1, <1>2 DEF EmptyRow
  <2>2. T[rows[c].parent] = rows[rows[c].parent]
    BY <1>2, <2>1, NoneAssumption
  <2>3. \A d \in Squares : T[d].parent = rows[c].parent => rows[d].parent = rows[c].parent
    BY <1>2, <2>1 DEF EmptyRow
  <2>. QED
    BY <2>1, <2>2, <2>3, NoneAssumption DEF Families
<1>3. ~Roll100 => \A c \in Squares : T[c].parent = None
  BY DEF Families, EmptyRow
<1>. QED
  BY <1>2, <1>3 DEF Families

\* A square that goes on as it was, but for its state, or that is taken alone.
LEMMA FamiliesRestated ==
  ASSUME TypeOK, DataInv, Families(rows), NEW s \in Squares, NEW T,
         \A c \in Squares : c # s => T[c] = rows[c],
         T[s].state # "unclaimed", T[s].parent = rows[s].parent,
         rows[s].state # "unclaimed" => T[s].owner = rows[s].owner /\ T[s].claimant = rows[s].claimant
  PROVE  Families(T)
<1>1. \A c \in Squares : rows[c].parent \in Squares \cup {None} /\ ConsistentRow(rows[c])
  BY DEF TypeOK, Row, DataInv
<1>2. \A c \in Squares : T[c].parent = rows[c].parent
  OBVIOUS
<1>3. ASSUME NEW c \in Squares, rows[c].parent # None
      PROVE  /\ T[rows[c].parent].state # "unclaimed"
             /\ T[rows[c].parent].owner = T[c].owner
             /\ T[rows[c].parent].claimant = T[c].claimant
  <2>. DEFINE p == rows[c].parent
  <2>1. /\ p \in Squares /\ rows[p].state # "unclaimed" /\ rows[c].state # "unclaimed"
        /\ rows[p].owner = rows[c].owner /\ rows[p].claimant = rows[c].claimant
    BY <1>1, <1>3 DEF Families, ConsistentRow, EmptyRow
  <2>. HIDE DEF p
  <2>2. /\ T[p].state # "unclaimed"
        /\ T[p].owner = rows[p].owner /\ T[p].claimant = rows[p].claimant
        /\ T[c].owner = rows[c].owner /\ T[c].claimant = rows[c].claimant
    BY <2>1
  <2>. QED
    BY <2>1, <2>2 DEF p
<1>. QED
  BY <1>1, <1>2, <1>3 DEF Families

\* A primary and its secondary under a new name.
LEMMA FamiliesRenamed ==
  ASSUME TypeOK, DataInv, Families(rows), NEW s \in Squares, NEW n, NEW T,
         rows[s].parent = None, rows[s].state # "unclaimed",
         \A c \in Squares :
           T[c] = IF c = s \/ rows[c].parent = s THEN [rows[c] EXCEPT !.claimant = n] ELSE rows[c]
  PROVE  Families(T)
<1>1. \A c \in Squares : rows[c].parent \in Squares \cup {None} /\ rows[c] \in Row
  BY DEF TypeOK, Row
<1>2. \A c \in Squares : /\ T[c].parent = rows[c].parent /\ T[c].state = rows[c].state
                         /\ T[c].owner = rows[c].owner
                         /\ T[c].claimant = IF c = s \/ rows[c].parent = s THEN n ELSE rows[c].claimant
  BY <1>1 DEF Row
<1>3. ASSUME NEW c \in Squares, rows[c].parent # None
      PROVE  T[rows[c].parent].claimant = T[c].claimant
  <2>. DEFINE p == rows[c].parent
  <2>1. p \in Squares /\ rows[p].parent = None /\ rows[p].claimant = rows[c].claimant /\ c # s
    BY <1>1, <1>3 DEF Families
  <2>. HIDE DEF p
  <2>2. T[p].claimant = IF p = s THEN n ELSE rows[p].claimant
    BY <1>2, <2>1, NoneAssumption
  <2>. QED
    BY <1>2, <2>1, <2>2 DEF p
<1>. QED
  BY <1>1, <1>2, <1>3 DEF Families

\* A claim takes free squares, which are nobody's relatives.
LEMMA FamiliesTaken ==
  ASSUME TypeOK, Families(rows), NEW u, NEW s \in Squares, NEW n,
         \/ Board!TakeOne(u, s, n)
         \/ \E second \in Squares : Board!TakeTwo(u, s, second, n)
  PROVE  Families(rows')
<1>0. \A c \in Squares : rows[c].parent \in Squares \cup {None}
  BY DEF TypeOK, Row
<1>1. \A q \in Squares : rows[q] = Board!Free =>
        rows[q].parent = None /\ \A c \in Squares : rows[c].parent # q
  BY NoneAssumption DEF Families, Board!Free
<1>2. CASE Board!TakeOne(u, s, n)
  <2>1. /\ rows[s] = Board!Free
        /\ \A c \in Squares : rows'[c] = IF c = s THEN Board!Claim(u, n, None) ELSE rows[c]
    BY <1>2 DEF Board!TakeOne, TypeOK
  <2>. QED
    BY <1>0, <1>1, <2>1 DEF Families, Board!Claim
<1>3. ASSUME NEW second \in Squares, Board!TakeTwo(u, s, second, n) PROVE Families(rows')
  <2>1. /\ Roll100 /\ s # second /\ rows[s] = Board!Free /\ rows[second] = Board!Free
        /\ \A c \in Squares : rows'[c] = IF c = second THEN Board!Claim(u, n, s)
                                         ELSE IF c = s THEN Board!Claim(u, n, None) ELSE rows[c]
    BY <1>3 DEF Board!TakeTwo, TypeOK
  <2>2. /\ rows'[s].state = "claimed" /\ rows'[s].owner = u /\ rows'[s].claimant = n
        /\ rows'[s].parent = None
        /\ rows'[second].owner = u /\ rows'[second].claimant = n /\ rows'[second].parent = s
    BY <2>1 DEF Board!Claim
  <2>3. \A c \in Squares \ {s, second} : /\ rows'[c] = rows[c]
                                         /\ rows[c].parent # s /\ rows[c].parent # second
    BY <1>1, <2>1
  <2>4. ASSUME NEW c \in Squares, rows'[c].parent # None
        PROVE  /\ rows'[rows'[c].parent].state # "unclaimed"
               /\ rows'[rows'[c].parent].parent = None
               /\ rows'[rows'[c].parent].owner = rows'[c].owner
               /\ rows'[rows'[c].parent].claimant = rows'[c].claimant
               /\ \A d \in Squares : rows'[d].parent = rows'[c].parent => d = c
    <3>1. CASE c = second
      BY <2>1, <2>2, <2>3, <3>1, NoneAssumption
    <3>2. CASE c \notin {s, second}
      <4>. DEFINE p == rows[c].parent
      <4>1. p \in Squares \ {s, second} /\ rows'[c] = rows[c] /\ rows'[p] = rows[p]
        BY <1>0, <2>3, <2>4, <3>2
      <4>2. \A d \in Squares : rows'[d].parent = p => rows[d].parent = p
        BY <2>2, <2>3, <4>1, NoneAssumption
      <4>. QED
        BY <2>4, <4>1, <4>2 DEF Families
    <3>. QED
      BY <2>2, <2>4, <3>1, <3>2
  <2>. QED
    BY <2>1, <2>4 DEF Families
<1>. QED
  BY <1>2, <1>3

-----------------------------------------------------------------------------
\* What a program that has just been built will leave.

\* Statement i will save c, and what c will be then.
Meets(i, c) ==
  \/ Saves(i) /\ i.sq = c
  \/ i.do = "children" /\ i.sq = rows[c].parent

Makes(i, c) ==
  IF Saves(i) THEN Updated(rows[c], i.to)
  ELSE IF i.to = None THEN EmptyRow ELSE [rows[c] EXCEPT !.claimant = i.to]

LEMMA FreshLeads ==
  ASSUME TypeOK, DataInv, NEW r \in Requests, UNCHANGED <<rows, user>>,
         pend'[r] = NothingWritten,
         NEW p, todo'[r] = p, LinksNone(p),
         \A j \in DOMAIN p : p[j].do \in {"save", "children"} /\ p[j].sq # None,
         NEW T,
         \A c \in Squares :
           \/ (\A j \in DOMAIN p : ~Meets(p[j], c)) /\ T[c] = rows[c]
           \/ \E j \in DOMAIN p : /\ \A k \in DOMAIN p : Meets(p[k], c) <=> k = j
                                  /\ T[c] = Makes(p[j], c)
  PROVE  LeadsTo(r, T)'
<1>1. \A c \in Squares : Read(r, c)' = rows[c] /\ rows[c] \in Row /\ ConsistentRow(rows[c])
  BY DEF Read, NothingWritten, TypeOK, DataInv
<1>2. \A j \in DOMAIN p, c \in Squares : Touches(r, todo[r][j], c)' <=> Meets(p[j], c)
  BY <1>1 DEF Touches, Meets, Saves
<1>3. ASSUME NEW c \in Squares, NEW j \in DOMAIN p, Meets(p[j], c)
      PROVE  Updated(Read(r, c), ImageOf(r, todo[r][j], c))' = Makes(p[j], c)
  <2>. PICK i : i = p[j]
    OBVIOUS
  <2>. PICK row : row = rows[c]
    OBVIOUS
  <2>1. CASE Saves(i)
    BY <1>1, <2>1 DEF Updated, ImageOf, Makes, Saves
  <2>2. CASE ~Saves(i)
    <3>1. i.do = "children" /\ row.parent = i.sq /\ row.state # "unclaimed" /\ row \in Row
      BY <1>1, <1>3, <2>2 DEF Meets, Saves, ConsistentRow, EmptyRow
    <3>2. ImageOf(r, todo[r][j], c)' = ChildSave(r, i, c)'.to
      BY <2>2 DEF ImageOf, Saves, ChildSave
    <3>3. Read(r, c)' = row
      BY <1>1
    <3>4. CASE i.to = None
      BY <1>1, <2>2, <3>2, <3>3, <3>4 DEF ChildSave, Save, Unclaimed, Loaded, Updated, Makes
    <3>5. CASE i.to # None
      <4>1. ChildSave(r, i, c)'.to = [Loaded(row) EXCEPT !.claimant = i.to]
        BY <3>3, <3>5 DEF ChildSave, Save
      <4>2. Updated(row, [Loaded(row) EXCEPT !.claimant = i.to]) = [row EXCEPT !.claimant = i.to]
        BY <3>1 DEF Updated, Loaded, Row
      <4>. QED
        BY <2>2, <3>2, <3>3, <3>5, <4>1, <4>2 DEF Makes, Updated
    <3>. QED
      BY <3>4, <3>5
  <2>. QED
    BY <2>1, <2>2
<1>4. \A c \in Squares : WillBe(r, c, T[c])'
  <2>. SUFFICES ASSUME NEW c \in Squares PROVE WillBe(r, c, T[c])'
    OBVIOUS
  <2>1. CASE (\A j \in DOMAIN p : ~Meets(p[j], c)) /\ T[c] = rows[c]
    BY <1>1, <1>2, <2>1 DEF WillBe
  <2>2. ASSUME NEW j \in DOMAIN p, \A k \in DOMAIN p : Meets(p[k], c) <=> k = j,
               T[c] = Makes(p[j], c)
        PROVE  WillBe(r, c, T[c])'
    <3>1. T[c] = Updated(Read(r, c), ImageOf(r, todo[r][j], c))'
      BY <1>3, <2>2
    <3>. QED
      BY <1>2, <2>2, <3>1 DEF WillBe
  <2>. QED
    BY <2>1, <2>2
<1>. QED
  BY <1>4 DEF LeadsTo, LinksNone

\* One save.
LEMMA SaveLeads ==
  ASSUME TypeOK, DataInv, NEW r \in Requests, UNCHANGED <<rows, user>>,
         pend'[r] = NothingWritten,
         NEW s \in Squares, NEW to, NEW mgr, todo'[r] = <<Save(s, to, mgr)>>,
         NEW T, T[s] = Updated(rows[s], to), \A c \in Squares \ {s} : T[c] = rows[c]
  PROVE  LeadsTo(r, T)'
<1>. PICK a : a = Save(s, to, mgr)
  OBVIOUS
<1>. PICK p : p = <<a>>
  OBVIOUS
<1>1. a.do = "save" /\ a.sq = s /\ a.to = to /\ s # None
  BY NoneAssumption DEF Save
<1>2. DOMAIN p = {1} /\ p[1] = a /\ todo'[r] = p
  OBVIOUS
<1>3. \A c \in Squares : Meets(a, c) <=> c = s
  BY <1>1 DEF Meets, Saves
<1>4. Makes(a, s) = T[s]
  BY <1>1 DEF Makes, Saves
<1>. HIDE DEF Meets, Makes
<1>5. \A c \in Squares :
        \/ (\A j \in DOMAIN p : ~Meets(p[j], c)) /\ T[c] = rows[c]
        \/ \E j \in DOMAIN p : /\ \A k \in DOMAIN p : Meets(p[k], c) <=> k = j
                               /\ T[c] = Makes(p[j], c)
  BY <1>2, <1>3, <1>4
<1>6. LinksNone(p) /\ \A j \in DOMAIN p : p[j].do \in {"save", "children"} /\ p[j].sq # None
  BY <1>1, <1>2 DEF LinksNone
<1>. QED
  BY <1>2, <1>5, <1>6, FreshLeads

\* A save and a change of the children, in either order.
LEMMA SaveAndChildrenLead ==
  ASSUME TypeOK, DataInv, NEW r \in Requests, UNCHANGED <<rows, user>>,
         pend'[r] = NothingWritten,
         NEW s \in Squares, rows[s].parent # s, NEW to, NEW mgr, NEW change,
         NEW p, todo'[r] = p,
         \/ p = <<Save(s, to, mgr), Children(s, change, mgr)>>
         \/ p = <<Children(s, change, mgr), Save(s, to, mgr)>>,
         NEW T, T[s] = Updated(rows[s], to),
         \A c \in Squares \ {s} :
           T[c] = IF rows[c].parent = s THEN Makes(Children(s, change, mgr), c) ELSE rows[c]
  PROVE  LeadsTo(r, T)'
<1>0. PICK a, b : a = Save(s, to, mgr) /\ b = Children(s, change, mgr)
  OBVIOUS
<1>1. /\ a.do = "save" /\ a.sq = s /\ a.to = to /\ s # None
      /\ b.do = "children" /\ b.sq = s /\ b.to = change
  BY <1>0, NoneAssumption DEF Save, Children
<1>2. /\ DOMAIN p = {1, 2}
      /\ (p[1] = a /\ p[2] = b) \/ (p[1] = b /\ p[2] = a)
  BY <1>0
<1>3. \A c \in Squares : /\ Meets(a, c) <=> c = s
                         /\ Meets(b, c) <=> c # s /\ rows[c].parent = s
  BY <1>1 DEF Meets, Saves
<1>4. /\ Makes(a, s) = T[s]
      /\ \A c \in Squares : c # s /\ rows[c].parent = s => Makes(b, c) = T[c]
  BY <1>0, <1>1 DEF Makes, Saves
<1>5. ASSUME NEW c \in Squares
      PROVE  \/ (\A j \in DOMAIN p : ~Meets(p[j], c)) /\ T[c] = rows[c]
             \/ \E j \in DOMAIN p : /\ \A k \in DOMAIN p : Meets(p[k], c) <=> k = j
                                    /\ T[c] = Makes(p[j], c)
  <2>1. CASE c = s
    BY <1>2, <1>3, <1>4, <2>1
  <2>2. CASE c # s /\ rows[c].parent = s
    BY <1>2, <1>3, <1>4, <2>2
  <2>3. CASE c # s /\ rows[c].parent # s
    <3>1. T[c] = rows[c]
      BY <2>3
    <3>2. ~Meets(a, c) /\ ~Meets(b, c)
      BY <1>3, <2>3
    <3>3. \A j \in DOMAIN p : p[j] = a \/ p[j] = b
      BY <1>2
    <3>. QED
      BY <3>1, <3>2, <3>3
  <2>. QED
    BY <2>1, <2>2, <2>3
<1>6. LinksNone(p) /\ \A j \in DOMAIN p : p[j].do \in {"save", "children"} /\ p[j].sq # None
  BY <1>1, <1>2 DEF LinksNone
<1>. QED
  BY <1>5, <1>6, FreshLeads

\* A secondary, which has no children, and its primary.
LEMMA BothUnclaimedLead ==
  ASSUME TypeOK, DataInv, NEW r \in Requests, UNCHANGED <<rows, user>>,
         pend'[r] = NothingWritten,
         NEW s \in Squares, NEW q \in Squares, s # q,
         NEW to, to.state = "unclaimed", NEW mgr,
         \A c \in Squares : rows[c].parent # s,
         NEW p, todo'[r] = p, DOMAIN p = {1, 2, 3},
         p[1] = Children(s, None, mgr), p[2] = Save(s, to, mgr),
         p[3] = Save(q, to, mgr),
         NEW T, \A c \in Squares : T[c] = IF c \in {s, q} THEN EmptyRow ELSE rows[c]
  PROVE  LeadsTo(r, T)'
<1>0. PICK a, b, d : /\ a = Children(s, None, mgr) /\ b = Save(s, to, mgr)
                     /\ d = Save(q, to, mgr)
  OBVIOUS
<1>1. /\ a.do = "children" /\ a.sq = s /\ s # None /\ q # None
      /\ b.do = "save" /\ b.sq = s /\ b.to.state = "unclaimed"
      /\ d.do = "save" /\ d.sq = q /\ d.to.state = "unclaimed"
  BY <1>0, NoneAssumption DEF Save, Children
<1>2. DOMAIN p = {1, 2, 3} /\ p[1] = a /\ p[2] = b /\ p[3] = d
  BY <1>0
<1>3. \A c \in Squares : /\ ~Meets(a, c)
                         /\ Meets(b, c) <=> c = s
                         /\ Meets(d, c) <=> c = q
  BY <1>1 DEF Meets, Saves
<1>4. Makes(b, s) = T[s] /\ Makes(d, q) = T[q]
  BY <1>1 DEF Makes, Saves, Updated
<1>5. ASSUME NEW c \in Squares
      PROVE  \/ (\A j \in DOMAIN p : ~Meets(p[j], c)) /\ T[c] = rows[c]
             \/ \E j \in DOMAIN p : /\ \A k \in DOMAIN p : Meets(p[k], c) <=> k = j
                                    /\ T[c] = Makes(p[j], c)
  <2>1. CASE c = s
    BY <1>2, <1>3, <1>4, <2>1
  <2>2. CASE c = q
    BY <1>2, <1>3, <1>4, <2>2
  <2>3. CASE c \notin {s, q}
    <3>1. T[c] = rows[c]
      BY <2>3
    <3>2. ~Meets(a, c) /\ ~Meets(b, c) /\ ~Meets(d, c)
      BY <1>3, <2>3
    <3>3. \A j \in DOMAIN p : p[j] = a \/ p[j] = b \/ p[j] = d
      BY <1>2
    <3>. QED
      BY <3>1, <3>2, <3>3
  <2>. QED
    BY <2>1, <2>2, <2>3
<1>6. LinksNone(p) /\ \A j \in DOMAIN p : p[j].do \in {"save", "children"} /\ p[j].sq # None
  BY <1>1, <1>2 DEF LinksNone
<1>7. \A c \in Squares :
        \/ (\A j \in DOMAIN p : ~Meets(p[j], c)) /\ T[c] = rows[c]
        \/ \E j \in DOMAIN p : /\ \A k \in DOMAIN p : Meets(p[k], c) <=> k = j
                               /\ T[c] = Makes(p[j], c)
  BY <1>5
<1>. HIDE DEF Meets, Makes
<1>. QED
  BY <1>6, <1>7, FreshLeads

-----------------------------------------------------------------------------
\* Every handler sets out for rows whose families are intact.

LEMMA ThreeStatements ==
  \A a, b, c : \E p : /\ p = <<a, b>> \o <<c>>
                      /\ DOMAIN p = {1, 2, 3} /\ p[1] = a /\ p[2] = b /\ p[3] = c
<1>. SUFFICES ASSUME NEW a, NEW b, NEW c
              PROVE  \E p : /\ p = <<a, b>> \o <<c>>
                            /\ DOMAIN p = {1, 2, 3} /\ p[1] = a /\ p[2] = b /\ p[3] = c
  OBVIOUS
<1>. DEFINE p == <<a, b>> \o <<c>>
<1>1. DOMAIN p = {1, 2, 3} /\ p[1] = a /\ p[2] = b /\ p[3] = c
  BY TwoThenOne
<1>. HIDE DEF p
<1>2. p = p /\ DOMAIN p = {1, 2, 3} /\ p[1] = a /\ p[2] = b /\ p[3] = c
  BY <1>1
<1>3. \E t : t = p /\ DOMAIN t = {1, 2, 3} /\ t[1] = a /\ t[2] = b /\ t[3] = c
  BY <1>2
<1>. QED
  BY <1>3 DEF p

\* What a transaction begins with.
LEMMA Begins ==
  ASSUME TypeOK, PhaseInv, NEW r \in Requests, pc[r] # "tx", NEW p, BeginTx(r, p)
  PROVE  UNCHANGED <<rows, user>> /\ pend'[r] = NothingWritten /\ todo'[r] = p
BY DEF BeginTx, TypeOK, PhaseInv

\* What the rows say of relatives.
LEMMA Relatives ==
  ASSUME TypeOK, DataInv, Families(rows)
  PROVE  \A c \in Squares :
           /\ rows[c] \in Row /\ ConsistentRow(rows[c])
           /\ rows[c].parent \in Squares \cup {None}
           /\ rows[c].parent # c
           /\ rows[c].parent # None => /\ rows[rows[c].parent].parent = None
                                       /\ rows[rows[c].parent].state # "unclaimed"
                                       /\ rows[c].state # "unclaimed"
                                       /\ \A d \in Squares : rows[d].parent # c
                                       /\ \A d \in Squares : rows[d].parent = rows[c].parent => d = c
<1>1. \A c \in Squares : rows[c] \in Row /\ rows[c].parent \in Squares \cup {None}
  BY DEF TypeOK, Row
<1>2. \A c \in Squares : ConsistentRow(rows[c])
  BY DEF DataInv
<1>3. \A c \in Squares : rows[c].parent # None => rows[rows[c].parent].parent = None
  BY DEF Families
<1>4. \A c \in Squares : rows[c].parent # None => rows[c].state # "unclaimed"
  BY <1>2 DEF ConsistentRow, EmptyRow
<1>. QED
  BY <1>1, <1>2, <1>3, <1>4, NoneAssumption DEF Families

LEMMA FamilyStarts ==
  ASSUME NEW r \in Requests, NEW T, Families(T), LeadsTo(r, T)'
  PROVE  FamilyTx(r)'
<1>1. Families(T)'
  OBVIOUS
<1>. QED
  BY <1>1 DEF FamilyTx, Families

LEMMA RenameFamilies ==
  ASSUME TypeOK, PhaseInv, DataInv, Families(rows), NEW r \in Requests,
         NEW s \in Squares, NEW n \in Names, Rename(r, s, n)
  PROVE  FamilyTx(r)'
<1>0. PICK to, mgr : to = [Loaded(rows[s]) EXCEPT !.claimant = n] /\ mgr = TRUE
  OBVIOUS
<1>p. PICK p : p = <<Save(s, to, mgr), Children(s, n, mgr)>>
  OBVIOUS
<1>1. rows[s].parent = None /\ BeginTx(r, p) /\ pc[r] # "tx"
  BY <1>0, <1>p DEF Rename, MayEdit
<1>2. UNCHANGED <<rows, user>> /\ pend'[r] = NothingWritten /\ todo'[r] = p
  BY <1>1, Begins
<1>t. PICK T : T = [c \in Squares |->
                     IF c = s THEN Updated(rows[s], to)
                     ELSE IF rows[c].parent = s THEN [rows[c] EXCEPT !.claimant = n] ELSE rows[c]]
  OBVIOUS
<1>3. LeadsTo(r, T)'
  <2>1. rows[s].parent # s /\ n # None
    BY <1>1, NoneAssumption
  <2>2. /\ T[s] = Updated(rows[s], to)
        /\ \A c \in Squares \ {s} :
             T[c] = IF rows[c].parent = s THEN Makes(Children(s, n, mgr), c) ELSE rows[c]
    BY <1>t, <2>1 DEF Makes, Saves, Children
  <2>3. \/ p = <<Save(s, to, mgr), Children(s, n, mgr)>>
        \/ p = <<Children(s, n, mgr), Save(s, to, mgr)>>
    BY <1>p
  <2>. QED
    BY <1>2, <2>1, <2>2, <2>3, SaveAndChildrenLead
<1>4. Families(T)
  <2>1. rows[s] \in Row
    BY Relatives
  <2>2. CASE rows[s].state = "unclaimed"
    <3>1. Updated(rows[s], to) = EmptyRow
      BY <1>0, <2>2 DEF Updated, Loaded
    <3>2. \A c \in Squares : rows[c].parent # s
      BY <2>2, Relatives, NoneAssumption
    <3>3. \A c \in Squares : T[c] = IF c \in {s} THEN EmptyRow ELSE rows[c]
      BY <1>t, <3>1, <3>2
    <3>. QED
      BY <3>2, <3>3, FamiliesFreed
  <2>3. CASE rows[s].state # "unclaimed"
    <3>1. Updated(rows[s], to) = [rows[s] EXCEPT !.claimant = n]
      BY <1>0, <2>1, <2>3 DEF Updated, Loaded, Row
    <3>2. \A c \in Squares : T[c] = IF c = s \/ rows[c].parent = s
                                    THEN [rows[c] EXCEPT !.claimant = n] ELSE rows[c]
      BY <1>t, <3>1
    <3>. QED
      BY <1>1, <2>3, <3>2, FamiliesRenamed
  <2>. QED
    BY <2>2, <2>3
<1>. QED
  BY <1>3, <1>4, FamilyStarts

\* A square goes with its children, whoever frees it.
LEMMA FreedWithChildren ==
  ASSUME TypeOK, PhaseInv, DataInv, Families(rows), NEW r \in Requests, pc[r] # "tx",
         NEW s \in Squares, NEW to, to.state = "unclaimed", NEW mgr,
         NEW p, BeginTx(r, p),
         \/ p = <<Save(s, to, mgr), Children(s, None, mgr)>>
         \/ p = <<Children(s, None, mgr), Save(s, to, mgr)>>
  PROVE  FamilyTx(r)'
<1>1. UNCHANGED <<rows, user>> /\ pend'[r] = NothingWritten /\ todo'[r] = p
  BY Begins
<1>. PICK freed : freed = {c \in Squares : c = s \/ rows[c].parent = s}
  OBVIOUS
<1>. PICK T : T = [c \in Squares |-> IF c \in freed THEN EmptyRow ELSE rows[c]]
  OBVIOUS
<1>2. LeadsTo(r, T)'
  <2>1. rows[s].parent # s
    BY Relatives
  <2>2. /\ T[s] = Updated(rows[s], to)
        /\ \A c \in Squares \ {s} :
             T[c] = IF rows[c].parent = s THEN Makes(Children(s, None, mgr), c) ELSE rows[c]
    BY DEF Updated, Makes, Saves, Children
  <2>. QED
    BY <1>1, <2>1, <2>2, SaveAndChildrenLead
<1>3. ASSUME NEW c \in Squares, c \notin freed, rows[c].parent # None
      PROVE  rows[c].parent \notin freed
  BY <1>3, Relatives, NoneAssumption
<1>4. Families(T)
  BY <1>3, FamiliesFreed
<1>. QED
  BY <1>2, <1>4, FamilyStarts

LEMMA UnclaimFamilies ==
  ASSUME TypeOK, PhaseInv, DataInv, Families(rows), NEW r \in Requests,
         NEW s \in Squares, Unclaim(r, s)
  PROVE  FamilyTx(r)'
<1>1. PICK to, mgr, a, b, q :
        /\ to = Unclaimed(user[r]) /\ mgr = FALSE /\ q = rows[s].parent
        /\ a = Children(s, None, mgr) /\ b = Save(s, to, mgr)
  OBVIOUS
<1>2. pc[r] # "tx" /\ to.state = "unclaimed"
  BY <1>1 DEF Unclaim, MayEdit, Unclaimed
<1>3. CASE q = None
  <2>1. BeginTx(r, <<a, b>> \o <<>>)
    BY <1>1, <1>3 DEF Unclaim
  <2>2. <<a, b>> \o <<>> = <<a, b>>
    OBVIOUS
  <2>3. BeginTx(r, <<a, b>>)
    BY <2>1, <2>2
  <2>. QED
    BY <1>1, <1>2, <2>3, FreedWithChildren
<1>4. CASE q # None
  <2>1. q \in Squares /\ q # s /\ \A c \in Squares : rows[c].parent # s
    BY <1>1, <1>4, Relatives
  <2>2. PICK d : d = Save(q, to, mgr)
    OBVIOUS
  <2>3. PICK p : /\ p = <<a, b>> \o <<d>>
                 /\ DOMAIN p = {1, 2, 3} /\ p[1] = a /\ p[2] = b /\ p[3] = d
    BY ThreeStatements
  <2>4. BeginTx(r, p)
    BY <1>1, <1>4, <2>2, <2>3 DEF Unclaim
  <2>5. UNCHANGED <<rows, user>> /\ pend'[r] = NothingWritten /\ todo'[r] = p
    BY <1>2, <2>4, Begins
  <2>6. PICK T : T = [c \in Squares |-> IF c \in {s, q} THEN EmptyRow ELSE rows[c]]
    OBVIOUS
  <2>7. \A c \in Squares : T[c] = IF c \in {s, q} THEN EmptyRow ELSE rows[c]
    BY <2>6
  <2>8. LeadsTo(r, T)'
    <3>1. /\ DOMAIN p = {1, 2, 3} /\ p[1] = Children(s, None, mgr)
          /\ p[2] = Save(s, to, mgr) /\ p[3] = Save(q, to, mgr)
      BY <1>1, <2>2, <2>3
    <3>. QED
      BY <1>2, <2>1, <2>5, <2>7, <3>1, BothUnclaimedLead
  <2>9. ASSUME NEW c \in Squares, c \notin {s, q}, rows[c].parent # None
        PROVE  rows[c].parent \notin {s, q}
    BY <1>1, <1>4, <2>1, <2>9, Relatives
  <2>10. Families(T)
    BY <2>7, <2>9, FamiliesFreed
  <2>. QED
    BY <2>8, <2>10, FamilyStarts
<1>. QED
  BY <1>3, <1>4

\* A square saved alone, taken or as it is but for its state.
LEMMA RestatedAlone ==
  ASSUME TypeOK, PhaseInv, DataInv, Families(rows), NEW r \in Requests, pc[r] # "tx",
         NEW s \in Squares, NEW to, to.state # "unclaimed", NEW mgr,
         rows[s].state # "unclaimed" =>
           to.owner = rows[s].owner /\ to.claimant = rows[s].claimant,
         NEW p, BeginTx(r, p), p = <<Save(s, to, mgr)>>
  PROVE  FamilyTx(r)'
<1>1. UNCHANGED <<rows, user>> /\ pend'[r] = NothingWritten /\ todo'[r] = p
  BY Begins
<1>2. PICK T : T = [c \in Squares |-> IF c = s THEN Updated(rows[s], to) ELSE rows[c]]
  OBVIOUS
<1>3. T[s] = Updated(rows[s], to) /\ \A c \in Squares \ {s} : T[c] = rows[c]
  BY <1>2
<1>4. LeadsTo(r, T)'
  BY <1>1, <1>3, SaveLeads
<1>5. /\ T[s].state # "unclaimed" /\ T[s].parent = rows[s].parent
      /\ rows[s].state # "unclaimed" =>
           T[s].owner = rows[s].owner /\ T[s].claimant = rows[s].claimant
  BY <1>3 DEF Updated
<1>6. Families(T)
  BY <1>3, <1>5, FamiliesRestated
<1>. QED
  BY <1>4, <1>6, FamilyStarts

\* Without roll squares a square is freed alone.
LEMMA FreedAlone ==
  ASSUME TypeOK, PhaseInv, DataInv, Families(rows), ~Roll100, NEW r \in Requests, pc[r] # "tx",
         NEW s \in Squares, NEW to, to.state = "unclaimed", NEW mgr,
         NEW p, BeginTx(r, p), p = <<Save(s, to, mgr)>>
  PROVE  FamilyTx(r)'
<1>1. UNCHANGED <<rows, user>> /\ pend'[r] = NothingWritten /\ todo'[r] = p
  BY Begins
<1>2. PICK T : T = [c \in Squares |-> IF c \in {s} THEN EmptyRow ELSE rows[c]]
  OBVIOUS
<1>3. T[s] = Updated(rows[s], to) /\ \A c \in Squares \ {s} : T[c] = rows[c]
  BY <1>2 DEF Updated
<1>4. LeadsTo(r, T)'
  BY <1>1, <1>3, SaveLeads
<1>5. \A c \in Squares : rows[c].parent = None
  BY DEF Families
<1>6. Families(T)
  BY <1>2, <1>5, FamiliesFreed
<1>. QED
  BY <1>4, <1>6, FamilyStarts

LEMMA ManageFamilies ==
  ASSUME TypeOK, PhaseInv, DataInv, Families(rows), NEW r \in Requests,
         NEW s \in Squares, NEW st, Manage(r, s, st)
  PROVE  FamilyTx(r)'
<1>1. PICK new, to, mgr, a, b :
        /\ new = (IF st = None THEN rows[s].state ELSE st)
        /\ to = [Loaded(rows[s]) EXCEPT !.state = new] /\ mgr = TRUE
        /\ a = Save(s, to, mgr) /\ b = Children(s, None, mgr)
  OBVIOUS
<1>2. /\ BeginTx(r, <<a>> \o IF new = "unclaimed" THEN <<b>> ELSE <<>>)
      /\ rows[s].state = "unclaimed" => new = "unclaimed"
      /\ pc[r] # "tx"
  BY <1>1 DEF Manage, MayEdit
<1>3. /\ to.state = new /\ to.owner = rows[s].owner /\ to.claimant = rows[s].claimant
  BY <1>1 DEF Loaded
<1>4. CASE new = "unclaimed"
  <2>1. <<a>> \o <<b>> = <<a, b>>
    BY PairsAndTriples
  <2>2. BeginTx(r, <<a, b>>)
    BY <1>2, <1>4, <2>1
  <2>3. PICK p : p = <<a, b>> /\ BeginTx(r, p)
    BY <2>2
  <2>. QED
    BY <1>1, <1>2, <1>3, <1>4, <2>3, FreedWithChildren
<1>5. CASE new # "unclaimed"
  <2>1. \A x : <<x>> \o <<>> = <<x>>
    OBVIOUS
  <2>2. BeginTx(r, <<a>>)
    BY <1>2, <1>5, <2>1
  <2>3. PICK p : p = <<a>> /\ BeginTx(r, p)
    BY <2>2
  <2>. QED
    BY <1>1, <1>2, <1>3, <1>5, <2>3, RestatedAlone
<1>. QED
  BY <1>4, <1>5

LEMMA BulkFamilies ==
  ASSUME TypeOK, PhaseInv, DataInv, Families(rows), NEW r \in Requests,
         BulkSquare(r), pc'[r] = "tx"
  PROVE  FamilyTx(r)'
<1>1. PICK s, job : s = Head(bulk[r].left) /\ job = bulk[r]
  OBVIOUS
<1>2. /\ pc[r] # "tx" /\ job \in BulkJob /\ s \in Squares
      /\ BulkAccepts(job, rows[s]) /\ BeginTx(r, BulkStatements(job, s, user[r]))
  <2>1. job \in BulkJob /\ s \in Squares /\ pc[r] # "tx"
    BY <1>1, HeadTailProperties DEF BulkSquare, TypeOK, PhaseInv, BulkJob, BulkJobsOver
  <2>2. pc' # pc
    BY <2>1
  <2>. QED
    BY <1>1, <2>1, <2>2 DEF BulkSquare
<1>3. job.act \in {"claim", "unclaim", "set_state"}
  BY <1>2 DEF BulkJob, BulkJobsOver
<1>4. PICK mgr : mgr = TRUE
  OBVIOUS
<1>5. CASE job.act = "claim"
  <2>1. PICK to : to = Claimed(user[r], job.name)
    OBVIOUS
  <2>2. PICK p : p = <<Save(s, to, mgr)>> /\ BeginTx(r, p)
    BY <1>2, <1>4, <1>5, <2>1 DEF BulkStatements
  <2>3. to.state # "unclaimed" /\ rows[s].state = "unclaimed"
    BY <1>2, <1>5, <2>1 DEF BulkAccepts, Claimed
  <2>. QED
    BY <1>2, <2>2, <2>3, RestatedAlone
<1>6. CASE job.act = "set_state"
  <2>1. PICK to : to = [Loaded(rows[s]) EXCEPT !.state = job.state]
    OBVIOUS
  <2>2. PICK p : p = <<Save(s, to, mgr)>> /\ BeginTx(r, p)
    BY <1>2, <1>4, <1>6, <2>1 DEF BulkStatements
  <2>3. job.state # "unclaimed"
    BY <1>2, <1>6 DEF BulkJob, BulkJobsOver
  <2>4. to.state # "unclaimed" /\ to.owner = rows[s].owner /\ to.claimant = rows[s].claimant
    BY <2>1, <2>3 DEF Loaded
  <2>. QED
    BY <1>2, <2>2, <2>4, RestatedAlone
<1>7. CASE job.act = "unclaim"
  <2>1. PICK to : to = [Loaded(rows[s]) EXCEPT !.state = "unclaimed"]
    OBVIOUS
  <2>2. to.state = "unclaimed"
    BY <2>1 DEF Loaded
  <2>3. PICK a, b : a = Save(s, to, mgr) /\ b = Children(s, None, mgr)
    OBVIOUS
  <2>4. BeginTx(r, <<a>> \o IF Roll100 THEN <<b>> ELSE <<>>)
    BY <1>2, <1>4, <1>7, <2>1, <2>3 DEF BulkStatements
  <2>5. CASE Roll100
    <3>1. <<a>> \o <<b>> = <<a, b>>
      BY PairsAndTriples
    <3>2. PICK p : p = <<a, b>> /\ BeginTx(r, p)
      BY <2>4, <2>5, <3>1
    <3>. QED
      BY <1>2, <2>2, <2>3, <3>2, FreedWithChildren
  <2>6. CASE ~Roll100
    <3>1. \A x : <<x>> \o <<>> = <<x>>
      OBVIOUS
    <3>2. PICK p : p = <<a>> /\ BeginTx(r, p)
      BY <2>4, <2>6, <3>1
    <3>. QED
      BY <1>2, <2>2, <2>3, <2>6, <3>2, FreedAlone
  <2>. QED
    BY <2>5, <2>6
<1>. QED
  BY <1>3, <1>5, <1>6, <1>7

LEMMA HandlerFamilies ==
  ASSUME SafetyInv, Families(rows), NEW r \in Requests, Handle(r), pc'[r] = "tx"
  PROVE  ClaimTx(r)' \/ FamilyTx(r)'
<1>1. TypeOK /\ PhaseInv /\ DataInv
  BY DEF SafetyInv
<1>2. ~Reject(r) /\ ~EndBulk(r) /\ ~(\E job : BeginBulk(r, job))
  BY <1>1 DEF Reject, EndBulk, BeginBulk, End, Answered, TypeOK
<1>3. ASSUME NEW s \in Squares, NEW n \in Names, NEW second \in Squares \cup {None},
             Claim(r, s, n, second)
      PROVE  ClaimTx(r)'
  <2>1. /\ second # None => Roll100
        /\ BeginTx(r, ClaimFrom(Save(s, Claimed(user[r], n), FALSE), user[r], n, s, second))
        /\ pc[r] # "tx"
    BY <1>3 DEF Claim, MayEdit, ClaimFrom, Further
  <2>2. /\ UNCHANGED <<rows, user>> /\ pend'[r] = NothingWritten
        /\ todo'[r] = ClaimFrom(Save(s, Claimed(user[r], n), FALSE), user[r], n, s, second)
    BY <1>1, <2>1, Begins
  <2>3. Asked(r, n, s, second)'
    BY <2>2 DEF Asked, NothingWritten
  <2>. QED
    BY <2>1, <2>3 DEF ClaimTx, Claiming
<1>. QED
  BY <1>1, <1>2, <1>3, RenameFamilies, UnclaimFamilies, ManageFamilies, BulkFamilies DEF Handle

-----------------------------------------------------------------------------
\* The invariant.

LEMMA UntouchedFamily ==
  ASSUME NEW q \in Requests, Untouched(q), UNCHANGED rows, FamilyTx(q)
  PROVE  FamilyTx(q)'
<1>1. PICK T : Families(T) /\ LeadsTo(q, T)
  BY DEF FamilyTx
<1>2. LeadsTo(q, T)'
  <2>1. \A c \in Squares : Read(q, c)' = Read(q, c)
    BY DEF Untouched, Read
  <2>2. \A j \in DOMAIN todo[q], c \in Squares :
          /\ Touches(q, todo[q][j], c)' <=> Touches(q, todo[q][j], c)
          /\ ImageOf(q, todo[q][j], c)' = ImageOf(q, todo[q][j], c)
    BY <2>1 DEF Untouched, Touches, ImageOf, Saves, ChildSave
  <2>3. LinksNone(todo[q])'
    BY <1>1 DEF Untouched, LinksNone, LeadsTo
  <2>4. ASSUME NEW c \in Squares PROVE WillBe(q, c, T[c])'
    <3>1. WillBe(q, c, T[c])
      BY <1>1 DEF LeadsTo
    <3>. QED
      BY <2>1, <2>2, <3>1 DEF Untouched, WillBe, Updated
  <2>. QED
    BY <2>3, <2>4 DEF LeadsTo
<1>. QED
  BY <1>1, <1>2, FamilyStarts

LEMMA FamilyInit == Init => FamilyInv
BY DEF Init, FamilyInv, Families, EmptyRow

LEMMA FamilyStep ==
  ASSUME OneAtATime, SafetyInv, FamilyInv, [Next]_vars
  PROVE  FamilyInv'
<1>1. TypeOK /\ PhaseInv /\ LockInv /\ DataInv
  BY DEF SafetyInv
<1>2. CASE rows' # rows
  <2>1. PICK r \in Requests : Commit(r)
    BY <1>2, RowsChangeAtCommit
  <2>2. pc[r] = "tx" /\ user[r] \in Users
    BY <1>1, <2>1 DEF Commit, PhaseInv
  <2>3. \A q \in Requests : pc'[q] # "tx"
    <3>1. pc'[r] # "tx"
      BY <1>1, <2>1 DEF Commit, Finish, End, Answered, TypeOK
    <3>. QED
      BY <3>1 DEF OneAtATime
  <2>4. Families(rows')
    <3>1. ClaimTx(r) => Families(rows')
      <4>. SUFFICES ASSUME ClaimTx(r) PROVE Families(rows')
        OBVIOUS
      <4>1. PICK s \in Squares, n \in Names :
              \/ Board!TakeOne(user[r], s, n)
              \/ \E second \in Squares : Board!TakeTwo(user[r], s, second, n)
        BY <1>1, <2>1, <2>2, ClaimCommits
      <4>2. Families(rows)
        BY DEF FamilyInv
      <4>. QED
        BY <1>1, <4>1, <4>2, FamiliesTaken
    <3>2. FamilyTx(r) => Families(rows')
      BY <1>1, <2>1, FamilyCommits
    <3>. QED
      BY <2>2, <3>1, <3>2 DEF FamilyInv
  <2>5. Families(rows)'
    BY <2>4 DEF Families
  <2>. QED
    BY <2>3, <2>5 DEF FamilyInv
<1>3. CASE rows' = rows
  <2>1. Families(rows) /\ Families(rows)'
    BY <1>3 DEF FamilyInv, Families
  <2>2. ASSUME NEW r \in Requests, pc'[r] = "tx" PROVE ClaimTx(r)' \/ FamilyTx(r)'
    <3>1. CASE Untouched(r)
      <4>1. ClaimTx(r) \/ FamilyTx(r)
        BY <2>2, <3>1 DEF Untouched, FamilyInv
      <4>. QED
        BY <1>3, <3>1, <4>1, UntouchedClaim, UntouchedFamily
    <3>2. CASE Handle(r)
      BY <2>1, <2>2, <3>2, HandlerFamilies
    <3>3. CASE pc[r] = "tx" /\ Proceeds(r)
      <4>1. user[r] \in Users
        BY <1>1, <3>3 DEF PhaseInv
      <4>. QED
        BY <1>1, <3>3, <4>1, ClaimGoesOn, FamilyGoesOn DEF FamilyInv
    <3>. QED
      BY <2>2, <3>1, <3>2, <3>3, StepOfOne
  <2>. QED
    BY <2>1, <2>2 DEF FamilyInv
<1>. QED
  BY <1>2, <1>3

\* As long as requests do not overlap, the squares of a roll100 claim stay
\* together, whatever sequence of claims, renames, unclaims, manager's and bulk
\* requests is sent and wherever one of them fails or is given up: a secondary's
\* primary is a taken square of the same user under the same name, is no
\* secondary itself and has no other.  (postPoolTokenSquareIDEndpoint reads the
\* children in one statement and saves them in later ones: where requests
\* overlap a claim may link a square in between.)
THEOREM FamiliesStayTogether ==
  ASSUME OneAtATime PROVE Spec => []FamiliesIntact
<1>1. Init => FamilyInv
  BY FamilyInit
<1>2. SafetyInv /\ FamilyInv /\ [Next]_vars => FamilyInv'
  BY FamilyStep
<1>3. FamilyInv => FamiliesIntact
  BY DEF FamilyInv, Families, FamiliesIntact
<1>. QED
  BY <1>1, <1>2, <1>3, Safety, PTL DEF Spec
=============================================================================
