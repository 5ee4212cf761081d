-------------------------- MODULE PoolMembersProofs --------------------------
(***************************************************************************)
(* Proofs about PoolMembers, for any number of users, requests of the      *)
(* owner and invites.                                                      *)
(***************************************************************************)
EXTENDS PoolMembers, TLAPS

-----------------------------------------------------------------------------
\* Sequences of statements.

\* Each setting has statements of its own.
StageInv ==
  \A r \in Requests :
    /\ todo[r] \in {<<"find">>, <<"create">>} => setting[r] = "invite"
    /\ todo[r] \in {<<"save", "remove">>, <<"remove">>} => setting[r] = "resetMembership"
    /\ todo[r] = <<"save">> => setting[r] \in AllSettings \ {"invite", "resetMembership"}

LEMMA Heads ==
  /\ Head(<<"save">>) = "save" /\ Tail(<<"save">>) = << >> /\ Len(<<"save">>) = 1
  /\ Head(<<"save", "remove">>) = "save" /\ Tail(<<"save", "remove">>) = <<"remove">>
  /\ Len(<<"save", "remove">>) = 2
  /\ Head(<<"remove">>) = "remove" /\ Tail(<<"remove">>) = << >> /\ Len(<<"remove">>) = 1
  /\ Head(<<"find">>) = "find" /\ Tail(<<"find">>) = << >>
  /\ Head(<<"create">>) = "create" /\ Tail(<<"create">>) = << >>
OBVIOUS

LEMMA Distinct ==
  /\ <<"save">> # << >> /\ <<"remove">> # << >> /\ <<"find">> # << >>
  /\ <<"create">> # << >> /\ <<"save", "remove">> # << >>
  /\ <<"save">> # <<"remove">> /\ <<"save">> # <<"find">> /\ <<"save">> # <<"create">>
  /\ <<"save">> # <<"save", "remove">> /\ <<"remove">> # <<"save", "remove">>
  /\ <<"remove">> # <<"find">> /\ <<"remove">> # <<"create">> /\ <<"find">> # <<"create">>
  /\ <<"find">> # <<"save", "remove">> /\ <<"create">> # <<"save", "remove">>
OBVIOUS

LEMMA NextSave ==
  ASSUME TypeOK, StageInv, NEW r \in Requests, IsNext(r, "save")
  PROVE  /\ copy[r] \in PoolRow
         /\ setting[r] \in Settings \cap (AllSettings \ {"invite"})
         /\ \/ todo[r] = <<"save">> /\ Tail(todo[r]) = << >>
               /\ setting[r] # "resetMembership"
            \/ todo[r] = <<"save", "remove">> /\ Tail(todo[r]) = <<"remove">>
               /\ setting[r] = "resetMembership" /\ ~Last(r)
<1>1. todo[r] = <<"save">> \/ todo[r] = <<"save", "remove">>
  BY Heads DEF TypeOK, IsNext
<1>2. todo[r] # << >>
  BY <1>1, Distinct
<1>3. copy[r] \in PoolRow /\ setting[r] \in Settings
  BY <1>2 DEF TypeOK
<1>4. setting[r] \in AllSettings
  BY <1>3, MembersAssumption
<1>5. CASE todo[r] = <<"save">>
  BY <1>3, <1>4, <1>5, Heads DEF StageInv
<1>6. CASE todo[r] = <<"save", "remove">>
  <2>1. setting[r] = "resetMembership"
    BY <1>6 DEF StageInv
  <2>2. Tail(todo[r]) = <<"remove">> /\ Len(todo[r]) = 2
    BY <1>6, Heads
  <2>. QED
    BY <1>3, <1>4, <1>6, <2>1, <2>2 DEF Last
<1>. QED
  BY <1>1, <1>5, <1>6

LEMMA NextRemove ==
  ASSUME TypeOK, NEW r \in Requests, IsNext(r, "remove")
  PROVE  todo[r] = <<"remove">> /\ Tail(todo[r]) = << >> /\ Last(r)
BY Heads, Distinct DEF TypeOK, IsNext, Last

LEMMA NextFind ==
  ASSUME TypeOK, StageInv, NEW r \in Requests, IsNext(r, "find")
  PROVE  /\ todo[r] = <<"find">> /\ Tail(todo[r]) = << >>
         /\ copy[r] \in PoolRow /\ setting[r] = "invite"
<1>1. todo[r] = <<"find">>
  BY Heads DEF TypeOK, IsNext
<1>. QED
  BY <1>1, Heads, Distinct DEF TypeOK, StageInv

LEMMA NextCreate ==
  ASSUME TypeOK, NEW r \in Requests, IsNext(r, "create")
  PROVE  todo[r] = <<"create">> /\ Tail(todo[r]) = << >> /\ copy[r] \in PoolRow
<1>1. todo[r] = <<"create">>
  BY Heads DEF TypeOK, IsNext
<1>. QED
  BY <1>1, Heads, Distinct DEF TypeOK

\* What a request writes is a row again, and what it does to the credentials.
LEMMA AppliedType ==
  ASSUME NEW p \in PoolRow, NEW s \in AllSettings \ {"invite"}, NEW r \in Requests
  PROVE  /\ Applied(p, s, r) \in PoolRow
         /\ s \in Changes => /\ Applied(p, s, r).password = r
                             /\ Applied(p, s, r).checkID = p.checkID + 1
         /\ s \notin Changes => /\ Applied(p, s, r).password = p.password
                                /\ Applied(p, s, r).checkID = p.checkID
<1>. USE DEF PoolRow, Changes
<1>1. CASE s \in {"lock", "unlock"}
  BY <1>1 DEF Applied
<1>2. CASE s \in {"required", "notRequired"}
  BY <1>2 DEF Applied
<1>3. CASE s \in {"accessOnLock", "noAccessOnLock"}
  BY <1>3 DEF Applied
<1>4. CASE s \in Changes
  <2>1. Applied(p, s, r) = [p EXCEPT !.password = r, !.checkID = @ + 1]
    BY <1>4 DEF Applied
  <2>2. p.checkID + 1 \in Nat /\ r \in Passwords
    BY DEF Passwords
  <2>. QED
    BY <1>4, <2>1, <2>2
<1>5. CASE s = "rename"
  BY <1>5 DEF Applied
<1>. QED
  BY <1>1, <1>2, <1>3, <1>4, <1>5 DEF AllSettings

-----------------------------------------------------------------------------
\* Types.

OwnerTypes ==
  /\ setting \in [Requests -> Settings \cup {"done", None}]
  /\ todo \in [Requests -> {<< >>, <<"save">>, <<"save", "remove">>, <<"remove">>,
                            <<"find">>, <<"create">>}]
  /\ copy \in [Requests -> PoolRow \cup {None}]
  /\ \A r \in Requests :
       /\ todo[r] = << >> <=> copy[r] = None
       /\ todo[r] # << >> <=> setting[r] \in Settings

LEMMA NoneIsNoRow == \A p \in PoolRow : p # None
BY MembersAssumption

LEMMA LoadTypes ==
  ASSUME OwnerTypes, StageInv, pool \in PoolRow, NEW r \in Requests, NEW s \in Settings,
         LoadPool(r, s)
  PROVE  OwnerTypes' /\ StageInv'
<1>. DEFINE st == Statements(s)
<1>1. s \in AllSettings
  BY MembersAssumption
<1>2. /\ st \in {<<"find">>, <<"save">>, <<"save", "remove">>} /\ st # << >>
      /\ st = <<"find">> => s = "invite"
      /\ st = <<"save", "remove">> => s = "resetMembership"
      /\ st = <<"save">> => s \notin {"invite", "resetMembership"}
      /\ st # <<"create">> /\ st # <<"remove">>
  BY Distinct DEF Statements
<1>3. /\ setting' = [setting EXCEPT ![r] = s]
      /\ copy' = [copy EXCEPT ![r] = pool]
      /\ todo' = [todo EXCEPT ![r] = st]
  BY DEF LoadPool
<1>4. OwnerTypes'
  BY <1>2, <1>3, NoneIsNoRow DEF OwnerTypes
<1>5. StageInv'
  BY <1>1, <1>2, <1>3 DEF OwnerTypes, StageInv
<1>. QED
  BY <1>4, <1>5

LEMMA ProceedTypes ==
  ASSUME OwnerTypes, StageInv, NEW r \in Requests, NEW statements, Proceed(r, statements),
         \/ statements = << >>
         \/ statements = <<"remove">> /\ setting[r] = "resetMembership" /\ todo[r] # << >>
         \/ statements = <<"create">> /\ setting[r] = "invite" /\ todo[r] # << >>
  PROVE  OwnerTypes' /\ StageInv'
<1>1. todo' = [todo EXCEPT ![r] = statements]
  BY DEF Proceed
<1>2. CASE statements = << >>
  <2>1. setting' = [setting EXCEPT ![r] = "done"] /\ copy' = [copy EXCEPT ![r] = None]
    BY <1>2 DEF Proceed
  <2>2. "done" \notin Settings
    BY MembersAssumption DEF AllSettings
  <2>3. OwnerTypes'
    BY <1>1, <1>2, <2>1, <2>2, NoneIsNoRow DEF OwnerTypes
  <2>4. StageInv'
    BY <1>1, <1>2, <2>1, Distinct DEF OwnerTypes, StageInv
  <2>. QED
    BY <2>3, <2>4
<1>3. CASE statements = <<"remove">> \/ statements = <<"create">>
  <2>1. UNCHANGED <<setting, copy>> /\ statements # << >>
    BY <1>3, Distinct DEF Proceed
  <2>2. OwnerTypes'
    BY <1>1, <1>3, <2>1, NoneIsNoRow DEF OwnerTypes
  <2>3. StageInv'
    BY <1>1, <1>3, <2>1, Distinct DEF OwnerTypes, StageInv
  <2>. QED
    BY <2>2, <2>3
<1>. QED
  BY <1>2, <1>3

LEMMA OwnerTypesKept ==
  ASSUME OwnerTypes, StageInv, UNCHANGED ownerVars
  PROVE  OwnerTypes' /\ StageInv'
BY DEF OwnerTypes, StageInv, ownerVars

\* The rest of TypeOK.
OtherTypes ==
  /\ pool \in PoolRow
  /\ members \subseteq Users
  /\ invites \in [Tokens -> Nat \cup {None}]
  /\ lapsed \subseteq {t \in Tokens : invites[t] # None}
  /\ guestRow \in BOOLEAN /\ guestPast \in BOOLEAN
  /\ held \in [Users -> SUBSET (Tokens \cup Passwords)]
  /\ using \in [Users -> Credentials \cup {None}]
  /\ via \in [Users -> Credentials \cup {None}]
  /\ \A u \in Users : u \in members <=> via[u] # None
  /\ revoked \subseteq Tokens \cup Passwords /\ banned \subseteq revoked
  /\ stragglers \subseteq Users
  /\ overlapped \in BOOLEAN

LEMMA TypeParts == TypeOK <=> OwnerTypes /\ OtherTypes
BY DEF TypeOK, OwnerTypes, OtherTypes

LEMMA MembersTypeStep == TypeOK /\ StageInv /\ [Next]_vars => TypeOK' /\ StageInv'
<1>. SUFFICES ASSUME TypeOK, StageInv, [Next]_vars
              PROVE  (OwnerTypes' /\ StageInv') /\ OtherTypes'
  BY DEF TypeOK, OwnerTypes, OtherTypes
<1>t. OwnerTypes /\ OtherTypes
  BY TypeParts
<1>p. pool \in PoolRow
  BY DEF TypeOK
<1>1. ASSUME NEW r \in Requests, Owner(r)
      PROVE  (OwnerTypes' /\ StageInv') /\ OtherTypes'
  <2>1. ASSUME NEW s \in Settings, LoadPool(r, s)
        PROVE  (OwnerTypes' /\ StageInv') /\ OtherTypes'
    <3>1. OtherTypes'
      BY <1>t, <2>1 DEF LoadPool, dbVars, ghostVars, OtherTypes
    <3>. QED
      BY <1>t, <1>p, <2>1, <3>1, LoadTypes
  <2>2. CASE Save(r)
    <3>1. IsNext(r, "save") /\ Proceed(r, Tail(todo[r]))
      BY <2>2 DEF Save, Executed
    <3>2. /\ copy[r] \in PoolRow
          /\ setting[r] \in AllSettings \ {"invite"}
          /\ \/ Tail(todo[r]) = << >>
             \/ /\ Tail(todo[r]) = <<"remove">> /\ setting[r] = "resetMembership"
                /\ todo[r] # << >>
      BY <3>1, NextSave, Distinct
    <3>3. OwnerTypes' /\ StageInv'
      BY <1>t, <3>1, <3>2, ProceedTypes
    <3>4. pool' \in PoolRow /\ pool.password \in Passwords
      BY <1>p, <2>2, <3>2, AppliedType DEF Save, PoolRow
    <3>5. OtherTypes'
      BY <1>t, <2>2, <3>4 DEF Save, OtherTypes
    <3>. QED
      BY <3>3, <3>5
  <2>3. CASE RemoveAllMembers(r)
    <3>1. IsNext(r, "remove") /\ Proceed(r, Tail(todo[r]))
      BY <2>3 DEF RemoveAllMembers, Executed
    <3>2. OwnerTypes' /\ StageInv'
      BY <1>t, <3>1, NextRemove, ProceedTypes
    <3>3. OtherTypes'
      BY <1>t, <2>3 DEF RemoveAllMembers, OtherTypes
    <3>. QED
      BY <3>2, <3>3
  <2>4. CASE ActiveInvite(r)
    <3>1. /\ IsNext(r, "find")
          /\ Proceed(r, <<"create">>) \/ Proceed(r, Tail(todo[r]))
      BY <2>4 DEF ActiveInvite, Executed
    <3>2. OwnerTypes' /\ StageInv'
      BY <1>t, <3>1, NextFind, Distinct, ProceedTypes
    <3>3. OtherTypes'
      BY <1>t, <2>4 DEF ActiveInvite, IsActive, dbVars, ghostVars, OtherTypes
    <3>. QED
      BY <3>2, <3>3
  <2>5. CASE NewPoolInvite(r)
    <3>1. IsNext(r, "create") /\ Proceed(r, Tail(todo[r]))
      BY <2>5 DEF NewPoolInvite, Executed
    <3>2. OwnerTypes' /\ StageInv'
      BY <1>t, <3>1, NextCreate, ProceedTypes
    <3>3. copy[r].checkID \in Nat
      BY <3>1, NextCreate DEF PoolRow
    <3>4. OtherTypes'
      BY <1>t, <2>5, <3>3, MembersAssumption DEF NewPoolInvite, ghostVars, OtherTypes
    <3>. QED
      BY <3>2, <3>4
  <2>6. CASE Fail(r)
    <3>1. OwnerTypes' /\ StageInv'
      BY <1>t, <2>6, ProceedTypes DEF Fail
    <3>2. OtherTypes'
      BY <1>t, <2>6 DEF Fail, dbVars, ghostVars, OtherTypes
    <3>. QED
      BY <3>1, <3>2
  <2>. QED
    BY <1>1, <2>1, <2>2, <2>3, <2>4, <2>5, <2>6 DEF Owner
<1>2. ASSUME NEW u \in Users, User(u)
      PROVE  (OwnerTypes' /\ StageInv') /\ OtherTypes'
  <2>0. UNCHANGED ownerVars => OwnerTypes' /\ StageInv'
    BY <1>t, OwnerTypesKept
  <2>1. CASE TellPassword(u)
    BY <1>t, <2>0, <2>1 DEF TellPassword, dbVars, ghostVars, OtherTypes, PoolRow
  <2>2. ASSUME NEW c \in Credentials, LetIn(u, c)
        PROVE  (OwnerTypes' /\ StageInv') /\ OtherTypes'
    BY <1>t, <2>0, <2>2 DEF LetIn, dbVars, ghostVars, OtherTypes
  <2>3. CASE PresentCredential(u) \/ VisitOpenPool(u) \/ AdminJoins(u) \/ TakeOverGuest(u)
    <3>1. PICK c \in Credentials : LetIn(u, c)
      BY <1>t, <2>3 DEF PresentCredential, VisitOpenPool, AdminJoins, TakeOverGuest,
                        OtherTypes, Credentials
    <3>. QED
      BY <2>2, <3>1
  <2>4. CASE JoinPool(u)
    BY <1>t, <2>0, <2>4 DEF JoinPool, OtherTypes
  <2>5. CASE JoinFails(u)
    BY <1>t, <2>0, <2>5 DEF JoinFails, dbVars, OtherTypes
  <2>6. CASE LeavePool(u)
    BY <1>t, <2>0, <2>6 DEF LeavePool, OtherTypes
  <2>. QED
    BY <1>2, <2>1, <2>3, <2>4, <2>5, <2>6 DEF User
<1>3. CASE \/ \E t \in Tokens : InviteExpires(t)
           \/ GuestExpires \/ CleanUpGuest
  BY <1>t, <1>3, OwnerTypesKept
     DEF InviteExpires, GuestExpires, CleanUpGuest, dbVars, ghostVars, OtherTypes
<1>4. CASE UNCHANGED vars
  BY <1>t, <1>4, OwnerTypesKept DEF vars, dbVars, ghostVars, OtherTypes
<1>. QED
  BY <1>1, <1>2, <1>3, <1>4 DEF Next

LEMMA MembersInit == Init => TypeOK /\ StageInv
<1>. SUFFICES ASSUME Init PROVE (OwnerTypes /\ StageInv) /\ OtherTypes
  BY TypeParts
<1>1. OwnerTypes /\ StageInv
  BY MembersAssumption, Distinct DEF Init, OwnerTypes, StageInv
<1>2. OtherTypes
  BY DEF Init, OtherTypes, PoolRow, Passwords
<1>. QED
  BY <1>1, <1>2

\* Rows, invites, members and the requests of the owner keep their types: a
\* request that has answered holds no row any more, and whoever is a member
\* was let in by something.
THEOREM MembersTypeCorrect == Spec => []TypeOK
BY MembersInit, MembersTypeStep, PTL DEF Spec

-----------------------------------------------------------------------------
\* Credentials that have been revoked.

\* A request that has written its change of the pool, or never will.
Saved(r) == setting[r] # None /\ todo[r] \notin {<<"save">>, <<"save", "remove">>}

\* What a change of the password makes worthless is behind the pool: the links
\* by their check ID, the passwords because every request sets another one.
Behind ==
  /\ pool.password \notin revoked
  /\ \A t \in Tokens : invites[t] # None =>
       /\ invites[t] <= pool.checkID
       /\ t \in revoked => invites[t] < pool.checkID
  /\ \A r \in Requests : copy[r] # None => copy[r].checkID <= pool.checkID
  /\ \A r \in Requests : r \in revoked \/ pool.password = r => Saved(r)

RevokedInv ==
  /\ \A t \in Tokens : t \in revoked => invites[t] # None
  /\ ~overlapped => Behind

MembersInv == TypeOK /\ StageInv /\ RevokedInv

LEMMA CheckIDs ==
  ASSUME TypeOK
  PROVE  /\ pool.checkID \in Nat /\ pool.password \in Passwords
         /\ \A t \in Tokens : invites[t] # None => invites[t] \in Nat
         /\ \A r \in Requests : copy[r] # None => copy[r].checkID \in Nat
BY DEF TypeOK, PoolRow

\* A request that goes on has saved what it had saved, and keeps its row or
\* drops it.
LEMMA ProceedSaved ==
  ASSUME TypeOK, NEW r \in Requests, NEW statements, Proceed(r, statements),
         statements \in {<< >>, <<"remove">>, <<"create">>}, todo[r] # << >>
  PROVE  /\ \A q \in Requests : q = r \/ Saved(q) => Saved(q)'
         /\ \A q \in Requests : copy'[q] = None \/ copy'[q] = copy[q]
<1>1. setting[r] # None
  BY MembersAssumption DEF TypeOK
<1>2. statements \notin {<<"save">>, <<"save", "remove">>}
  BY Distinct
<1>3. todo' = [todo EXCEPT ![r] = statements]
  BY DEF Proceed
<1>4. setting' = [setting EXCEPT ![r] = "done"] \/ setting' = setting
  BY DEF Proceed
<1>5. copy' = [copy EXCEPT ![r] = None] \/ copy' = copy
  BY DEF Proceed
<1>6. "done" # None
  BY MembersAssumption
<1>7. \A q \in Requests : q = r \/ Saved(q) => Saved(q)'
  BY <1>1, <1>2, <1>3, <1>4, <1>6 DEF TypeOK, Saved
<1>8. \A q \in Requests : copy'[q] = None \/ copy'[q] = copy[q]
  BY <1>5 DEF TypeOK
<1>. QED
  BY <1>7, <1>8

LEMMA RevokedKept ==
  ASSUME RevokedInv, UNCHANGED <<pool, invites, ownerVars, revoked, overlapped>>
  PROVE  RevokedInv'
BY DEF RevokedInv, Behind, Saved, ownerVars

LEMMA RevokedStep == MembersInv /\ [Next]_vars => MembersInv'
<1>. SUFFICES ASSUME MembersInv, [Next]_vars PROVE RevokedInv'
  BY MembersTypeStep DEF MembersInv
<1>i. TypeOK /\ StageInv /\ RevokedInv
  BY DEF MembersInv
<1>c. /\ pool.checkID \in Nat /\ pool.password \in Passwords
      /\ \A t \in Tokens : invites[t] # None => invites[t] \in Nat
      /\ \A r \in Requests : copy[r] # None => copy[r].checkID \in Nat
  BY <1>i, CheckIDs
<1>1. ASSUME NEW r \in Requests, Owner(r) PROVE RevokedInv'
  <2>1. ASSUME NEW s \in Settings, LoadPool(r, s) PROVE RevokedInv'
    <3>1. /\ setting[r] = None /\ todo' = [todo EXCEPT ![r] = Statements(s)]
          /\ setting' = [setting EXCEPT ![r] = s] /\ copy' = [copy EXCEPT ![r] = pool]
          /\ UNCHANGED <<pool, invites, revoked, overlapped>>
      BY <2>1 DEF LoadPool, dbVars, ghostVars
    <3>2. \A q \in Requests : Saved(q) => Saved(q)'
      BY <1>i, <3>1 DEF TypeOK, Saved
    <3>3. \A q \in Requests : copy'[q] = copy[q] \/ copy'[q] = pool
      BY <1>i, <3>1 DEF TypeOK
    <3>. QED
      BY <1>i, <1>c, <3>1, <3>2, <3>3 DEF RevokedInv, Behind
  <2>2. CASE Save(r)
    <3>1. /\ IsNext(r, "save") /\ Proceed(r, Tail(todo[r]))
          /\ pool' = Applied(copy[r], setting[r], r)
          /\ overlapped' = (overlapped \/ pool # copy[r])
          /\ UNCHANGED invites
          /\ revoked' = IF setting[r] \in Changes
                        THEN revoked \cup {t \in Tokens : invites[t] # None} \cup {pool.password}
                        ELSE revoked
      BY <2>2 DEF Save, Executed
    <3>2. /\ copy[r] \in PoolRow /\ setting[r] \in AllSettings \ {"invite"}
          /\ Tail(todo[r]) \in {<< >>, <<"remove">>}
          /\ todo[r] \in {<<"save">>, <<"save", "remove">>}
      BY <1>i, <3>1, NextSave
    <3>3. /\ \A q \in Requests : q = r \/ Saved(q) => Saved(q)'
          /\ \A q \in Requests : copy'[q] = None \/ copy'[q] = copy[q]
      BY <1>i, <3>1, <3>2, Distinct, ProceedSaved
    <3>4. ~Saved(r)
      BY <3>2 DEF Saved
    <3>5. \A t \in Tokens : t \in revoked' => invites'[t] # None
      BY <1>i, <1>c, <3>1, MembersAssumption DEF RevokedInv, Passwords
    <3>6. ASSUME ~overlapped' PROVE Behind'
      <4>1. ~overlapped /\ copy[r] = pool /\ Behind
        BY <1>i, <3>1, <3>6 DEF RevokedInv, TypeOK
      <4>2. CASE setting[r] \in Changes
        <5>1. pool'.password = r /\ pool'.checkID = pool.checkID + 1
          BY <3>1, <3>2, <4>1, <4>2, AppliedType
        <5>2. r \notin revoked /\ r # pool.password
          BY <3>4, <4>1 DEF Behind
        <5>3. revoked' = revoked \cup {t \in Tokens : invites[t] # None} \cup {pool.password}
          BY <3>1, <4>2
        <5>4. r \notin revoked'
          BY <5>2, <5>3, MembersAssumption
        <5>5. \A q \in Requests : q \in revoked' \/ q = pool'.password => Saved(q)'
          BY <3>3, <4>1, <5>1, <5>3, MembersAssumption DEF Behind
        <5>6. \A t \in Tokens : invites'[t] # None =>
                /\ invites'[t] <= pool'.checkID
                /\ t \in revoked' => invites'[t] < pool'.checkID
          BY <1>c, <3>1, <4>1, <5>1 DEF Behind
        <5>7. \A q \in Requests : copy'[q] # None => copy'[q].checkID <= pool'.checkID
          BY <1>c, <3>3, <4>1, <5>1 DEF Behind
        <5>. QED
          BY <5>1, <5>4, <5>5, <5>6, <5>7 DEF Behind
      <4>3. CASE setting[r] \notin Changes
        <5>1. pool'.password = pool.password /\ pool'.checkID = pool.checkID
          BY <3>1, <3>2, <4>1, <4>3, AppliedType
        <5>2. UNCHANGED <<revoked, invites>>
          BY <3>1, <4>3
        <5>. QED
          BY <3>3, <4>1, <5>1, <5>2 DEF Behind
      <4>. QED
        BY <4>2, <4>3
    <3>. QED
      BY <3>5, <3>6 DEF RevokedInv
  <2>3. CASE RemoveAllMembers(r)
    <3>1. IsNext(r, "remove") /\ Proceed(r, Tail(todo[r]))
      BY <2>3 DEF RemoveAllMembers, Executed
    <3>2. /\ \A q \in Requests : Saved(q) => Saved(q)'
          /\ \A q \in Requests : copy'[q] = None \/ copy'[q] = copy[q]
      BY <1>i, <3>1, NextRemove, Distinct, ProceedSaved
    <3>. QED
      BY <1>i, <2>3, <3>2 DEF RemoveAllMembers, RevokedInv, Behind
  <2>4. CASE ActiveInvite(r)
    <3>1. /\ IsNext(r, "find")
          /\ Proceed(r, <<"create">>) \/ Proceed(r, Tail(todo[r]))
      BY <2>4 DEF ActiveInvite, Executed
    <3>2. /\ \A q \in Requests : Saved(q) => Saved(q)'
          /\ \A q \in Requests : copy'[q] = None \/ copy'[q] = copy[q]
      BY <1>i, <3>1, NextFind, Distinct, ProceedSaved
    <3>. QED
      BY <1>i, <2>4, <3>2 DEF ActiveInvite, dbVars, ghostVars, RevokedInv, Behind
  <2>5. CASE NewPoolInvite(r)
    <3>1. IsNext(r, "create") /\ Proceed(r, Tail(todo[r]))
      BY <2>5 DEF NewPoolInvite, Executed
    <3>2. /\ \A q \in Requests : Saved(q) => Saved(q)'
          /\ \A q \in Requests : copy'[q] = None \/ copy'[q] = copy[q]
      BY <1>i, <3>1, NextCreate, Distinct, ProceedSaved
    <3>3. copy[r] # None
      BY <1>i, <3>1, NextCreate, NoneIsNoRow
    <3>4. PICK t \in Tokens : invites[t] = None /\ invites' = [invites EXCEPT ![t] = copy[r].checkID]
      BY <2>5 DEF NewPoolInvite
    <3>5. t \notin revoked
      BY <1>i, <3>4 DEF RevokedInv
    <3>6. \A x \in Tokens : invites'[x] = IF x = t THEN copy[r].checkID ELSE invites[x]
      BY <1>i, <3>4 DEF TypeOK
    <3>7. UNCHANGED <<pool, revoked, overlapped>>
      BY <2>5 DEF NewPoolInvite, ghostVars
    <3>8. \A x \in Tokens : x \in revoked' => invites'[x] # None
      BY <1>i, <3>5, <3>6, <3>7 DEF RevokedInv
    <3>9. ASSUME ~overlapped' PROVE Behind'
      <4>1. Behind
        BY <1>i, <3>7, <3>9 DEF RevokedInv
      <4>. QED
        BY <3>2, <3>3, <3>5, <3>6, <3>7, <4>1 DEF Behind
    <3>. QED
      BY <3>8, <3>9 DEF RevokedInv
  <2>6. CASE Fail(r)
    <3>1. /\ \A q \in Requests : Saved(q) => Saved(q)'
          /\ \A q \in Requests : copy'[q] = None \/ copy'[q] = copy[q]
      BY <1>i, <2>6, ProceedSaved DEF Fail
    <3>. QED
      BY <1>i, <2>6, <3>1 DEF Fail, dbVars, ghostVars, RevokedInv, Behind
  <2>. QED
    BY <1>1, <2>1, <2>2, <2>3, <2>4, <2>5, <2>6 DEF Owner
<1>2. ASSUME NEW u \in Users, User(u) PROVE RevokedInv'
  <2>1. UNCHANGED <<pool, invites, ownerVars, revoked, overlapped>>
    BY <1>2 DEF User, TellPassword, PresentCredential, VisitOpenPool, AdminJoins,
                TakeOverGuest, LetIn, JoinPool, JoinFails, LeavePool, dbVars, ghostVars
  <2>. QED
    BY <1>i, <2>1, RevokedKept
<1>3. CASE \/ \E t \in Tokens : InviteExpires(t)
           \/ GuestExpires \/ CleanUpGuest
  BY <1>i, <1>3, RevokedKept DEF InviteExpires, GuestExpires, CleanUpGuest, dbVars, ghostVars
<1>4. CASE UNCHANGED vars
  BY <1>i, <1>4, RevokedKept DEF vars, dbVars, ghostVars
<1>. QED
  BY <1>1, <1>2, <1>3, <1>4 DEF Next

LEMMA MembersInvHolds == Spec => []MembersInv
<1>1. Init => RevokedInv
  BY MembersAssumption DEF Init, RevokedInv, Behind, Passwords
<1>. QED
  BY <1>1, MembersInit, RevokedStep, PTL DEF Spec, MembersInv

-----------------------------------------------------------------------------
\* Who is let in.

LEMMA Admitted ==
  ASSUME TypeOK, [Next]_vars, NEW u \in Users, using[u] = None, using'[u] # None
  PROVE  /\ Authenticated(u)
         /\ \/ using'[u] \in {"open", "admin"}
            \/ using'[u] = "guest" /\ u # Guest /\ Authenticated(Guest)
            \/ using'[u] \in held[u] /\ Accepts(pool, using'[u])
<1>1. ASSUME NEW r \in Requests, Owner(r) PROVE FALSE
  BY <1>1 DEF Owner, LoadPool, Save, RemoveAllMembers, ActiveInvite, NewPoolInvite, Fail
<1>2. ~UNCHANGED using
  OBVIOUS
<1>3. PICK v \in Users : User(v)
  BY <1>1, <1>2 DEF Next, vars, InviteExpires, GuestExpires, CleanUpGuest
<1>4. ASSUME NEW c, LetIn(v, c)
      PROVE  u = v /\ using'[u] = c /\ Authenticated(v)
  BY <1>4 DEF LetIn, TypeOK
<1>5. CASE PresentCredential(v)
  BY <1>4, <1>5 DEF PresentCredential
<1>6. CASE VisitOpenPool(v) \/ AdminJoins(v)
  BY <1>4, <1>6 DEF VisitOpenPool, AdminJoins
<1>7. CASE TakeOverGuest(v)
  BY <1>4, <1>7 DEF TakeOverGuest
<1>8. ~TellPassword(v) /\ ~JoinPool(v) /\ ~JoinFails(v) /\ ~LeavePool(v)
  BY DEF TellPassword, JoinPool, JoinFails, LeavePool, TypeOK
<1>. QED
  BY <1>3, <1>5, <1>6, <1>7, <1>8 DEF User

LEMMA NotRevoked ==
  ASSUME MembersInv, [Next]_vars, NEW u \in Users, using[u] = None, using'[u] # None
  PROVE  using'[u] \notin revoked \/ overlapped
<1>. SUFFICES ASSUME ~overlapped PROVE using'[u] \notin revoked
  OBVIOUS
<1>1. TypeOK /\ Behind
  BY DEF MembersInv, RevokedInv
<1>2. revoked \subseteq Tokens \cup Passwords
  BY <1>1 DEF TypeOK
<1>3. CASE using'[u] \in {"open", "admin", "guest"}
  BY <1>2, <1>3, MembersAssumption DEF Passwords
<1>4. CASE Accepts(pool, using'[u])
  <2>1. CASE using'[u] = pool.password
    BY <1>1, <2>1 DEF Behind
  <2>2. CASE using'[u] \in Tokens /\ invites[using'[u]] # None
                                  /\ CheckIDIsValid(pool, invites[using'[u]])
    BY <1>1, <2>2, CheckIDs DEF CheckIDIsValid, Behind
  <2>. QED
    BY <1>4, <2>1, <2>2 DEF Accepts
<1>. QED
  BY <1>1, <1>3, <1>4, Admitted

\* A link or a password from before a change of the password lets nobody in
\* again (pool.go:98), however many changes, invites and requests follow, as
\* long as no request writes an old copy of the row back.
THEOREM RevokedCredentialsAreRefused == Spec => RevokedStaysRevoked
<1>1. MembersInv /\ [Next]_vars =>
        [\A u \in Users : using[u] = None /\ using'[u] # None =>
           using'[u] \notin revoked \/ overlapped]_vars
  BY NotRevoked
<1>. QED
  BY <1>1, MembersInvHolds, PTL DEF Spec, RevokedStaysRevoked

\* Nobody comes in on an account of a guest that has expired, neither the
\* guest nor an account that takes it over, though the cleanup removes the row
\* that says so (auth.go:117).
THEOREM ExpiredGuestsStayOut == Spec => GuestStaysOut
<1>1. ASSUME TypeOK, [Next]_vars, NEW u \in Users,
             guestPast, using[u] = None, using'[u] # None
      PROVE  u # Guest /\ using'[u] # "guest"
  <2>1. ~Authenticated(Guest)
    BY <1>1 DEF Authenticated
  <2>2. u # Guest
    BY <1>1, <2>1, Admitted
  <2>3. using'[u] \in held[u] => using'[u] # "guest"
    BY <1>1, MembersAssumption DEF TypeOK, Passwords
  <2>. QED
    BY <1>1, <2>1, <2>2, <2>3, Admitted
<1>2. TypeOK /\ [Next]_vars =>
        [\A u \in Users : guestPast /\ using[u] = None /\ using'[u] # None =>
           u # Guest /\ using'[u] # "guest"]_vars
  BY <1>1
<1>. QED
  BY <1>2, MembersTypeCorrect, PTL DEF Spec, GuestStaysOut

\* A link that a request hands out is good when the row of the pool is still
\* the one the request loaded: it bears the current check ID and has not
\* expired (endpoints_pool.go:619).
THEOREM LinksWork == Spec => HandedOutLinkWorks
<1>1. ASSUME TypeOK, StageInv, [Next]_vars, NEW r \in Requests, NEW u \in Users, NEW t \in Tokens,
             t \in held'[u] \ held[u], todo'[r] # todo[r], copy[r] = pool
      PROVE  invites'[t] = pool.checkID /\ t \notin lapsed
  <2>1. PICK q \in Requests : ActiveInvite(q) \/ NewPoolInvite(q)
    BY <1>1 DEF Next, vars, Owner, LoadPool, Save, RemoveAllMembers, Fail, User, TellPassword,
                PresentCredential, VisitOpenPool, AdminJoins, TakeOverGuest, LetIn, JoinPool,
                JoinFails, LeavePool, InviteExpires, GuestExpires, CleanUpGuest, dbVars, ownerVars
  <2>2. q = r
    BY <1>1, <2>1 DEF ActiveInvite, NewPoolInvite, Executed, Proceed, TypeOK
  <2>3. CASE ActiveInvite(q)
    <3>1. IsActive(copy[r], t)
      BY <1>1, <2>2, <2>3 DEF ActiveInvite, TypeOK
    <3>. QED
      BY <1>1, <2>3, <3>1 DEF IsActive, ActiveInvite, dbVars
  <2>4. CASE NewPoolInvite(q)
    <3>1. invites[t] = None /\ invites'[t] = copy[r].checkID
      BY <1>1, <2>2, <2>4 DEF NewPoolInvite, TypeOK
    <3>. QED
      BY <1>1, <3>1 DEF TypeOK
  <2>. QED
    BY <2>1, <2>3, <2>4
<1>2. TypeOK /\ StageInv /\ [Next]_vars =>
        [\A r \in Requests, u \in Users, t \in Tokens :
           t \in held'[u] \ held[u] /\ todo'[r] # todo[r] /\ copy[r] = pool
           => invites'[t] = pool.checkID /\ t \notin lapsed]_vars
  BY <1>1
<1>. QED
  BY <1>2, MembersInvHolds, PTL DEF Spec, HandedOutLinkWorks, MembersInv

-----------------------------------------------------------------------------
\* The membership after a reset.

\* Whoever is a member by what was good before a reset, or is about to be one,
\* had been let in before the members were removed.
EmptiedInv ==
  /\ ResetEmpties
  /\ \A u \in Users : using[u] \in banned => u \in stragglers \/ overlapped

LEMMA EmptiedStep == MembersInv /\ EmptiedInv /\ [Next]_vars => EmptiedInv'
<1>. SUFFICES ASSUME MembersInv, EmptiedInv, [Next]_vars PROVE EmptiedInv'
  OBVIOUS
<1>i. TypeOK /\ StageInv
  BY DEF MembersInv
<1>. USE DEF EmptiedInv, ResetEmpties
<1>1. ASSUME NEW r \in Requests, Owner(r) PROVE EmptiedInv'
  <2>1. CASE Save(r)
    <3>1. IsNext(r, "save")
      BY <2>1 DEF Save
    <3>2. ~(setting[r] = "resetMembership" /\ Last(r))
      BY <1>i, <3>1, NextSave
    <3>. QED
      BY <2>1, <3>2 DEF Save
  <2>2. CASE RemoveAllMembers(r)
    <3>1. None \notin revoked /\ None \notin banned
      BY <1>i, MembersAssumption DEF TypeOK, Passwords
    <3>. QED
      BY <2>2, <3>1 DEF RemoveAllMembers
  <2>. QED
    BY <1>1, <2>1, <2>2 DEF Owner, LoadPool, ActiveInvite, NewPoolInvite, Fail, dbVars, ghostVars
<1>2. ASSUME NEW u \in Users, User(u) PROVE EmptiedInv'
  <2>0. None \notin banned
    BY <1>i, MembersAssumption DEF TypeOK, Passwords
  <2>1. CASE TellPassword(u)
    BY <2>1 DEF TellPassword, dbVars, ghostVars
  <2>2. ASSUME NEW c, LetIn(u, c) PROVE EmptiedInv'
    <3>1. /\ using[u] = None /\ using' = [using EXCEPT ![u] = c]
          /\ UNCHANGED <<members, via, banned, stragglers, overlapped>>
      BY <2>2 DEF LetIn, dbVars, ghostVars
    <3>2. \A v \in Users \ {u} : using'[v] = using[v]
      BY <1>i, <3>1 DEF TypeOK
    <3>3. using'[u] # None => using'[u] \notin revoked \/ overlapped
      BY <3>1, NotRevoked
    <3>4. using'[u] \in banned => overlapped
      BY <1>i, <2>0, <3>3 DEF TypeOK
    <3>. QED
      BY <3>1, <3>2, <3>4
  <2>3. CASE PresentCredential(u) \/ VisitOpenPool(u) \/ AdminJoins(u) \/ TakeOverGuest(u)
    BY <2>2, <2>3 DEF PresentCredential, VisitOpenPool, AdminJoins, TakeOverGuest
  <2>4. CASE JoinPool(u)
    BY <1>i, <2>0, <2>4 DEF JoinPool, TypeOK
  <2>5. CASE JoinFails(u)
    BY <1>i, <2>0, <2>5 DEF JoinFails, dbVars, TypeOK
  <2>6. CASE LeavePool(u)
    BY <1>i, <2>0, <2>6 DEF LeavePool, TypeOK
  <2>. QED
    BY <1>2, <2>1, <2>3, <2>4, <2>5, <2>6 DEF User
<1>3. CASE \/ \E t \in Tokens : InviteExpires(t)
           \/ GuestExpires \/ CleanUpGuest
  BY <1>3 DEF InviteExpires, GuestExpires, CleanUpGuest, dbVars, ghostVars
<1>4. CASE UNCHANGED vars
  BY <1>4 DEF vars, dbVars, ghostVars
<1>. QED
  BY <1>1, <1>2, <1>3, <1>4 DEF Next

\* After a reset nobody is a member by a link or a password from before it,
\* but those whose request had been let in when the members were removed: the
\* members go after the password has changed (endpoints_pool.go:251, :257).
THEOREM ResetLeavesNobody == Spec => []ResetEmpties
<1>1. Init => EmptiedInv
  BY DEF Init, EmptiedInv, ResetEmpties
<1>2. EmptiedInv => ResetEmpties
  BY DEF EmptiedInv
<1>. QED
  BY <1>1, <1>2, EmptiedStep, MembersInvHolds, PTL DEF Spec
=============================================================================
