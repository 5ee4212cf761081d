----------------------------- MODULE PoolMembers -----------------------------
(***************************************************************************)
(* Who gets into a pool: its settings, its join password, the links that   *)
(* invite to it, and the rows of pools_users.                              *)
(*                                                                         *)
(* Every request loads the row of the pool first and acts on that copy: a  *)
(* request of the owner writes all of its columns back (pool.go:407), and  *)
(* one to join inserts a member when the credential fits the copy.  The    *)
(* columns that nobody is let in or kept out by are left out; what changes *)
(* only those is the setting "rename".  Nothing makes anybody but the      *)
(* owner a manager.                                                        *)
(***************************************************************************)
EXTENDS Integers, Sequences

CONSTANTS
  Users,       \* everybody but the owner
  Guest,       \* one of them, who has no account
  SiteAdmins,  \* and some who administer the site
  Requests,    \* bound: the requests of the owner, each of which is made once
  Settings,    \* bound: and what they may be about
  Tokens,      \* bound: the invite tokens
  First,       \* the password the pool was created with
  None

AllSettings ==
  {"lock", "unlock", "required", "notRequired", "accessOnLock", "noAccessOnLock",
   "rename", "changeJoinPassword", "resetMembership", "invite"}

\* A password is named after the request that set it.
Passwords == {First} \cup Requests

PoolRow == [checkID : Nat, password : Passwords,
            locked : BOOLEAN, passwordRequired : BOOLEAN, openAccessOnLock : BOOLEAN]

ASSUME MembersAssumption ==
  /\ Settings \subseteq AllSettings
  /\ Guest \in Users /\ SiteAdmins \subseteq Users \ {Guest}
  /\ First \notin Requests \cup Tokens /\ Requests \cap Tokens = {}
  /\ {"open", "admin", "guest"} \cap (Requests \cup Tokens \cup {First}) = {}
  /\ None \notin Requests \cup Tokens \cup {First, "open", "admin", "guest"} \cup Nat
  /\ None \notin AllSettings \cup {"done"} /\ None \notin PoolRow

VARIABLES
  pool,        \* its row of pools: the columns that matter here
  members,     \* the users with a row of pools_users
  invites,     \* the check ID of each invite there is
  lapsed,      \* the invites past expires_at
  guestRow,    \* whether the guest still has a row of guest_users
  guestPast,   \* whether its account, and its JWT, have expired
  held,        \* the credentials each user has been told
  setting,     \* what each request of the owner is about
  todo,        \* the statements it has yet to execute
  copy,        \* the row it has loaded
  using,       \* what a user who is about to be inserted has been let in by
  \* The rest is history.
  via,         \* what let each member in
  revoked,     \* credentials that a change of the password has made worthless
  banned,      \* and those whose holders have been removed
  stragglers,  \* users who had been let in and not yet inserted at a removal
  overlapped   \* whether a request wrote over what another had written since

dbVars == <<pool, members, invites, lapsed, guestRow>>
ownerVars == <<setting, todo, copy>>
ghostVars == <<via, revoked, banned, stragglers, overlapped>>
vars == <<dbVars, guestPast, held, ownerVars, using, ghostVars>>

Credentials == Tokens \cup Passwords \cup {"open", "admin", "guest"}

Changes == {"changeJoinPassword", "resetMembership"}

-----------------------------------------------------------------------------
\* The pool, as a request has loaded it.

\* poolHandler and the event stream let everybody in.
Open(p) == (p.locked /\ p.openAccessOnLock) \/ ~p.passwordRequired

\* Mutant: a link works as long as it is not from the future.
CheckIDIsValidUpTo(p, check) == check <= p.checkID

CheckIDIsValid(p, check) == check = p.checkID

\* What postPoolTokenMemberEndpoint accepts.
Accepts(p, credential) ==
  \/ /\ credential \in Tokens
     /\ invites[credential] # None /\ credential \notin lapsed
     /\ CheckIDIsValid(p, invites[credential])
  \/ credential = p.password

\* Mutant: the check ID stays as it is.
AppliedSameCheckID(p, s, r) == IF s \in Changes THEN [p EXCEPT !.password = r] ELSE p

\* What Save writes: the copy with one setting changed.
Applied(p, s, r) ==
  CASE s \in {"lock", "unlock"} -> [p EXCEPT !.locked = s = "lock"]
    [] s \in {"required", "notRequired"} -> [p EXCEPT !.passwordRequired = s = "required"]
    [] s \in {"accessOnLock", "noAccessOnLock"} ->
         [p EXCEPT !.openAccessOnLock = s = "accessOnLock"]
    [] s \in Changes -> [p EXCEPT !.password = r, !.checkID = @ + 1]
    [] s = "rename" -> p

\* Mutant: the members are removed before the password is changed.
StatementsRemoveFirst(s) ==
  CASE s = "invite" -> <<"find">>
    [] s = "resetMembership" -> <<"remove", "save">>
    [] OTHER -> <<"save">>

\* The statements of a request.
Statements(s) ==
  CASE s = "invite" -> <<"find">>
    [] s = "resetMembership" -> <<"save", "remove">>
    [] OTHER -> <<"save">>

\* Mutant: an invite stays active past its time.
IsActiveLapsed(p, t) == invites[t] = p.checkID

IsActive(p, t) == invites[t] = p.checkID /\ t \notin lapsed

\* Mutant: only the row of the guest tells when it expires.
AuthenticatedByRow(u) == u = Guest => ~(guestRow /\ guestPast)

\* The JWT of a guest expires with its account; IsGuestUserExpired asks a row
\* that sqmgr-guest-user-cleanup removes.
Authenticated(u) == u = Guest => ~guestPast /\ ~(guestRow /\ guestPast)

-----------------------------------------------------------------------------
TypeOK ==
  /\ pool \in PoolRow
  /\ members \subseteq Users
  /\ invites \in [Tokens -> Nat \cup {None}]
  /\ lapsed \subseteq {t \in Tokens : invites[t] # None}
  /\ guestRow \in BOOLEAN /\ guestPast \in BOOLEAN
  /\ held \in [Users -> SUBSET (Tokens \cup Passwords)]
  /\ setting \in [Requests -> Settings \cup {"done", None}]
  /\ todo \in [Requests -> {<<>>, <<"save">>, <<"save", "remove">>, <<"remove">>,
                            <<"find">>, <<"create">>}]
  /\ copy \in [Requests -> PoolRow \cup {None}]
  /\ \A r \in Requests :
       /\ todo[r] = <<>> <=> copy[r] = None
       /\ todo[r] # <<>> <=> setting[r] \in Settings
  /\ using \in [Users -> Credentials \cup {None}]
  /\ via \in [Users -> Credentials \cup {None}]
  /\ \A u \in Users : u \in members <=> via[u] # None
  /\ revoked \subseteq Tokens \cup Passwords /\ banned \subseteq revoked
  /\ stragglers \subseteq Users
  /\ overlapped \in BOOLEAN

\* A new pool requires its password.
Init ==
  /\ pool = [checkID |-> 0, password |-> First,
             locked |-> FALSE, passwordRequired |-> TRUE, openAccessOnLock |-> FALSE]
  /\ members = {}
  /\ invites = [t \in Tokens |-> None]
  /\ lapsed = {}
  /\ guestRow = TRUE /\ guestPast = FALSE
  /\ held = [u \in Users |-> {}]
  /\ setting = [r \in Requests |-> None]
  /\ todo = [r \in Requests |-> <<>>]
  /\ copy = [r \in Requests |-> None]
  /\ using = [u \in Users |-> None]
  /\ via = [u \in Users |-> None]
  /\ revoked = {} /\ banned = {} /\ stragglers = {}
  /\ overlapped = FALSE

-----------------------------------------------------------------------------
\* The owner.

\* Passwords are told outside of the program.
TellPassword(u) ==
  /\ held' = [held EXCEPT ![u] = @ \cup {pool.password}]
  /\ UNCHANGED <<dbVars, guestPast, ownerVars, using, ghostVars>>

\* poolHandler and poolManagerHandler, then the action of the request.
LoadPool(r, s) ==
  /\ setting[r] = None
  /\ setting' = [setting EXCEPT ![r] = s]
  /\ copy' = [copy EXCEPT ![r] = pool]
  /\ todo' = [todo EXCEPT ![r] = Statements(s)]
  /\ UNCHANGED <<dbVars, guestPast, held, using, ghostVars>>

IsNext(r, statement) == todo[r] # <<>> /\ Head(todo[r]) = statement

\* Mutant: a request keeps the row it has loaded for the one that follows.
ProceedKeepsCopy(r, statements) ==
  /\ todo' = [todo EXCEPT ![r] = statements]
  /\ UNCHANGED <<setting, copy>>

\* What a request has loaded is of no use once it has answered.
Proceed(r, statements) ==
  /\ todo' = [todo EXCEPT ![r] = statements]
  /\ IF statements = <<>>
     THEN /\ setting' = [setting EXCEPT ![r] = "done"]
          /\ copy' = [copy EXCEPT ![r] = None]
     ELSE UNCHANGED <<setting, copy>>

Last(r) == Len(todo[r]) = 1

Executed(r) == Proceed(r, Tail(todo[r]))

Save(r) ==
  /\ IsNext(r, "save")
  /\ pool' = Applied(copy[r], setting[r], r)
  /\ overlapped' = (overlapped \/ pool # copy[r])
  /\ revoked' = IF setting[r] \in Changes
                THEN revoked \cup {t \in Tokens : invites[t] # None} \cup {pool.password}
                ELSE revoked
  /\ banned' = IF setting[r] = "resetMembership" /\ Last(r) THEN revoked' ELSE banned
  /\ Executed(r)
  /\ UNCHANGED <<members, invites, lapsed, guestRow, guestPast, held,
                 using, via, stragglers>>

RemoveAllMembers(r) ==
  /\ IsNext(r, "remove")
  /\ members' = {}
  /\ via' = [u \in Users |-> None]
  /\ banned' = IF Last(r) THEN revoked ELSE banned
  /\ stragglers' = {u \in Users : using[u] # None}
  /\ Executed(r)
  /\ UNCHANGED <<pool, invites, lapsed, guestRow, guestPast, held,
                 using, revoked, overlapped>>

\* getPoolTokenInviteTokenEndpoint: the link it answers with is passed on.
ActiveInvite(r) ==
  /\ IsNext(r, "find")
  /\ LET active == {t \in Tokens : IsActive(copy[r], t)}
     IN  IF active = {}
         THEN Proceed(r, <<"create">>) /\ UNCHANGED held
         ELSE /\ Executed(r)
              /\ \E t \in active, u \in Users : held' = [held EXCEPT ![u] = @ \cup {t}]
  /\ UNCHANGED <<dbVars, guestPast, using, ghostVars>>

NewPoolInvite(r) ==
  /\ IsNext(r, "create")
  /\ \E t \in Tokens, u \in Users :
       /\ invites[t] = None
       /\ invites' = [invites EXCEPT ![t] = copy[r].checkID]
       /\ held' = [held EXCEPT ![u] = @ \cup {t}]
  /\ Executed(r)
  /\ UNCHANGED <<pool, members, lapsed, guestRow, guestPast, using, ghostVars>>

\* A statement fails, or the server stops: the rest of the request is lost.
Fail(r) ==
  /\ todo[r] # <<>>
  /\ Proceed(r, <<>>)
  /\ UNCHANGED <<dbVars, guestPast, held, using, ghostVars>>

-----------------------------------------------------------------------------
\* Everybody else.

\* A request that lets a user in, but has not inserted the row yet.
LetIn(u, credential) ==
  /\ using[u] = None /\ Authenticated(u)
  /\ using' = [using EXCEPT ![u] = credential]
  /\ UNCHANGED <<dbVars, guestPast, held, ownerVars, ghostVars>>

\* postPoolTokenMemberEndpoint: the invite is read after the pool, but does
\* not change.
PresentCredential(u) == \E c \in held[u] : Accepts(pool, c) /\ LetIn(u, c)

\* poolHandler and getPoolTokenEventsEndpoint.
VisitOpenPool(u) == Open(pool) /\ u \notin SiteAdmins /\ LetIn(u, "open")

\* postAdminPoolJoinEndpoint
AdminJoins(u) == u \in SiteAdmins /\ LetIn(u, "admin")

\* postUserIDGuestJWT: the user takes over what the guest has joined.
TakeOverGuest(u) ==
  /\ u # Guest /\ Authenticated(Guest) /\ Guest \in members
  /\ LetIn(u, "guest")

JoinPool(u) ==
  /\ using[u] # None
  /\ members' = members \cup {u}
  /\ via' = IF u \in members THEN via ELSE [via EXCEPT ![u] = using[u]]
  /\ using' = [using EXCEPT ![u] = None]
  /\ UNCHANGED <<pool, invites, lapsed, guestRow, guestPast, held, ownerVars,
                 revoked, banned, stragglers, overlapped>>

\* The request fails before it has inserted.
JoinFails(u) ==
  /\ using[u] # None
  /\ using' = [using EXCEPT ![u] = None]
  /\ stragglers' = IF u \in members THEN stragglers ELSE stragglers \ {u}
  /\ UNCHANGED <<dbVars, guestPast, held, ownerVars, via, revoked, banned, overlapped>>

\* deleteUserIDPoolTokenEndpoint
LeavePool(u) ==
  /\ u \in members /\ Authenticated(u)
  /\ members' = members \ {u}
  /\ via' = [via EXCEPT ![u] = None]
  /\ stragglers' = IF using[u] = None THEN stragglers \ {u} ELSE stragglers
  /\ UNCHANGED <<pool, invites, lapsed, guestRow, guestPast, held, ownerVars, using,
                 revoked, banned, overlapped>>

-----------------------------------------------------------------------------
\* Time.

InviteExpires(t) ==
  /\ invites[t] # None
  /\ lapsed' = lapsed \cup {t}
  /\ UNCHANGED <<pool, members, invites, guestRow, guestPast, held, ownerVars, using, ghostVars>>

GuestExpires ==
  /\ ~guestPast
  /\ guestPast' = TRUE
  /\ UNCHANGED <<dbVars, held, ownerVars, using, ghostVars>>

\* sqmgr-guest-user-cleanup, for a guest without squares.
CleanUpGuest ==
  /\ guestPast /\ guestRow
  /\ guestRow' = FALSE
  /\ UNCHANGED <<pool, members, invites, lapsed, guestPast, held, ownerVars, using, ghostVars>>

Owner(r) ==
  \/ \E s \in Settings : LoadPool(r, s)
  \/ Save(r) \/ RemoveAllMembers(r) \/ ActiveInvite(r) \/ NewPoolInvite(r) \/ Fail(r)

User(u) ==
  \/ TellPassword(u)
  \/ PresentCredential(u) \/ VisitOpenPool(u) \/ AdminJoins(u) \/ TakeOverGuest(u)
  \/ JoinPool(u) \/ JoinFails(u) \/ LeavePool(u)

Next ==
  \/ \E r \in Requests : Owner(r)
  \/ \E u \in Users : User(u)
  \/ \E t \in Tokens : InviteExpires(t)
  \/ GuestExpires \/ CleanUpGuest

Spec == Init /\ [][Next]_vars

-----------------------------------------------------------------------------
\* "A check ID can be changed if you want to prevent old JWT links from
\* working" (pool.go:98): a request that comes after a change of the password
\* is not let in by a link or password from before, ever again, unless a
\* request has written an old copy of the row back over the change.
RevokedStaysRevoked ==
  [][\A u \in Users :
       using[u] = None /\ using'[u] # None => using'[u] \notin revoked \/ overlapped]_vars

\* After a reset of the membership nobody is a member by what was good before,
\* but those whose request had been let in when the members were removed
\* (endpoints_pool.go:251, :257).
ResetEmpties ==
  \A u \in members : via[u] \in banned => u \in stragglers \/ overlapped

\* A link that has just been handed out works, unless the row of the pool has
\* changed since the request loaded it (endpoints_pool.go:619).
HandedOutLinkWorks ==
  [][\A r \in Requests, u \in Users, t \in Tokens :
       t \in held'[u] \ held[u] /\ todo'[r] # todo[r] /\ copy[r] = pool
       => invites'[t] = pool.checkID /\ t \notin lapsed]_vars

\* Once its account has expired a guest gets in no more, by itself or through
\* an account that takes it over, though the row that says so is removed
\* (auth.go:117, the cleanup's main.go:82).
GuestStaysOut ==
  [][\A u \in Users :
       guestPast /\ using[u] = None /\ using'[u] # None =>
         u # Guest /\ using'[u] # "guest"]_vars
=============================================================================
