----------------------------- MODULE LiveUpdates -----------------------------
(***************************************************************************)
(* How a browser learns that a pool has changed: the streams of the SSE    *)
(* endpoint, the broker between handlers and streams, the listener that    *)
(* passes on what the sports job tells PostgreSQL, and the shutdown that   *)
(* must wait for all of them.                                              *)
(*                                                                         *)
(* Every stream, handler and the listener is a goroutine.  They meet at    *)
(* the broker's RWMutex, at the buffered channel of each stream and, while *)
(* tokens are checked, at the mutexes of the signing keys' cache.          *)
(***************************************************************************)
EXTENDS Naturals, FiniteSets

CONSTANTS
  Streams,     \* requests of the SSE endpoint
  Observed,    \* one of them, no different from the others
  Handlers,    \* requests that change a pool and announce it
  Listener,    \* the goroutine of PGListener
  Pools,
  Visited,     \* bound: the pools that requests are about
  Linked,      \* the pools with an active grid linked to the event being played
  Kids,        \* the key ids tokens name
  SqMGR,       \* stands for the key of guests' tokens, which is not fetched
  PublishedKeys, \* the key ids Auth0 publishes
  Capacity,    \* the buffer of a stream's channel
  MaxInbox,    \* bound: notifications the listener has not read yet
  None

ASSUME LiveAssumption ==
  /\ Linked \subseteq Pools
  /\ Visited \subseteq Pools
  /\ PublishedKeys \subseteq Kids
  /\ SqMGR \notin Kids
  /\ Capacity \in Nat \ {0}
  /\ MaxInbox \in Nat \ {0}
  /\ Listener \notin Handlers
  /\ Observed \in Streams
  /\ IsFiniteSet(Streams)
  /\ None \notin Streams \cup Pools \cup Kids \cup {SqMGR}

\* Who calls Publish.
Publishers == Handlers \cup {Listener}

VARIABLES
  at,        \* where each stream's handler is
  watches,   \* the pool a stream asks for, None without a request
  kid,       \* the key its token is signed with
  present,   \* whether its client is still connected
  queue,     \* how many events its channel holds
  subscribers, \* the streams whose channels are in the broker's maps
  writer,    \* the stream that holds or waits for the broker's write lock
  doing,     \* where each publisher is
  to,        \* the pool it publishes to
  left,      \* the channels its loop has not reached
  tokens,    \* the pools the listener still has to publish to
  inbox,     \* notifications the listener has not read
  kidToCert, \* the keys in the cache
  fetcher,   \* the stream that holds fetchMu
  phase,     \* of the process
  due        \* whose changes the client of Observed has not been told of

streamVars == <<at, watches, kid, present>>
brokerVars == <<queue, subscribers, writer>>
publishVars == <<doing, to, left, tokens, inbox>>
keyVars == <<kidToCert, fetcher>>
vars == <<streamVars, brokerVars, publishVars, keyVars, phase, due>>

Registering == {"subscribe", "unsubscribe"}

TypeOK ==
  /\ at \in [Streams -> {"none", "keyWait", "fetching", "admitted", "subscribe",
                         "loop", "unsubscribe"}]
  /\ watches \in [Streams -> Pools \cup {None}]
  /\ kid \in [Streams -> Kids \cup {SqMGR, None}]
  /\ present \in [Streams -> BOOLEAN]
  /\ queue \in [Streams -> 0..Capacity]
  /\ subscribers \subseteq Streams
  /\ writer \in Streams \cup {None}
  /\ doing \in [Publishers -> {"idle", "publish", "queued", "sending", "done"}]
  /\ to \in [Publishers -> Pools \cup {None}]
  /\ left \in [Publishers -> SUBSET Streams]
  /\ tokens \subseteq Pools
  /\ inbox \in 0..MaxInbox
  /\ kidToCert \subseteq Kids
  /\ fetcher \in Streams \cup {None}
  /\ phase \in {"serving", "closing", "draining", "stopped"}
  /\ due \subseteq Publishers

Init ==
  /\ at = [s \in Streams |-> "none"]
  /\ watches = [s \in Streams |-> None]
  /\ kid = [s \in Streams |-> None]
  /\ present = [s \in Streams |-> FALSE]
  /\ queue = [s \in Streams |-> 0]
  /\ subscribers = {}
  /\ writer = None
  /\ doing = [p \in Publishers |-> "idle"]
  /\ to = [p \in Publishers |-> None]
  /\ left = [p \in Publishers |-> {}]
  /\ tokens = {}
  /\ inbox = 0
  /\ kidToCert = {}
  /\ fetcher = None
  /\ phase = "serving"
  /\ due = {}

-----------------------------------------------------------------------------
\* The broker.

Watching(pool) == {s \in subscribers : watches[s] = pool}

RLockHolders == {p \in Publishers : doing[p] = "sending"}

\* Lock: announced first, from then on new readers queue up behind it.
Lock(s, purpose) ==
  /\ writer = None
  /\ writer' = s
  /\ at' = [at EXCEPT ![s] = purpose]

\* Mutant: a plain flag instead of the RWMutex, which readers do not heed.
MayWriteAtOnce(s) == writer = s

MayWrite(s) == writer = s /\ RLockHolders = {}

\* Mutant: readers that queued up are not let in.
UnlockForgetsReaders(subscribed) ==
  /\ writer' = None
  /\ subscribers' = subscribed
  /\ UNCHANGED <<doing, left, to, tokens, inbox>>

\* Unlock lets the readers in that queued up meanwhile.
Unlock(subscribed) ==
  /\ writer' = None
  /\ subscribers' = subscribed
  /\ doing' = [p \in Publishers |-> IF doing[p] = "queued" THEN "sending" ELSE doing[p]]
  /\ left' = [p \in Publishers |->
                IF doing[p] = "queued" THEN {s \in subscribed : watches[s] = to[p]} ELSE left[p]]
  /\ UNCHANGED <<to, tokens, inbox>>

Subscribe(s) ==
  /\ at[s] = "subscribe" /\ MayWrite(s)
  /\ Unlock(subscribers \cup {s})
  /\ queue' = [queue EXCEPT ![s] = 0]
  /\ at' = [at EXCEPT ![s] = "loop"]
  /\ UNCHANGED <<watches, kid, present, keyVars, phase, due>>

\* The channel is closed and the handler returns.
Unsubscribe(s) ==
  /\ at[s] = "unsubscribe" /\ MayWrite(s)
  /\ Unlock(subscribers \ {s})
  /\ queue' = [queue EXCEPT ![s] = 0]
  /\ at' = [at EXCEPT ![s] = "none"]
  /\ watches' = [watches EXCEPT ![s] = None]
  /\ UNCHANGED kid
  /\ present' = [present EXCEPT ![s] = FALSE]
  /\ due' = IF s = Observed THEN {} ELSE due
  /\ UNCHANGED <<keyVars, phase>>

\* Publish: RLock, then one channel of the pool's map after another.
RLock(p) ==
  /\ doing[p] = "publish"
  /\ IF writer = None
     THEN /\ doing' = [doing EXCEPT ![p] = "sending"]
          /\ left' = [left EXCEPT ![p] = Watching(to[p])]
     ELSE /\ doing' = [doing EXCEPT ![p] = "queued"]
          /\ UNCHANGED left
  /\ UNCHANGED <<streamVars, brokerVars, to, tokens, inbox, keyVars, phase, due>>

\* Mutant: an unbuffered channel.
EnqueuedUnbuffered(n) == n

\* Mutant: the event is counted though the buffer is full.
EnqueuedAlways(n) == n + 1

\* A send that does not block: a full channel drops the event.
Enqueued(n) == IF n < Capacity THEN n + 1 ELSE n

Send(p, s) ==
  /\ doing[p] = "sending" /\ s \in left[p]
  /\ left' = [left EXCEPT ![p] = @ \ {s}]
  /\ queue' = [queue EXCEPT ![s] = Enqueued(@)]
  /\ UNCHANGED <<streamVars, subscribers, writer, doing, to, tokens, inbox, keyVars, phase, due>>

\* A handler returns; the listener goes on to the next pool of the notification.
RUnlock(p, status, pool) ==
  /\ doing[p] = "sending" /\ left[p] = {}
  /\ doing' = [doing EXCEPT ![p] = status]
  /\ to' = [to EXCEPT ![p] = pool]
  /\ UNCHANGED <<streamVars, brokerVars, left, inbox, keyVars, phase, due>>

EndPublish(p) ==
  /\ p = Listener => tokens = {}
  /\ RUnlock(p, "idle", None)
  /\ UNCHANGED tokens

NextPool ==
  \E pool \in tokens :
    /\ RUnlock(Listener, "publish", pool)
    /\ tokens' = tokens \ {pool}

-----------------------------------------------------------------------------
\* The SSE endpoint.

Accepting == phase \in {"serving", "closing"}

\* GetPEMCert looks in the cache; the key of guests' tokens is at hand.
Open(s, pool, key) ==
  /\ Accepting /\ at[s] = "none"
  /\ watches' = [watches EXCEPT ![s] = pool]
  /\ IF key \in kidToCert \cup {SqMGR}
     THEN at' = [at EXCEPT ![s] = "admitted"] /\ UNCHANGED kid
     ELSE at' = [at EXCEPT ![s] = "keyWait"] /\ kid' = [kid EXCEPT ![s] = key]
  /\ present' = [present EXCEPT ![s] = TRUE]
  /\ UNCHANGED <<brokerVars, publishVars, keyVars, phase, due>>

\* The handler returns before it has subscribed.
Return(s) ==
  /\ at' = [at EXCEPT ![s] = "none"]
  /\ watches' = [watches EXCEPT ![s] = None]
  /\ kid' = [kid EXCEPT ![s] = None]
  /\ present' = [present EXCEPT ![s] = FALSE]

LockFetch(s) ==
  /\ at[s] = "keyWait" /\ fetcher = None
  /\ fetcher' = s
  /\ at' = [at EXCEPT ![s] = "fetching"]
  /\ UNCHANGED <<watches, kid, present, brokerVars, publishVars, kidToCert, phase, due>>

\* Mutant: fetchMu is not unlocked when the fetch fails.
KeyMissingHoldsLock(s) ==
  /\ at[s] = "fetching"
  /\ Return(s)
  /\ UNCHANGED <<brokerVars, publishVars, keyVars, phase, due>>

\* The answer holds the key: it is stored, even if another request was faster.
KeyFetched(s) ==
  /\ at[s] = "fetching" /\ kid[s] \in PublishedKeys
  /\ kidToCert' = kidToCert \cup {kid[s]}
  /\ fetcher' = None
  /\ at' = [at EXCEPT ![s] = "admitted"]
  /\ kid' = [kid EXCEPT ![s] = None]
  /\ UNCHANGED <<watches, present, brokerVars, publishVars, phase, due>>

\* No answer within three seconds, one that cannot be read, or no such key.
KeyMissing(s) ==
  /\ at[s] = "fetching"
  /\ fetcher' = None
  /\ Return(s)
  /\ UNCHANGED <<brokerVars, publishVars, kidToCert, phase, due>>

\* The signature, the account, the pool or the membership is refused.
Refuse(s) ==
  /\ at[s] = "admitted"
  /\ Return(s)
  /\ UNCHANGED <<brokerVars, publishVars, keyVars, phase, due>>

\* The headers are flushed, and the client sees its stream open, before the
\* stream is in the broker's map.
LockToSubscribe(s) ==
  /\ at[s] = "admitted"
  /\ Lock(s, "subscribe")
  /\ UNCHANGED <<watches, kid, present, queue, subscribers, publishVars, keyVars, phase, due>>

\* An event read from the channel and written to a client that is there; it
\* loads the pool anew, and so learns of every change until now.
Deliver(s) ==
  /\ at[s] = "loop" /\ queue[s] > 0 /\ present[s]
  /\ queue' = [queue EXCEPT ![s] = @ - 1]
  /\ due' = IF s = Observed THEN {} ELSE due
  /\ UNCHANGED <<streamVars, subscribers, writer, publishVars, keyVars, phase>>

\* Mutant: a gone client shows in the write of an event only.
LockToUnsubscribeOnWrite(s) ==
  /\ at[s] = "loop" /\ ~present[s] /\ queue[s] > 0
  /\ Lock(s, "unsubscribe")
  /\ UNCHANGED <<watches, kid, present, queue, subscribers, publishVars, keyVars, phase, due>>

\* A client that is gone shows in the context, in the write of an event or in
\* the write of a keepalive: the loop ends, whatever the channel holds.
LockToUnsubscribe(s) ==
  /\ at[s] = "loop" /\ ~present[s]
  /\ Lock(s, "unsubscribe")
  /\ UNCHANGED <<watches, kid, present, queue, subscribers, publishVars, keyVars, phase, due>>

\* A client that goes earlier cancels the statements of its request: Refuse.
Disconnect(s) ==
  /\ present[s] /\ at[s] \in {"admitted", "subscribe", "loop"}
  /\ present' = [present EXCEPT ![s] = FALSE]
  /\ UNCHANGED <<at, watches, kid, brokerVars, publishVars, keyVars, phase, due>>

-----------------------------------------------------------------------------
\* Changes and their announcement.

Owed(p, pools) ==
  IF Observed \in subscribers /\ watches[Observed] \in pools THEN due \cup {p} ELSE due

\* A handler's change is committed; the call of Publish comes next.
Change(h, pool) ==
  /\ Accepting /\ doing[h] = "idle"
  /\ doing' = [doing EXCEPT ![h] = "publish"]
  /\ to' = [to EXCEPT ![h] = pool]
  /\ due' = Owed(h, {pool})
  /\ UNCHANGED <<streamVars, brokerVars, left, tokens, inbox, keyVars, phase>>

\* A later statement of the handler fails: it returns without an event.
FailAfterChange(h) ==
  /\ doing[h] = "publish"
  /\ doing' = [doing EXCEPT ![h] = "idle"]
  /\ to' = [to EXCEPT ![h] = None]
  /\ due' = due \ {h}
  /\ UNCHANGED <<streamVars, brokerVars, left, tokens, inbox, keyVars, phase>>

\* The sports job updates the event and PostgreSQL passes its notification to
\* the listener's connection.
Notify ==
  /\ doing[Listener] # "done" /\ inbox < MaxInbox
  /\ inbox' = inbox + 1
  /\ due' = Owed(Listener, Linked)
  /\ UNCHANGED <<streamVars, brokerVars, doing, to, left, tokens, keyVars, phase>>

\* handleNotification finds the pools of the event.
HandleNotification ==
  /\ doing[Listener] = "idle" /\ inbox > 0 /\ phase = "serving"
  /\ inbox' = inbox - 1
  /\ IF Linked = {}
     THEN UNCHANGED <<doing, to, tokens>>
     ELSE \E pool \in Linked :
            /\ tokens' = Linked \ {pool}
            /\ to' = [to EXCEPT ![Listener] = pool]
            /\ doing' = [doing EXCEPT ![Listener] = "publish"]
  /\ UNCHANGED <<streamVars, brokerVars, left, keyVars, phase, due>>

\* The lookup fails, as it does once the listener's context is cancelled.
DropNotification ==
  /\ doing[Listener] = "idle" /\ inbox > 0
  /\ inbox' = inbox - 1
  /\ due' = IF inbox = 1 THEN due \ {Listener} ELSE due
  /\ UNCHANGED <<streamVars, brokerVars, doing, to, left, tokens, keyVars, phase>>

\* The loop of the listener sees its context cancelled: what it has not read is lost.
ListenerReturns ==
  /\ doing[Listener] = "idle" /\ phase = "closing"
  /\ doing' = [doing EXCEPT ![Listener] = "done"]
  /\ inbox' = 0
  /\ due' = IF inbox > 0 THEN due \ {Listener} ELSE due
  /\ UNCHANGED <<streamVars, brokerVars, to, left, tokens, keyVars, phase>>

-----------------------------------------------------------------------------
\* The process ends: first the listener, then the HTTP server, then the database.

Terminate ==
  /\ phase = "serving"
  /\ phase' = "closing"
  /\ UNCHANGED <<streamVars, brokerVars, publishVars, keyVars, due>>

ListenerClosed == doing[Listener] = "done"

\* Mutant: streams are not waited for.
IdleHandlers == \A h \in Handlers : doing[h] = "idle"

Idle == (\A s \in Streams : at[s] = "none") /\ (\A h \in Handlers : doing[h] = "idle")

CloseListener ==
  /\ phase = "closing" /\ ListenerClosed
  /\ phase' = "draining"
  /\ UNCHANGED <<streamVars, brokerVars, publishVars, keyVars, due>>

\* srv.Shutdown waits, without a deadline, until no request is served.
CloseDatabase ==
  /\ phase = "draining" /\ Idle
  /\ phase' = "stopped"
  /\ UNCHANGED <<streamVars, brokerVars, publishVars, keyVars, due>>

-----------------------------------------------------------------------------
StreamRuns(s) ==
  \/ KeyFetched(s) \/ KeyMissing(s) \/ Refuse(s)
  \/ Subscribe(s) \/ Unsubscribe(s)
  \/ Deliver(s)

StreamLocks(s) == LockFetch(s) \/ LockToSubscribe(s) \/ LockToUnsubscribe(s)

Publishing(p) == RLock(p) \/ EndPublish(p) \/ \E s \in Streams : Send(p, s)

Listening == NextPool \/ HandleNotification \/ DropNotification \/ ListenerReturns

Next ==
  \/ \E s \in Streams : StreamRuns(s) \/ StreamLocks(s) \/ Disconnect(s)
  \/ \E s \in Streams, pool \in Visited, key \in Kids \cup {SqMGR} : Open(s, pool, key)
  \/ \E p \in Publishers : Publishing(p)
  \/ \E h \in Handlers : FailAfterChange(h) \/ \E pool \in Visited : Change(h, pool)
  \/ Notify \/ Listening
  \/ Terminate \/ CloseListener \/ CloseDatabase

Spec == Init /\ [][Next]_vars

\* Goroutines run.  A sync.Mutex that is released over and over is handed to
\* whoever has waited longest (its starvation mode), hence SF for the locks;
\* readers of an RWMutex are let in by Unlock.  A select picks at random among
\* the channels that are ready, hence SF for the listener's return.
Fairness ==
  /\ \A s \in Streams : WF_vars(StreamRuns(s)) /\ SF_vars(StreamLocks(s))
  /\ \A p \in Publishers : WF_vars(Publishing(p))
  /\ WF_vars(Listening) /\ SF_vars(ListenerReturns)
  /\ WF_vars(CloseListener) /\ WF_vars(CloseDatabase)

FairSpec == Spec /\ Fairness

-----------------------------------------------------------------------------
\* No send on a closed channel, which would panic: a stream that Publish has
\* still to reach is in the broker's map, and is not the one whose handler
\* closes its channel under the lock (broker.go:72, :84).
NoSendOnClosed ==
  \A p \in Publishers :
    /\ left[p] \subseteq subscribers
    /\ left[p] # {} => doing[p] = "sending"

\* An event that is dropped is not missed (broker.go:87): as long as a client
\* that is there has not been told of a change, an event waits in its channel, or the one who
\* made the change has not reached that channel yet.
ToldSoon ==
  present[Observed] => \A p \in due :
    \/ queue[Observed] > 0
    \/ doing[p] \in {"publish", "queued"} /\ to[p] = watches[Observed]
    \/ Observed \in left[p]
    \/ p = Listener /\ (inbox > 0 \/ watches[Observed] \in tokens)

\* The database is closed last: nobody is left who would use it (main.go:101).
NobodyUsesClosedDatabase ==
  phase = "stopped" => Idle /\ ListenerClosed /\ subscribers = {}

\* A client that stays learns of every change that is announced, whatever
\* other streams and publishers do.
EveryClientIsTold ==
  \A p \in Publishers : p \in due ~> p \notin due

\* Every request of a stream gets through the token check and the broker's
\* lock, whether keys can be fetched or not.
EveryStreamIsAnswered ==
  at[Observed] \in {"keyWait", "fetching", "admitted", "subscribe"}
    ~> at[Observed] \in {"none", "loop"}

\* The process stops once it is asked to and the clients of its streams leave;
\* a stream whose client stays keeps srv.Shutdown waiting (main.go:98).
StopsOnceClientsLeave ==
  (phase # "serving" /\ []<>(\A s \in Streams : ~present[s])) ~> phase = "stopped"
=============================================================================
