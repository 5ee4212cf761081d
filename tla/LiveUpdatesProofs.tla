-------------------------- MODULE LiveUpdatesProofs --------------------------
(***************************************************************************)
(* Proofs about LiveUpdates, for any number of streams, handlers, pools    *)
(* and keys, and any capacity of the channels.                             *)
(***************************************************************************)
EXTENDS LiveUpdates, TLAPS

USE LiveAssumption DEF Publishers

-----------------------------------------------------------------------------
\* Types.

LEMMA TypeStep == TypeOK /\ [Next]_vars => TypeOK'
<1>. SUFFICES ASSUME TypeOK, [Next]_vars PROVE TypeOK'
  OBVIOUS
<1>. USE DEF TypeOK
<1>1. ASSUME NEW s \in Streams, StreamRuns(s) PROVE TypeOK'
  <2>1. CASE KeyFetched(s)
    BY <2>1 DEF KeyFetched, brokerVars, publishVars
  <2>2. CASE KeyMissing(s)
    BY <2>2 DEF KeyMissing, Return, brokerVars, publishVars
  <2>3. CASE Refuse(s)
    BY <2>3 DEF Refuse, Return, brokerVars, publishVars, keyVars
  <2>4. CASE Subscribe(s)
    BY <2>4 DEF Subscribe, Unlock, keyVars
  <2>5. CASE Unsubscribe(s)
    BY <2>5 DEF Unsubscribe, Unlock, keyVars
  <2>6. CASE Deliver(s)
    BY <2>6 DEF Deliver, streamVars, publishVars, keyVars
  <2>. QED
    BY <1>1, <2>1, <2>2, <2>3, <2>4, <2>5, <2>6 DEF StreamRuns
<1>2. ASSUME NEW s \in Streams, StreamLocks(s) PROVE TypeOK'
  <2>1. CASE LockFetch(s)
    BY <2>1 DEF LockFetch, brokerVars, publishVars
  <2>2. CASE LockToSubscribe(s)
    BY <2>2 DEF LockToSubscribe, Lock, publishVars, keyVars
  <2>3. CASE LockToUnsubscribe(s)
    BY <2>3 DEF LockToUnsubscribe, Lock, publishVars, keyVars
  <2>. QED
    BY <1>2, <2>1, <2>2, <2>3 DEF StreamLocks
<1>3. ASSUME NEW s \in Streams, Disconnect(s) PROVE TypeOK'
  BY <1>3 DEF Disconnect, brokerVars, publishVars, keyVars
<1>4. ASSUME NEW s \in Streams, NEW pool \in Visited, NEW key \in Kids \cup {SqMGR},
             Open(s, pool, key)
      PROVE  TypeOK'
  BY <1>4 DEF Open, brokerVars, publishVars, keyVars
<1>5. ASSUME NEW p \in Publishers, Publishing(p) PROVE TypeOK'
  <2>1. CASE RLock(p)
    BY <2>1 DEF RLock, Watching, streamVars, brokerVars, keyVars
  <2>2. CASE EndPublish(p)
    BY <2>2 DEF EndPublish, RUnlock, streamVars, brokerVars, keyVars
  <2>3. ASSUME NEW s \in Streams, Send(p, s) PROVE TypeOK'
    BY <2>3 DEF Send, Enqueued, streamVars, keyVars
  <2>. QED
    BY <1>5, <2>1, <2>2, <2>3 DEF Publishing
<1>6. ASSUME NEW h \in Handlers, FailAfterChange(h) PROVE TypeOK'
  BY <1>6 DEF FailAfterChange, streamVars, brokerVars, keyVars
<1>7. ASSUME NEW h \in Handlers, NEW pool \in Visited, Change(h, pool) PROVE TypeOK'
  BY <1>7 DEF Change, Owed, streamVars, brokerVars, keyVars
<1>8. CASE Notify
  BY <1>8 DEF Notify, Owed, streamVars, brokerVars, keyVars
<1>9. CASE Listening
  <2>1. CASE NextPool
    BY <2>1 DEF NextPool, RUnlock, streamVars, brokerVars, keyVars
  <2>2. CASE HandleNotification
    BY <2>2 DEF HandleNotification, streamVars, brokerVars, keyVars
  <2>3. CASE DropNotification
    BY <2>3 DEF DropNotification, streamVars, brokerVars, keyVars
  <2>4. CASE ListenerReturns
    BY <2>4 DEF ListenerReturns, streamVars, brokerVars, keyVars
  <2>. QED
    BY <1>9, <2>1, <2>2, <2>3, <2>4 DEF Listening
<1>10. CASE Terminate \/ CloseListener \/ CloseDatabase
  BY <1>10 DEF Terminate, CloseListener, CloseDatabase, streamVars, brokerVars,
               publishVars, keyVars
<1>11. CASE UNCHANGED vars
  BY <1>11 DEF vars, streamVars, brokerVars, publishVars, keyVars
<1>. QED
  BY <1>1, <1>2, <1>3, <1>4, <1>5, <1>6, <1>7, <1>8, <1>9, <1>10, <1>11 DEF Next

\* Every variable keeps its type; a channel never holds more than its buffer
\* (broker.go:55), however many publishers send to it.
THEOREM LiveTypeCorrect == Spec => []TypeOK
<1>1. Init => TypeOK
  BY DEF Init, TypeOK
<1>. QED
  BY <1>1, TypeStep, PTL DEF Spec

-----------------------------------------------------------------------------
\* Sends and closes.

LEMMA ChannelsStep == TypeOK /\ NoSendOnClosed /\ [Next]_vars => NoSendOnClosed'
<1>. SUFFICES ASSUME TypeOK, NoSendOnClosed, [Next]_vars PROVE NoSendOnClosed'
  OBVIOUS
<1>. USE DEF TypeOK, NoSendOnClosed
<1>1. ASSUME NEW s \in Streams, StreamRuns(s) PROVE NoSendOnClosed'
  <2>1. CASE KeyFetched(s) \/ KeyMissing(s) \/ Refuse(s) \/ Deliver(s)
    BY <2>1 DEF KeyFetched, KeyMissing, Refuse, Deliver, brokerVars, publishVars
  <2>2. CASE Subscribe(s)
    BY <2>2 DEF Subscribe, Unlock
  \* Under the lock nobody sends, so nobody has a channel left to reach.
  <2>3. CASE Unsubscribe(s)
    <3>1. \A p \in Publishers : doing[p] # "sending" /\ left[p] = {}
      BY <2>3 DEF Unsubscribe, MayWrite, RLockHolders
    <3>. QED
      BY <2>3, <3>1 DEF Unsubscribe, Unlock
  <2>. QED
    BY <1>1, <2>1, <2>2, <2>3 DEF StreamRuns
<1>2. ASSUME NEW s \in Streams, StreamLocks(s) PROVE NoSendOnClosed'
  BY <1>2 DEF StreamLocks, LockFetch, LockToSubscribe, LockToUnsubscribe, brokerVars, publishVars
<1>3. ASSUME NEW s \in Streams, Disconnect(s) PROVE NoSendOnClosed'
  BY <1>3 DEF Disconnect, brokerVars, publishVars
<1>4. ASSUME NEW s \in Streams, NEW pool \in Visited, NEW key \in Kids \cup {SqMGR},
             Open(s, pool, key)
      PROVE  NoSendOnClosed'
  BY <1>4 DEF Open, brokerVars, publishVars
<1>5. ASSUME NEW p \in Publishers, Publishing(p) PROVE NoSendOnClosed'
  <2>1. CASE RLock(p)
    BY <2>1 DEF RLock, Watching, brokerVars
  <2>2. CASE EndPublish(p)
    BY <2>2 DEF EndPublish, RUnlock, brokerVars
  <2>3. ASSUME NEW s \in Streams, Send(p, s) PROVE NoSendOnClosed'
    BY <2>3 DEF Send
  <2>. QED
    BY <1>5, <2>1, <2>2, <2>3 DEF Publishing
<1>6. ASSUME NEW h \in Handlers, FailAfterChange(h) PROVE NoSendOnClosed'
  BY <1>6 DEF FailAfterChange, brokerVars
<1>7. ASSUME NEW h \in Handlers, NEW pool \in Visited, Change(h, pool) PROVE NoSendOnClosed'
  BY <1>7 DEF Change, brokerVars
<1>8. CASE Notify
  BY <1>8 DEF Notify, brokerVars
<1>9. CASE Listening
  BY <1>9 DEF Listening, NextPool, RUnlock, HandleNotification, DropNotification,
              ListenerReturns, brokerVars
<1>10. CASE Terminate \/ CloseListener \/ CloseDatabase
  BY <1>10 DEF Terminate, CloseListener, CloseDatabase, brokerVars, publishVars
<1>11. CASE UNCHANGED vars
  BY <1>11 DEF vars, brokerVars, publishVars
<1>. QED
  BY <1>1, <1>2, <1>3, <1>4, <1>5, <1>6, <1>7, <1>8, <1>9, <1>10, <1>11 DEF Next

\* No event is ever sent on a closed channel, which would bring the process
\* down (broker.go:72, :84), however many streams come and go while however
\* many publishers send.
THEOREM ClosedChannelsAreLeftAlone == Spec => []NoSendOnClosed
<1>1. Init => NoSendOnClosed
  BY DEF Init, NoSendOnClosed
<1>. QED
  BY <1>1, ChannelsStep, LiveTypeCorrect, PTL DEF Spec

-----------------------------------------------------------------------------
\* What is told.

\* A stream has its channel in the broker's map from Subscribe to Unsubscribe.
OnlyOpenSubscribe ==
  \A s \in Streams : s \in subscribers => at[s] \in {"loop", "unsubscribe"}

\* Only who watches is owed something, and by the listener only about a pool
\* of the event.
OwedToSubscribers ==
  /\ due # {} => Observed \in subscribers
  /\ Listener \in due => watches[Observed] \in Linked

\* ToldSoon, whether the client is there or not.
UnderWay(p) ==
  \/ queue[Observed] > 0
  \/ doing[p] \in {"publish", "queued"} /\ to[p] = watches[Observed]
  \/ Observed \in left[p]
  \/ p = Listener /\ (inbox > 0 \/ watches[Observed] \in tokens)

ToldInv ==
  /\ TypeOK /\ NoSendOnClosed
  /\ OnlyOpenSubscribe
  /\ OwedToSubscribers
  /\ \A p \in due : UnderWay(p)

LEMMA ToldStep == ToldInv /\ [Next]_vars => ToldInv'
<1>. SUFFICES ASSUME ToldInv, [Next]_vars PROVE ToldInv'
  OBVIOUS
<1>t. TypeOK' /\ NoSendOnClosed'
  BY TypeStep, ChannelsStep DEF ToldInv
<1>. SUFFICES (OnlyOpenSubscribe /\ OwedToSubscribers /\ \A p \in due : UnderWay(p))'
  BY <1>t DEF ToldInv
<1>. USE DEF ToldInv, TypeOK, NoSendOnClosed, OnlyOpenSubscribe, OwedToSubscribers, UnderWay
<1>1. ASSUME NEW s \in Streams, StreamRuns(s)
      PROVE  (OnlyOpenSubscribe /\ OwedToSubscribers /\ \A p \in due : UnderWay(p))'
  <2>1. CASE KeyFetched(s) \/ KeyMissing(s) \/ Refuse(s)
    BY <2>1 DEF KeyFetched, KeyMissing, Refuse, Return, brokerVars, publishVars
  <2>2. CASE Deliver(s)
    BY <2>2 DEF Deliver, streamVars, publishVars
  <2>3. CASE Subscribe(s)
    BY <2>3 DEF Subscribe, Unlock
  <2>4. CASE Unsubscribe(s)
    BY <2>4 DEF Unsubscribe, Unlock
  <2>. QED
    BY <1>1, <2>1, <2>2, <2>3, <2>4 DEF StreamRuns
<1>2. ASSUME NEW s \in Streams, StreamLocks(s)
      PROVE  (OnlyOpenSubscribe /\ OwedToSubscribers /\ \A p \in due : UnderWay(p))'
  BY <1>2 DEF StreamLocks, LockFetch, LockToSubscribe, LockToUnsubscribe, Lock,
              brokerVars, publishVars
<1>3. ASSUME NEW s \in Streams, Disconnect(s)
      PROVE  (OnlyOpenSubscribe /\ OwedToSubscribers /\ \A p \in due : UnderWay(p))'
  BY <1>3 DEF Disconnect, brokerVars, publishVars
<1>4. ASSUME NEW s \in Streams, NEW pool \in Visited, NEW key \in Kids \cup {SqMGR},
             Open(s, pool, key)
      PROVE  (OnlyOpenSubscribe /\ OwedToSubscribers /\ \A p \in due : UnderWay(p))'
  BY <1>4 DEF Open, brokerVars, publishVars
<1>5. ASSUME NEW p \in Publishers, Publishing(p)
      PROVE  (OnlyOpenSubscribe /\ OwedToSubscribers /\ \A q \in due : UnderWay(q))'
  <2>1. CASE RLock(p)
    BY <2>1 DEF RLock, Watching, streamVars, brokerVars
  <2>2. CASE EndPublish(p)
    BY <2>2 DEF EndPublish, RUnlock, streamVars, brokerVars
  <2>3. ASSUME NEW s \in Streams, Send(p, s)
        PROVE  (OnlyOpenSubscribe /\ OwedToSubscribers /\ \A q \in due : UnderWay(q))'
    BY <2>3 DEF Send, Enqueued, streamVars
  <2>. QED
    BY <1>5, <2>1, <2>2, <2>3 DEF Publishing
<1>6. ASSUME NEW h \in Handlers, FailAfterChange(h)
      PROVE  (OnlyOpenSubscribe /\ OwedToSubscribers /\ \A p \in due : UnderWay(p))'
  BY <1>6 DEF FailAfterChange, streamVars, brokerVars
<1>7. ASSUME NEW h \in Handlers, NEW pool \in Visited, Change(h, pool)
      PROVE  (OnlyOpenSubscribe /\ OwedToSubscribers /\ \A p \in due : UnderWay(p))'
  BY <1>7 DEF Change, Owed, streamVars, brokerVars
<1>8. CASE Notify
  BY <1>8 DEF Notify, Owed, streamVars, brokerVars
<1>9. CASE Listening
  <2>1. CASE NextPool
    BY <2>1 DEF NextPool, RUnlock, streamVars, brokerVars
  <2>2. CASE HandleNotification
    BY <2>2 DEF HandleNotification, streamVars, brokerVars
  <2>3. CASE DropNotification
    BY <2>3 DEF DropNotification, streamVars, brokerVars
  <2>4. CASE ListenerReturns
    BY <2>4 DEF ListenerReturns, streamVars, brokerVars
  <2>. QED
    BY <1>9, <2>1, <2>2, <2>3, <2>4 DEF Listening
<1>10. CASE Terminate \/ CloseListener \/ CloseDatabase
  BY <1>10 DEF Terminate, CloseListener, CloseDatabase, streamVars, brokerVars, publishVars
<1>11. CASE UNCHANGED vars
  BY <1>11 DEF vars, streamVars, brokerVars, publishVars
<1>. QED
  BY <1>1, <1>2, <1>3, <1>4, <1>5, <1>6, <1>7, <1>8, <1>9, <1>10, <1>11 DEF Next

\* A full channel may drop an event (broker.go:87) and still no change goes
\* untold: while a client is owed one, an event is in its channel or on its
\* way there, for any capacity and any number of publishers.
THEOREM DroppedEventsAreNotMissed == Spec => []ToldSoon
<1>1. Init => ToldInv
  BY DEF Init, ToldInv, TypeOK, NoSendOnClosed, OnlyOpenSubscribe, OwedToSubscribers
<1>2. ToldInv => ToldSoon
  BY DEF ToldInv, UnderWay, ToldSoon
<1>. QED
  BY <1>1, <1>2, ToldStep, PTL DEF Spec

-----------------------------------------------------------------------------
\* The shutdown.

StopInv ==
  /\ TypeOK /\ OnlyOpenSubscribe
  /\ phase \in {"draining", "stopped"} => ListenerClosed
  /\ phase = "stopped" => Idle

LEMMA StopStep == StopInv /\ [Next]_vars => StopInv'
<1>. SUFFICES ASSUME StopInv, [Next]_vars PROVE StopInv'
  OBVIOUS
<1>t. TypeOK'
  BY TypeStep DEF StopInv
<1>. USE <1>t DEF StopInv, TypeOK, OnlyOpenSubscribe, ListenerClosed, Idle
<1>1. ASSUME NEW s \in Streams, StreamRuns(s) PROVE StopInv'
  BY <1>1 DEF StreamRuns, KeyFetched, KeyMissing, Refuse, Return, Deliver, Subscribe,
              Unsubscribe, Unlock, streamVars, brokerVars, publishVars
<1>2. ASSUME NEW s \in Streams, StreamLocks(s) PROVE StopInv'
  BY <1>2 DEF StreamLocks, LockFetch, LockToSubscribe, LockToUnsubscribe, Lock,
              brokerVars, publishVars
<1>3. ASSUME NEW s \in Streams, Disconnect(s) PROVE StopInv'
  BY <1>3 DEF Disconnect, brokerVars, publishVars
<1>4. ASSUME NEW s \in Streams, NEW pool \in Visited, NEW key \in Kids \cup {SqMGR},
             Open(s, pool, key)
      PROVE  StopInv'
  BY <1>4 DEF Open, Accepting, brokerVars, publishVars
<1>5. ASSUME NEW p \in Publishers, Publishing(p) PROVE StopInv'
  BY <1>5 DEF Publishing, RLock, EndPublish, RUnlock, Send, streamVars, brokerVars
<1>6. ASSUME NEW h \in Handlers, FailAfterChange(h) PROVE StopInv'
  BY <1>6 DEF FailAfterChange, streamVars, brokerVars
<1>7. ASSUME NEW h \in Handlers, NEW pool \in Visited, Change(h, pool) PROVE StopInv'
  BY <1>7 DEF Change, Accepting, streamVars, brokerVars
<1>8. CASE Notify
  BY <1>8 DEF Notify, streamVars, brokerVars
<1>9. CASE Listening
  BY <1>9 DEF Listening, NextPool, RUnlock, HandleNotification, DropNotification,
              ListenerReturns, streamVars, brokerVars
<1>10. CASE Terminate \/ CloseListener \/ CloseDatabase
  BY <1>10 DEF Terminate, CloseListener, CloseDatabase, streamVars, brokerVars, publishVars
<1>11. CASE UNCHANGED vars
  BY <1>11 DEF vars, streamVars, brokerVars, publishVars
<1>. QED
  BY <1>1, <1>2, <1>3, <1>4, <1>5, <1>6, <1>7, <1>8, <1>9, <1>10, <1>11 DEF Next

\* The database is closed when no stream, no handler and no listener is left
\* to use it (main.go:101), whatever was going on when the process was asked
\* to stop.
THEOREM DatabaseIsClosedLast == Spec => []NobodyUsesClosedDatabase
<1>1. Init => StopInv
  BY DEF Init, StopInv, TypeOK, OnlyOpenSubscribe
<1>2. StopInv => NobodyUsesClosedDatabase
  BY DEF StopInv, TypeOK, OnlyOpenSubscribe, Idle, NobodyUsesClosedDatabase
<1>. QED
  BY <1>1, <1>2, StopStep, PTL DEF Spec
=============================================================================
