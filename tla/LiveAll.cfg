\* Two streams, a handler and the listener, on one pool.
SPECIFICATION FairSpec
CONSTANTS
  s1 = s1
  s2 = s2
  h1 = h1
  h2 = h2
  p1 = p1
  p2 = p2
  k1 = k1
  k2 = k2
  None = None
  SqMGR = SqMGR
  Listener = Listener
  Streams <- MCTwoStreams
  Observed = s1
  Handlers <- MCHandlers
  Pools <- MCTwoPools
  Visited <- MCPool
  Linked <- MCTwoPools
  Kids <- MCKids
  PublishedKeys <- MCKids
  Capacity = 1
  MaxInbox = 1
CHECK_DEADLOCK FALSE
INVARIANTS
  TypeOK
  NoSendOnClosed
  ToldSoon
  NobodyUsesClosedDatabase
PROPERTIES
  EveryClientIsTold
  EveryStreamIsAnswered
  StopsOnceClientsLeave
