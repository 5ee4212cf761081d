\* Two requests, each sent once: every one is answered.
SPECIFICATION FairSpec
CONSTANTS
  alice = alice
  bob = bob
  boss = boss
  r1 = r1
  r2 = r2
  r3 = r3
  None = None
  Users <- MCPair
  Managers <- MCManagers
  Squares = {1, 2}
  Names = {"ann","bea"}
  Requests <- MCSlots
  Reusable = {}
  Endpoints <- MCSquareKinds
  Payments <- MCPayments
  BulkLists <- MCBulkTwo
  Roll100 = TRUE
CHECK_DEADLOCK FALSE
PROPERTIES
  EveryRequestEnds
