\* A claim whose middleware ran before the pool was locked.
SPECIFICATION Spec
CONSTANTS
  alice = alice
  bob = bob
  boss = boss
  r1 = r1
  r2 = r2
  r3 = r3
  None = None
  Users <- MCPair
  Managers <- MCManagers
  Squares = {1, 2}
  Names = {"ann"}
  Requests <- MCOne
  Reusable <- MCOne
  Endpoints <- MCLocking
  Payments <- MCPayments
  BulkLists <- MCBulkOne
  Roll100 = TRUE
PROPERTIES
  LockedMeansManagersOnly
