\* One request at a time, all endpoints, every sequence of them.
SPECIFICATION Spec
CONSTANTS
  alice = alice
  bob = bob
  boss = boss
  r1 = r1
  r2 = r2
  r3 = r3
  None = None
  Users <- MCPlayers
  Managers <- MCManagers
  Squares = {1, 2, 3}
  Names = {"ann", "bea"}
  Requests <- MCOne
  Reusable <- MCOne
  Endpoints <- MCAllKinds
  Payments <- MCPayments
  BulkLists <- MCBulkTwo
  Roll100 = TRUE
INVARIANTS
  TypeOK
  FamiliesIntact
