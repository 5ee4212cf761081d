\* Two requests at a time, all endpoints, every sequence of them.
SPECIFICATION Spec
CONSTANTS
  alice = alice
  bob = bob
  boss = boss
  r1 = r1
  r2 = r2
  r3 = r3
  None = None
  Users <- MCPair
  Managers <- MCManagers
  Squares = {1, 2}
  Names = {"ann", "bea"}
  Requests <- MCSlots
  Reusable <- MCSlots
  Endpoints <- MCSingleKinds
  Payments <- MCPayments
  BulkLists <- MCBulkOne
  Roll100 = TRUE
SYMMETRY MCSlotSymmetry
INVARIANTS
  RowsConsistent
  WritersAreAlone
PROPERTIES
  OnlyOwnerOrManager
  
