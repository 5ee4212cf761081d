\* Two requests at a time, all endpoints.
SPECIFICATION Spec
CONSTANTS
  g1 = g1
  g2 = g2
  g3 = g3
  g4 = g4
  r1 = r1
  r2 = r2
  r3 = r3
  None = None
  GridIds <- MCTwoGrids
  MaxGridsPerPool = 2
  Requests <- MCSlots
  Endpoints <- MCAllKinds
  Draws = {"d"}
  Configs = {"123f", "hf"}
SYMMETRY MCSymmetry
INVARIANTS
  TypeOK
  AlwaysAGrid
  NumberSetsWhole
