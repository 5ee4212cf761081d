\* A grid is saved after it has been deleted.
SPECIFICATION Spec
CONSTANTS
  g1 = g1
  g2 = g2
  g3 = g3
  g4 = g4
  r1 = r1
  r2 = r2
  r3 = r3
  None = None
  GridIds <- MCThreeGrids
  MaxGridsPerPool = 2
  Requests <- MCSlots
  Endpoints <- MCCopies
  Draws = {"d"}
  Configs = {"hf"}
SYMMETRY MCSymmetry
INVARIANTS
  WithinLimit
