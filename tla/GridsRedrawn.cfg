\* A grid is drawn twice.
SPECIFICATION Spec
CONSTANTS
  g1 = g1
  g2 = g2
  g3 = g3
  g4 = g4
  r1 = r1
  r2 = r2
  r3 = r3
  None = None
  GridIds <- MCThreeGrids
  MaxGridsPerPool = 2
  Requests <- MCSlots
  Endpoints <- MCDraws
  Draws = {"d", "e"}
  Configs = {"hf"}
SYMMETRY MCSymmetry
PROPERTIES
  NumbersStay
