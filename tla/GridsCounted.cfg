\* Three requests at a time that create and delete.
SPECIFICATION Spec
CONSTANTS
  g1 = g1
  g2 = g2
  g3 = g3
  g4 = g4
  r1 = r1
  r2 = r2
  r3 = r3
  None = None
  GridIds <- MCFourGrids
  MaxGridsPerPool = 2
  Requests <- MCThreeSlots
  Endpoints <- MCNoCopies
  Draws = {"d"}
  Configs = {"hf"}
SYMMETRY MCSymmetry
INVARIANTS
  WithinLimit
PROPERTIES
  NewGridComesLast
