SPECIFICATION Spec
CONSTANTS
  CountOfClusters = 2
  SectorSize = 2
  RootEntries = 2
  Names = {a, b}
  Handles = {h1, h2}
  Modes = {TRUE}
  MaxLength = 3
  Image <- mc_Blank
SYMMETRY Alike
INVARIANTS
  
  
  Positioned
\* a call may go astray, and what follows is not modelled
CHECK_DEADLOCK FALSE
