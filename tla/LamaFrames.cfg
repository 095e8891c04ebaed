\* Calls of functions and closures that have no locals.
SPECIFICATION FramesSpec
CONSTANTS
  Shapes <- MCShapes
  VSTACK_SIZE = 5
  MaxId = 2
  Bases <- MCBothBases
  Globals = 1
  ArgCounts = {0, 1}
  LocalCounts = {0}
  CSTACK_SIZE = 3
INVARIANTS
  ActiveClosures
