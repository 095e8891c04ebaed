\* Functions with locals, which cstack_alloc does not clear.
SPECIFICATION FramesSpec
CONSTANTS
  Shapes <- MCStaleShapes
  VSTACK_SIZE = 4
  MaxId = 5
  Bases <- MCBases
  Globals = 0
  ArgCounts = {0}
  LocalCounts = {1}
  CSTACK_SIZE = 2
INVARIANT
  EnqueuesObjects
