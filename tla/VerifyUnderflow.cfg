\* Underflows that the verifier lets through.
SPECIFICATION Spec
CONSTANTS
  Globals = 1
  Programs <- MCBranches
  MaxDepth = 3
INVARIANT
  NoUnderflow
