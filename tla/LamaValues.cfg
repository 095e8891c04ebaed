\* Comparison, hashing, tags, patterns and arithmetic on a small machine.
SPECIFICATION Spec
CHECK_DEADLOCK FALSE
CONSTANTS
  WordBits = 12
  CharBits = 2
  HashBits = 9
  Ints <- MCInts
  Outside = {5}
  Names <- MCNames
  Makes <- MCMakes
  MaxObjects = 3
INVARIANTS
  CompareIsEquality
  CompareEnds
  CompareOrders
  HashAgrees
  EqualMatch
  WordsSuffice
