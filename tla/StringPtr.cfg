\* The counter of the code, one bit wide: a shared string is saturated.
SPECIFICATION Spec
CONSTANTS
  h1 = h1
  h2 = h2
  h3 = h3
  h4 = h4
  s1 = s1
  s2 = s2
  s3 = s3
  x1 = x1
  x2 = x2
  Handles <- MCHandles
  Strings <- MCStrings
  Texts <- MCTexts
  null_string = null_string
  NullText = NullText
  Unborn = Unborn
  SAT = 1
SYMMETRY MCSymmetry
INVARIANTS
  NoDangling
  Counted
  NullSaturated
PROPERTY
  RefinesValue
