\* One function with branches and loops; three functions that call each other.
SPECIFICATION FairSpec
CONSTANTS
  Globals = 1
  Programs <- MCPrograms
  MaxDepth = 3
INVARIANTS
  AcceptsCompiled
  CatchesUnderflow
  CallsVerified
  StatsExact
PROPERTY
  VerificationEnds
