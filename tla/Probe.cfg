SPECIFICATION Spec
CONSTANTS
  Descendants = TRUE
  MaxChunks = 2
INVARIANTS
  AcceptsExactlyWorkers
  CauseIsTrue
  ProbeLeavesNothing
PROPERTY ProbeEndsAlone
