SPECIFICATION Spec
CONSTANTS
  Descendants = TRUE
  MaxChunks = 2
PROPERTY ProbeReturns
