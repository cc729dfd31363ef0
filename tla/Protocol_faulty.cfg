SPECIFICATION FaultyChildSpec
CONSTANTS
  MaxNativeCalls = 3
  MaxValueBytes = 2
  MaxIntermediateValueBytes = 4
  Lengths = {1, 2, 3}
  PipeBound = 2
PROPERTIES
  KeepsLedger
