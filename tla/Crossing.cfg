SPECIFICATION Spec
CONSTANTS
  Configurations <- MCConfigurations
  Strings <- MCStrings
  JSONLen <- MCJSONLen
  Repaired <- MCRepaired
  Identifiers = {"a", "b"}
  JSONNames = {"a", "b", "lt"}
  MaxInt64 = 7
  MaxFloat = 80
  MaxFloat32 = 40
  MaxValueDepth = 3
  MaxValueBytes = 24
  maxIntegerBits = 4
  byteBits = 3
  MaxUint32 = 88
  maxDiagnosticBytes = 4
  MaxAgentErrorBytes = 4
  execBytes = 20
  MaxSourceBytes = 3
CHECK_DEADLOCK FALSE
INVARIANTS
  CompiledSchemasAreAccepted
  FramesFitTheirCaps
  SentIsReceived
  AuthorizedIsHandled
  ArrivesIffWithinLimits
