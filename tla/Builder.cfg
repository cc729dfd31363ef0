SPECIFICATION Spec
CONSTANTS
  IDs <- MCIDs
  Names <- MCNames
  OnWire <- MCOnWire
  ReservedRoots <- MCReservedRoots
  DisabledLists <- MCDisabledLists
  MaxRegistrations = 2
INVARIANTS
  ServerIsExact
  CallsReachTheirCapability
  CatalogImpliesManifest
CONSTRAINT FewAttempts
