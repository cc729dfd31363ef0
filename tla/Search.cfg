SPECIFICATION Spec
CONSTANTS
  Capabilities <- MCCapabilities
  Queries <- MCQueries
  Runes <- MCRunes
  Connectors <- MCConnectors
  MaxSearchQueryBytes = 30
  MaxSearchResults = 2
  maxDistinctQueryTokens = 4
  maxSearchResponseBytes = 100
  maxSupportedRegistrations = 3
  maxSearchableMetadataBytes = 150
  maxSearchTermPhrases = 1
  maxSearchTermBytes = 20
INVARIANTS
  PackedPrefix
  ExactNameFirst
  DisabledLeavesNoTrace
