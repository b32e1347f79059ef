SPECIFICATION Spec
CONSTANTS
  Paths = {"a.md", "b.md"}
  Position <- MCPosition
  Revisions = {"r1", "r2", "r3"}
  ServiceOf <- MCServiceOf
  EnvironmentOf <- MCEnvironmentOf
  SizeOf <- MCSizeOf
  Similarity <- MCSimilarity
  Keywords <- MCKeywords
  Ingestions = {"i1", "i2"}
  Uploads = {"u1"}
  Searches = {"q1"}
  ModelOf <- MCModelOf
  Metadata <- MCMetadata
  Scopes <- MCScopes
  TopK = 2
  CandidateMultiplier = 1
  Indexed = "b.md"
  Original = "r1"
  Corpora <- MCDirectories
  MaxUpdates = 1
  Faults = {"provider", "database", "crash", "acknowledgement", "refresh"}
INVARIANTS
  TypeOK
  DocumentWhole
  AllOrNothing
  SearchInScope
