SPECIFICATION FairSpec
CONSTANTS
  Suite <- MCSuite
  PolicyCases = {"policy"}
  Fixtures <- MCFixtures
  PipeCapacity = 1
  Faults = {"provider", "other", "rogue", "reset", "inject", "spawn", "kill", "torn", "database", "unreachable"}
INVARIANTS
  TypeOK
  RecordedRogueReported
  PassIsEarned
  VerdictFollowsFacts
  NoBackgroundGraph
PROPERTIES
  SuiteEnds
