SPECIFICATION FairSpec
CONSTANTS
  Suite <- MCSuite
  PolicyCases = {"policy"}
  Fixtures <- MCFixtures
  PipeCapacity = 1
  Faults = {"rogue"}
INVARIANTS
  UnauthorizedNeverHidden
