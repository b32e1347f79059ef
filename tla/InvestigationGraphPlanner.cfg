SPECIFICATION FairSpec
CONSTANTS
  MaxIterations = 5
  MaxToolCalls = 6
  MaxConsecutiveFailures = 3
  MaxLLMCalls = 8
  MaxRetries = 1
  RecursionLimit = 40
  AvailableTools <- AllTools
  Faults = {"planner"}
PROPERTIES
  PlannerRetryProceeds
