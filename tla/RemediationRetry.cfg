SPECIFICATION Spec
CONSTANTS
  Requests = {a1, a2}
  Customers = {}
  Interventions = {}
  Faults = {"database"}
  MaxUnsaved = 3
  MaxDisturbances = 1
INVARIANT ResumeErrorRetryable
CHECK_DEADLOCK FALSE
