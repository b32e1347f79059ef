SPECIFICATION Spec
CONSTANTS
  Requests = {a1, a2}
  Customers = {c1}
  Interventions = {"deploy", "misconfigure", "delay", "reset_order", "reset_deployment", "reset_logs", "reset_payment"}
  Faults = {"crash", "lost_answer", "database", "outage"}
  MaxUnsaved = 2
  MaxDisturbances = 1
SYMMETRY Symmetry
INVARIANTS
  TypeOK
  CheckpointNeverAhead
  ResolvedIsEarned
  ExecutedIsReal
  ReportAgrees
  RetryableUntilApplied
PROPERTIES
  RollbackOnlyApproved
CHECK_DEADLOCK FALSE
