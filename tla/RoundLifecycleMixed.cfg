SPECIFICATION Spec
CONSTANTS
  s1 = s1
  s2 = s2
  s3 = s3
  c1 = c1
  c2 = c2
  StartRequests = {s1, s2}
  ContinueRequests = {c1, c2}
  Faults = {"crash", "probe", "launch", "invoke", "leave", "report"}
SYMMETRY RequestSymmetry
INVARIANTS
  TypeOK
  ActiveIsNewest
  ProjectionAgrees
  ReportsMatchRounds
  StartsExecuteOnce
  OpenRoundStartable
PROPERTIES
  TerminalRoundsImmutable
  HistorySpec
