SPECIFICATION FairSpec
CONSTANTS
  s1 = s1
  s2 = s2
  s3 = s3
  c1 = c1
  c2 = c2
  StartRequests = {s1, s2}
  ContinueRequests = {c1}
  Faults = {"crash"}
PROPERTIES
  AcceptedRoundSettles
