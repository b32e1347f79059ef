SPECIFICATION FairSpec
CONSTANTS
  Requests = {"r1", "r2"}
  Starter = "start"
  Readers = {"q1"}
  RetryableNodes = {"investigation"}
  Faults = {"database", "dead_end", "crash"}
INVARIANTS
  TypeOK
  AnswersAreTrue
  FailureStaysVisible
  NoRetryAccepted
PROPERTIES
  EveryRequestAnswered
