CONSTANTS
  q1 = q1
  q2 = q2
  q3 = q3
  x = x
  y = y
  Requests = {q1, q2}
  Experiments = {x}
  ExperimentOf <- MCExperimentOf
  MaxRun = 2
  MaxNow = 2
  MaxAttempts = 1
  MaxFaults = 1
  Deletes = TRUE
  Resets = TRUE
SPECIFICATION FairSpec
CHECK_DEADLOCK FALSE
INVARIANTS
  KvMatchesWinner
  ProvedStaysDeleted
PROPERTIES
  ImplementsFirstTouch
  EvaluationAnswered
