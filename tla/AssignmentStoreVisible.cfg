CONSTANTS
  q1 = q1
  q2 = q2
  q3 = q3
  x = x
  y = y
  Requests = {q1, q3}
  Experiments = {x, y}
  ExperimentOf <- MCExperimentOf
  MaxRun = 1
  MaxNow = 1
  MaxAttempts = 1
  MaxFaults = 0
  Deletes = FALSE
  Resets = FALSE
SPECIFICATION Spec
CHECK_DEADLOCK FALSE
INVARIANT
  AckedIsVisible
