CONSTANTS
  q1 = q1
  q2 = q2
  a = a
  e1 = e1
  Requests = {q1, q2}
  Rows = {a}
  RowsOf <- MCRowsOf
  Entities = {e1}
  EntityOf <- MCEntityOf
  MaxNow = 2
  MaxSeals = 2
  MaxPublishFailures = 1
  Resets = TRUE
SPECIFICATION FairSpec
CHECK_DEADLOCK FALSE
INVARIANTS
  TypeOK
  ProvedDeletionIsRedacted
  NothingQueuedAfterReset
PROPERTIES
  RetriesReplaySameCommit
  AcceptedIsPublished
  DeletionConverges
