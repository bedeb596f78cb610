SPECIFICATION MCSpec
CONSTANTS
  Batches = 3
  FirstBatches = 2
  MaxYkFaults = 3
  Regions = {1, 2}
  Concurrency = {1, 2}
  Replies <- MCReplies
  MaxRevisions = 2
  MaxRestarts = 1
INVARIANTS
  YkTypeOK
  ChargedWorkIsKept
  SettlementsAgree
  RevisionTypeOK
  EndedIsComplete
  NamedPdfMatches
  RecordedPdfIsWhole
  PollSettles
PROPERTIES
  CountedWorkIsPaid
CHECK_DEADLOCK FALSE
