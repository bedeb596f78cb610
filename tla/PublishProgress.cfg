SPECIFICATION MCSpec
CONSTANTS
  p1 = p1
  p2 = p2
  s1 = s1
  NoFile = NoFile
  NoRemote = NoRemote
  Post = {p1, p2}
  Sha = {s1}
  MaxPublish = 2
  MaxRemote = 2
  MaxOutage = 1
  MaxAttempt = 2
  Demands <- MCDemands
  Stages = 2
  MaxCount = 1
  MaxPending = 1
  PipeSize = 1
  MaxLines = 3
INVARIANTS
  TypesOK
  FeedIsReadable
  JobsTellTheTruth
  NoDuplicate
  PublishingIsBacked
  NoSequenceGap
  NoEventMissed
PROPERTIES
  WithdrawnNeverPublished
  AttemptEnds
  ProgressNeverGoesBack
  RunnerCloses
CHECK_DEADLOCK FALSE
