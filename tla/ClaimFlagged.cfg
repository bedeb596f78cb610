SPECIFICATION FairSpec
CONSTANTS
  NoWorker = NoWorker
  NoJob = NoJob
  w1 = w1
  c1 = c1
  r1 = r1
  Worker = {w1}
  MaxJob = 1
  Chapter = {c1}
  Request = {r1}
  Faults = {}
  UiOps = {"submit", "cancel", "confirm"}
PROPERTIES
  FlaggedRowLeavesFlight
CHECK_DEADLOCK FALSE
