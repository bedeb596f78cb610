SPECIFICATION FairSpec
CONSTANTS
  NoWorker = NoWorker
  NoJob = NoJob
  w1 = w1
  w2 = w2
  c1 = c1
  r1 = r1
  Worker = {w1, w2}
  MaxJob = 1
  Chapter = {c1}
  Request = {r1}
  Faults = {"worker_crash", "runner_alone", "shim_skew"}
  UiOps = {"submit", "cancel"}
PROPERTIES
  QueuedIsTaken
  FlightEnds
CHECK_DEADLOCK FALSE
