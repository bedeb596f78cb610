SPECIFICATION Spec
CONSTANTS
  NoWorker = NoWorker
  NoJob = NoJob
  w1 = w1
  w2 = w2
  c1 = c1
  r1 = r1
  Worker = {w1, w2}
  MaxJob = 2
  Chapter = {c1}
  Request = {r1}
  Faults = {"stale_lease"}
  UiOps = {"submit", "resume"}
SYMMETRY WorkerSymmetry
INVARIANTS
  OneWriterPerOutput
  OneSupervisor
CHECK_DEADLOCK FALSE
