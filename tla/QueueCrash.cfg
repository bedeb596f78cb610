SPECIFICATION Spec
CONSTANTS
  NoWorker = NoWorker
  NoJob = NoJob
  w1 = w1
  w2 = w2
  c1 = c1
  r1 = r1
  Worker = {w1, w2}
  MaxJob = 2
  Chapter = {c1}
  Request = {r1}
  Faults = {"worker_crash", "kill_fails", "persist_fails"}
  UiOps = {"submit", "resume", "reconcile"}
SYMMETRY WorkerSymmetry
INVARIANTS
  TypeOK
  OneWriterPerOutput
  PipelineTracked
  StartsRecorded
CHECK_DEADLOCK FALSE
