SPECIFICATION Spec
CONSTANTS
  NoWorker = NoWorker
  NoJob = NoJob
  w1 = w1
  c1 = c1
  r1 = r1
  r2 = r2
  Worker = {w1}
  MaxJob = 2
  Chapter = {c1}
  Request = {r1, r2}
  Faults = {}
  UiOps = {"submit", "resume", "reconcile"}
SYMMETRY RequestSymmetry
INVARIANTS
  ResumedIsHistory
CHECK_DEADLOCK FALSE
