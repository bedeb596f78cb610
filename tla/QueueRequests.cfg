SPECIFICATION Spec
CONSTANTS
  NoWorker = NoWorker
  NoJob = NoJob
  w1 = w1
  c1 = c1
  r1 = r1
  r2 = r2
  Worker = {w1}
  MaxJob = 1
  Chapter = {c1}
  Request = {r1, r2}
  Faults = {"wallet_down", "ui_restart"}
  UiOps = {"submit", "cancel", "reconcile", "stop", "confirm", "verify", "resolve", "authorize", "dismiss", "review"}
SYMMETRY RequestSymmetry
INVARIANTS
  LivePipelineIsWanted
  NoRowForgotten
PROPERTIES
  ImplementsLifecycle
CHECK_DEADLOCK FALSE
