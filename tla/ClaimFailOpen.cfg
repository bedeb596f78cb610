SPECIFICATION MCSpec
CONSTANTS
  NoLauncher = NoLauncher
  l1 = l1
  MaxWorker = 1
  Launcher = {l1}
  MaxRestarts = 1
  Pages = 1
  Codes = 1
  MaxAttempts = 2
  MaxPageFaults = 0
  Looks <- MCLooks
INVARIANTS
  NeverEmptyOcr
CHECK_DEADLOCK FALSE
