SPECIFICATION MCSpec
CONSTANTS
  NoLauncher = NoLauncher
  l1 = l1
  MaxWorker = 4
  Launcher = {l1}
  MaxRestarts = 2
  Pages = 2
  Codes = 2
  MaxAttempts = 2
  MaxPageFaults = 2
  Looks <- MCLooks
INVARIANTS
  TypesOK
  BudgetRespected
  OneChild
  CompletedIsCurrent
  RenderedIsPaid
PROPERTIES
  PdfIsWhole
  IntentRespected
  Replaced
CHECK_DEADLOCK FALSE
