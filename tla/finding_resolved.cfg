\* A RESOLVED card that is refused is never posted again.
SPECIFICATION HSpec
CONSTANTS
  None = None
  Store = {s1}
  Severity = {"P1", "P2"}
  Signature = {sigA}
  HoldCycles = 2
  ClearCycles = 2
  Cooldown = 1
  ReminderInterval = 1
  MaxTime = 2
  OneReportEach = FALSE
INVARIANTS
  RecoveredMeansResolved
