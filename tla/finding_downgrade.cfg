\* A downgrade is accepted after cycles that are not consecutive.
SPECIFICATION HSpec
CONSTANTS
  None = None
  Store = {s1}
  Severity = {"P1", "P2"}
  Signature = {sigA}
  HoldCycles = 2
  ClearCycles = 2
  Cooldown = 1
  ReminderInterval = 1
  MaxTime = 1
  OneReportEach = TRUE
PROPERTIES
  LoweredOverConsecutiveCycles
