\* One report on a store in a cycle: what the severity hysteresis holds.
SPECIFICATION HSpec
CONSTANTS
  None = None
  Store = {s1}
  Severity = {"P1", "P2", "P3"}
  Signature = {sigA, sigB}
  HoldCycles = 2
  ClearCycles = 2
  Cooldown = 1
  ReminderInterval = 1
  MaxTime = 1
  OneReportEach = TRUE
PROPERTIES
  LoweredOverCycles
