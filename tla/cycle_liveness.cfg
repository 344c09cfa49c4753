\* Outages end; a store that is no longer faulting is closed.
SPECIFICATION FairSpec
CONSTANTS
  None = None
  Store = {s1, s2}
  Severity = {"P1"}
  Signature = {sigA, sigB}
  HoldCycles = 2
  ClearCycles = 2
  Cooldown = 1
  ReminderInterval = 1
  MaxTime = 1
PROPERTIES
  QuietStoresClose
