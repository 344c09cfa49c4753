\* Two stores: outcomes of one lost while the other goes on.
SPECIFICATION HSpec
CONSTANTS
  None = None
  Store = {s1, s2}
  Severity = {"P1"}
  Signature = {sigA, sigB}
  HoldCycles = 2
  ClearCycles = 2
  Cooldown = 1
  ReminderInterval = 1
  MaxTime = 2
  OneReportEach = FALSE
SYMMETRY Symmetry
INVARIANTS
  ChannelAgrees
PROPERTIES
  ImplementsOperatorView
