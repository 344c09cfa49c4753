\* One store: the life of its incidents and what its operators see of it.
SPECIFICATION HSpec
CONSTANTS
  None = None
  Store = {s1}
  Severity = {"P1", "P2", "RESOLVED"}
  Signature = {sigA, sigB}
  HoldCycles = 2
  ClearCycles = 2
  Cooldown = 2
  ReminderInterval = 2
  MaxTime = 5
  OneReportEach = FALSE
INVARIANTS
  HTypeOK
  IncidentsApart
  NothingLeftBehind
  NoPhantomAlert
  RecoveriesAreQuiet
  AlertsDoNotLinger
  ChannelAgrees
  NoRepeatedCard
PROPERTIES
  ImplementsLifecycle
  ImplementsOperatorView
  RemindersApart
