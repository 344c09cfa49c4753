\* A detection call and two triage calls, and the start of a second cycle.
SPECIFICATION Spec
CONSTANTS
  Store = {s1, s2}
  SpoolDir = TRUE
  MaxCalls = 3
  Id = {u1, u2, u3}
  None = None
SYMMETRY Symmetry
INVARIANTS
  TypeOK
  HandedOnWhole
  UsageOfEveryAnswer
  NoHalfRecord
PROPERTIES
  ImplementsLedger
CHECK_DEADLOCK FALSE
