\* Three reports on two stores over a clock longer than the window.
SPECIFICATION Spec
CONSTANTS
  Store = {s1, s2}
  Severity = {"P1", "RESOLVED"}
  Hours = {1, 3}
  Limits = {0, 5}
  Gaps = {1}
  RowLimit = 2
  Lookback = 2
  DefaultLimit = 2
  MaxReports = 3
  MaxTime = 3
SYMMETRY Symmetry
INVARIANTS
  TypeOK
  NoteIsBacked
  CompleteOrTruncated
  SplitAtSilence
  SummaryAddsUp
PROPERTIES
  ForgetsOnlyTheOld
