\* A summary is answered with the incidents of another gap_minutes.
SPECIFICATION Spec
CONSTANTS
  None = None
  Caller = {c1}
  StoreArg = {""}
  Hours = {24}
  Limits = {5}
  Gaps = {30, 60}
  RowLimit = 9
  TTL = 2
  QueryTimeout = 1
  CloseLimit = 1
  MaxEntries = 2
SYMMETRY Symmetry
INVARIANTS
  AnswersTheQuery
