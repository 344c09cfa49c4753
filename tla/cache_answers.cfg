\* Calls that overlap, of tools and arguments whose keys lie close together.
SPECIFICATION Spec
CONSTANTS
  None = None
  Caller = {c1, c2}
  StoreArg = {""}
  Hours = {24}
  Limits = {5, 10}
  Gaps = {30}
  RowLimit = 9
  TTL = 2
  QueryTimeout = 1
  CloseLimit = 1
  MaxEntries = 1
SYMMETRY Symmetry
INVARIANTS
  TypeOK
  AnswersTheQuestion
  FreshAnswers
  GrowthIsBounded
