\* Every call is answered, if sessions open or fail to.
SPECIFICATION FairSpec
CONSTANTS
  None = None
  Caller = {c1, c2}
  StoreArg = {"s1"}
  Hours = {0, 24}
  Limits = {}
  Gaps = {30}
  RowLimit = 9
  TTL = 1
  QueryTimeout = 1
  CloseLimit = 1
  MaxEntries = 2
PROPERTIES
  EveryCallEnds
