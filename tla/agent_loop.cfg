SPECIFICATION FairSpec
CONSTANTS
  None = None
  Model = {m1, m2}
  EnvProvider = "vllm"
  EnvModel = None
  HistoryOn = TRUE
  RefreshEvery = 2
  Allowance <- MCAllowance
  ProbeLimit = 5
INVARIANTS
  TypeOK
  ClientInUseIsOpen
  OneClient
  OneLateCycle
  ProbeSparesTheTurning
PROPERTIES
  PastIsKept
  PollsGoOn
  ImplementsPodLife
