CONSTANTS
  agent = agent
  operator = operator
  p1 = p1
  p2 = p2
  Self = agent
  Caller <- OneAgent
  Policy <- Policies
  NoPlan = NoPlan
  NoTable = NoTable
  NoPolicy = NoPolicy
  Faults = {"signal"}
  StaleLimit = 2
  AttemptSpan = 1
SPECIFICATION Spec
PROPERTIES
  ShutdownKeepsPolicy
