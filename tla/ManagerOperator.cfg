CONSTANTS
  agent = agent
  operator = operator
  p1 = p1
  p2 = p2
  Self = agent
  Caller <- AgentAndOperator
  Policy <- Policies
  NoPlan = NoPlan
  NoTable = NoTable
  NoPolicy = NoPolicy
  Faults = {"nft", "lost", "signal", "crash", "operator", "clock"}
  StaleLimit = 2
  AttemptSpan = 1
SPECIFICATION Spec
SYMMETRY PolicySymmetry
INVARIANTS
  TypeOK
  ExactlyOneTable
PROPERTIES
  NoGap
  RemovedMeansGone
  LoopIsServed
