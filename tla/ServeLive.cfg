CONSTANTS
  a1 = a1
  a2 = a2
  p1 = p1
  p2 = p2
  Agent <- TwoAgents
  Caller <- Goroutines
  Cleaning = {}
  Nobody = Nobody
  Policy <- OnePolicy
  NoPolicy = NoPolicy
  NoPlan = NoPlan
  NoTable = NoTable
  Faults = {"nft", "crash"}
SPECIFICATION FairSpec
PROPERTIES
  SignalEndsAgent
  SuccessorEnforces
