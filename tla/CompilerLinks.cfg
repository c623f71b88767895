CONSTANTS
  w1 = w1
  w2 = w2
  w3 = w3
  g1 = g1
  g2 = g2
  here = here
  there = there
  Workload <- Workloads
  Address <- Addresses4
  Subnet <- ManagedSubnet
  Host <- Hosts
  Group <- Groups
  NoGroup = NoGroup
  Number <- Numbers
  Snapshot <- Snapshots
SPECIFICATION Spec
CHECK_DEADLOCK FALSE
INVARIANTS
  LinksAreBidirectional
