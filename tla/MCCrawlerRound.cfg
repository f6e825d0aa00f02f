SPECIFICATION FairSpec
CONSTANTS
  boot = boot
  far = far
  old = old
  Peers = {boot, old}
  Addrs = {1, 2, 3}
  Owner <- TwoPeers
  Bootnodes = {1}
  TTL = 0
  Limits = {2, 3}
  Concurrency = 2
  MaxDiscovered = 1
  MaxTime = 2
  MaxRounds = 2
  MaxFaults = 1
INVARIANTS
  EvidenceCounted
  DrainedRoundPublishes
  FreshNodesAreRedialled
PROPERTIES
  FinishedWorkIsKept
  RoundCompletes
