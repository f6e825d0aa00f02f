SPECIFICATION Spec
CONSTANTS
  boot = boot
  far = far
  old = old
  Peers = {boot, far, old}
  Addrs = {1, 2, 3, 4}
  Owner <- ThreePeers
  Bootnodes = {1}
  TTL = 1
  Limits = {4}
  Concurrency = 1
  MaxDiscovered = 2
  MaxTime = 4
  MaxRounds = 2
  MaxFaults = 0
INVARIANT
  TerminalTriedEveryAlias
