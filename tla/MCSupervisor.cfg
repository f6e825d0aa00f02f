SPECIFICATION FairSpec
CONSTANTS
  Immediate = 1
  Networks = 2
  MaxAttempts = 1
  RateLimit = 2
  RestartWindow = 2
  MaxHandoffs = 1
  HandoffWindow = 1
  StableTime = 1
  SpawnAttempts = 2
  ExitCodes = {"ok", "error", "unrecoverable"}
  MaxTime = 1
  MaxExits = 2
  Flaky = {2, 3}
INVARIANTS
  TypeOK
  
  GateHolds
  ListedChildrenStayStopped
PROPERTIES
  ExitsAreHandled
  ShutdownCompletes
  DeferredStarts
