SPECIFICATION FairSpec
CONSTANTS
  Difficulties = {1, 3}
  MaxHeight = 3
  MaxSwitches = 2
  MaxBatch = 2
  MaxFaults = 1
INVARIANTS
  TipImpliesPayloads
  MarkerOutlivesNothing
  MarkerIsNewest
  LinksAgree
PROPERTIES
  LinksAreTrue
  ReconcileFinishes
