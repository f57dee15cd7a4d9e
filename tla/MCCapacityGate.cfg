SPECIFICATION FairSpec
CONSTANTS
  a1 = a1
  a2 = a2
  a3 = a3
  i3 = i3
  i1 = i1
  i2 = i2
  Tasks <- Callers
  Kinds <- BrowserKinds
  Limit <- DefaultLimit
  KindOf <- CallerKind
\* A closed gate with no callers left has nothing more to do.
CHECK_DEADLOCK FALSE
INVARIANTS
  GateTypeOK
  WithinLimits
  NoIdleCapacity
  TokensAreOwned
  DrainedTellsTheTruth
PROPERTIES
  OldestFirst
  EveryWaiterLeaves
  ClosedGateDrains
