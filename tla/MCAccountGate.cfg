SPECIFICATION FairSpec
CONSTANTS
  t1 = t1
  t2 = t2
  t3 = t3
  t4 = t4
  a1 = a1
  a2 = a2
  Tasks <- Callers
  Accounts <- BothAccounts
  None = None
INVARIANTS
  TypeOK
  MutualExclusion
  NoWaiterDropped
  RetainedWhileActive
  DeletingTellsTheTruth
PROPERTIES
  ServesInOrder
  EveryWaiterLeaves
