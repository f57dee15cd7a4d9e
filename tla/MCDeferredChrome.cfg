SPECIFICATION FairDeferredSpec
CONSTANTS
  s1 = s1
  s2 = s2
  u1 = u1
  a1 = a1
  a2 = a2
  Starts <- TwoStarts
  Accounts <- TwoAccounts
  Calls <- OneAccountOrTwo
  Users <- OneUser
  Sweeper = Sweeper
  Closer = Closer
  Limit = 2
  Nothing = Nothing
\* A closed manager, with every start() used up, has nothing more to do.
CHECK_DEADLOCK FALSE
INVARIANTS
  NothingForgotten
PROPERTIES
  DeferredEnds
