SPECIFICATION SessSpec
CONSTANTS
  s1 = s1
  s2 = s2
  s3 = s3
  u1 = u1
  a1 = a1
  a2 = a2
  Tasks <- Starts
  Kinds <- InteractiveOnly
  Limit <- TwoSessions
  KindOf <- AllInteractive
  Accounts <- TwoAccounts
  AccountOf <- Account
  Users <- Requests
  Sweeper = Sweeper
  Closer = Closer
  None = None
\* A closed manager, with every start() used up, has nothing more to do.
CHECK_DEADLOCK FALSE
INVARIANTS
  SessTypeOK
  IndexAgrees
  NoLeaseForgotten
  ShutdownIsFinal
PROPERTIES
  LeavesForAReason
