SPECIFICATION AutoFairSpec
CONSTANTS
  a1 = a1
  a2 = a2
  a3 = a3
  Tasks <- Automations
  Kinds <- AutomationOnly
  Limit <- TwoLeases
  KindOf <- AllAutomation
  Closer = Closer
  None = None
\* A closed manager has nothing more to do.
CHECK_DEADLOCK FALSE
INVARIANTS
  AutoTypeOK
  LeaseCoversContext
  OneBrowser
  SnapshotIsComplete
  ClosedIsQuiet
PROPERTIES
  ShutdownCompletes
