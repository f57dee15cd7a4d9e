SPECIFICATION NotifySpec
CONSTANTS
  a1 = a1
  a2 = a2
  c1 = c1
  c2 = c2
  s1 = s1
  kuma = kuma
  napcat = napcat
  x = x
  y = y
  bad = bad
  Invalid = bad
  Single <- Kuma
  Accounts <- TwoAccounts
  Channels <- TwoChannels
  Types <- BothTypes
  Configs <- Settings
  Legacy <- OldSecrets
  Senders <- OneSender
  Idle = Idle
SYMMETRY AnyChannel
INVARIANTS
  MigrationSafe
  DeliveriesAreIsolated
