SPECIFICATION Spec
CONSTANTS
  c1 = c1
  c2 = c2
  c3 = c3
  d1 = d1
  d2 = d2
  Clients <- ThreeClients
  MaxAttempts = 2
  MaxClients = 2
  Window = 3
  Lifetime = 3
  Databases <- TwoDatabases
  None = None
SYMMETRY SameClients
INVARIANTS
  LimiterHolds
  SessionsAreEarned
