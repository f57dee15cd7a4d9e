SPECIFICATION BackupSpec
CONSTANTS
  r1 = r1
  p1 = p1
  p2 = p2
  Poller = Poller
  Requests <- OneRequest
  Saver = Saver
  Passwords <- TwoPasswords
  Keeps <- OneOrTwo
  MaxFiles = 3
  Unset = Unset
SYMMETRY SamePasswords
INVARIANTS
  ArchivesSafe
  OncePerDay
