SPECIFICATION FairSpec
CONSTANTS
  Hashes = {"h1", "h2"}
  NoHash = NoHash
  MaxEdits = 2
  MaxCutovers = 2
  MaxFaults = 1
INVARIANTS
  TypeOK
  NoLostWakeup
PROPERTIES
  CutoverKept
  Settles
CHECK_DEADLOCK FALSE
