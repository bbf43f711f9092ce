SPECIFICATION FairSpec
CONSTANTS
  plain = plain
  extra = extra
  broken = broken
  Specs <- ThreeSpecs
  InvalidSpecs <- Broken
  ExtraEnvSpecs <- Extra
  FlagSets <- AnyFlags
  MaxCRs = 1
  MaxEdits = 2
  MaxFaults = 1
INVARIANTS
  TypeOK
  FinalizerFirst
  PausedIsQuiet
PROPERTIES
  EditsSurvive
  Settles
  DeletionUnlessRefused
  OrphansCollected
CHECK_DEADLOCK FALSE
