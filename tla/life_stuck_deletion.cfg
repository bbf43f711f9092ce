SPECIFICATION FairSpec
CONSTANTS
  plain = plain
  extra = extra
  broken = broken
  Specs <- TwoSpecs
  InvalidSpecs <- Nothing
  ExtraEnvSpecs <- Extra
  FlagSets <- WithWebhook
  MaxCRs = 1
  MaxEdits = 0
  MaxFaults = 1
PROPERTIES
  DeletionCompletes
CHECK_DEADLOCK FALSE
