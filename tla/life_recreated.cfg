SPECIFICATION Spec
CONSTANTS
  plain = plain
  extra = extra
  broken = broken
  Specs <- TwoSpecs
  InvalidSpecs <- Nothing
  ExtraEnvSpecs <- Extra
  FlagSets <- NoWebhook
  MaxCRs = 2
  MaxEdits = 0
  MaxFaults = 0
INVARIANTS
  WorkloadHasSecret
CHECK_DEADLOCK FALSE
