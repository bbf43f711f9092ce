\* Every pair of changes to the smallest manifest, for each component.
SPECIFICATION Spec
CONSTANTS
  Minimal <- SmallestManifest
  Alternatives <- FieldChoices
  MaxChanges = 2
  Mebi = 16
INVARIANTS
  WellFormed
  RefsProvided
  FilesMounted
  OperatorWins
  Complete
  GoLimits
  SelectorKept
  NamesFit
  MajorityRequired
PROPERTY RollsOnlyItsOwn
