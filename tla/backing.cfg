SPECIFICATION FairSpec
CONSTANTS
  Tracked = {"serverCert", "basicAuth", "webConfig", "tsdb"}
  Switches = {"remote", "serverTLS"}
  FirstOn = {{}, {"remote"}, {"serverTLS"}, {"remote", "serverTLS"}}
  MaxEdits = 2
  MaxFaults = 1
INVARIANTS
  TypeOK
  RestsAsAsked
PROPERTIES
  SecretsKept
  KeepsContract
  Settles
CHECK_DEADLOCK FALSE
