SPECIFICATION Spec
CONSTANTS
  Tracked = {"serverCert", "probeCert", "clientCert", "basicAuth", "webConfig", "tsdb"}
  Switches = {"clientTLS", "serverTLS"}
  FirstOn = {{"serverTLS"}}
  MaxEdits = 1
  MaxFaults = 0
INVARIANT MTLSEnabled
CHECK_DEADLOCK FALSE
