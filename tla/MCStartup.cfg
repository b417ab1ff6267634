SPECIFICATION MCSpec
CONSTANTS
  c1 = c1
  c2 = c2
  Cockpits <- Host
  Arguments <- AllLines
  Files <- SomeFiles
  Devices = {"wheel"}
  Flags = {"--config", "--websocket-port", "--help"}
  PortOf <- Numbers
  AddressOf <- Addresses
  ValidIds <- Ids
INVARIANTS ArgumentsAreRead TrustIsUnambiguous
CHECK_DEADLOCK FALSE
