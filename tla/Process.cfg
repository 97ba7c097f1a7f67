SPECIFICATION MCSpec
CONSTANTS
  Tags = {"in-1", "in_1", "other"}
  Like <- Underscore
  Contents = {s1, s2}
  Clients = {c1}
  Schemes = {"", "tls", "https"}
  Hosts = {h1}
  MaxInbounds = 3
  MaxTls = 2
  MaxOutbounds = 3
  MaxRules = 2
  MaxServers = 2
  None = None
  Ports = {1, 2}
  MaxSaves = 1
  MaxAsks = 2
  MaxFaults = 1
  MaxFiles = 3
  MaxIoFaults = 2
  MaxResets = 1
CHECK_DEADLOCK FALSE
INVARIANTS PartsTypeOK Applied OnItsData InboundsKept RoutesKept
PROPERTIES CoreBack  ComesBack
