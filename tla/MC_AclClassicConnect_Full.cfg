\* Incoming and outgoing connections, failures, cancels and disconnects.
CONSTANTS
  a1 = a1  a2 = a2  a3 = a3
  h1 = h1  h2 = h2  h3 = h3
  Addrs <- MC_Addrs2
  Handles <- MC_Handles2
  MaxRemoteConnects = 1
  ConnectMayFail = TRUE
  HandleReuse = FALSE
  RegisteredAtStart = TRUE
  LeAddrs = {}
  Rpas = {}
  EnhancedPeers = {}
SPECIFICATION Spec
INVARIANTS HostTableMatchesController
PROPERTIES ConnectingEventuallyClears
CHECK_DEADLOCK FALSE
