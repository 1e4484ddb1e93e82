\* Classic and LE connections to the same two peers: the shared handle
\* table, LE records seen by the Classic checks, overlapping LE creates.
CONSTANTS
  a1 = a1  a2 = a2  a3 = a3
  h1 = h1  h2 = h2  h3 = h3
  Addrs <- MC_Addrs2
  Handles <- MC_Handles2
  MaxRemoteConnects = 0
  ConnectMayFail = TRUE
  HandleReuse = FALSE
  RegisteredAtStart = TRUE
  LeAddrs <- MC_LeAddrs
  Rpas = {}
  EnhancedPeers <- MC_EnhancedPeers
SPECIFICATION Spec
INVARIANTS HostTableMatchesController
PROPERTIES ConnectingEventuallyClears
CHECK_DEADLOCK FALSE
