\* The controller reuses a released handle before the client's Finish has erased its record.
CONSTANTS
  a1 = a1  a2 = a2  a3 = a3
  h1 = h1  h2 = h2  h3 = h3
  Addrs <- MC_Addrs2
  Handles <- MC_Handles2
  MaxRemoteConnects = 0
  ConnectMayFail = FALSE
  HandleReuse = TRUE
  RegisteredAtStart = TRUE
  LeAddrs = {}
  Rpas = {}
  EnhancedPeers = {}
SPECIFICATION Spec
INVARIANT ConnectionCompleteHandleFree
CHECK_DEADLOCK FALSE
