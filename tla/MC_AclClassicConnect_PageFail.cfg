\* A failed Connection Complete leaves queued CreateConnection requests unanswered.
CONSTANTS
  a1 = a1  a2 = a2  a3 = a3
  h1 = h1  h2 = h2  h3 = h3
  Addrs <- MC_Addrs
  Handles <- MC_Handles2
  MaxRemoteConnects = 0
  ConnectMayFail = TRUE
  HandleReuse = FALSE
  RegisteredAtStart = TRUE
  LeAddrs = {}
  Rpas = {}
  EnhancedPeers = {}
SPECIFICATION Spec
PROPERTY EveryCreateAnswered
CHECK_DEADLOCK FALSE
