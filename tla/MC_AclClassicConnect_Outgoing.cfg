\* Outgoing connections only, every page succeeds: the pending queue protocol.
CONSTANTS
  a1 = a1  a2 = a2  a3 = a3
  h1 = h1  h2 = h2  h3 = h3
  Addrs <- MC_Addrs
  Handles <- MC_Handles
  MaxRemoteConnects = 0
  ConnectMayFail = FALSE
  HandleReuse = FALSE
  RegisteredAtStart = FALSE
  LeAddrs = {}
  Rpas = {}
  EnhancedPeers = {}
SPECIFICATION Spec
INVARIANT TypeOK
PROPERTIES CreatesInRequestOrder EveryCreateAnswered ConnectQueueRefined
CHECK_DEADLOCK FALSE
