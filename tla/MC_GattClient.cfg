\* Scans started and stopped while advertisements, an RSSI read and a GATT
\* open are in flight; two cache slots, so the ring wraps; a controller
\* without privacy or RPA offload, so background opens can be refused.
CONSTANTS
  d1 = d1  d2 = d2  d3 = d3
  NoAddr = NoAddr
  Devices <- MC_Devices
  RandomAddr <- MC_RandomAddr
  Clients = {1}
  MaxObserved = 2
  MaxResults = 4
  MaxRssi = 1
  MaxScans = 2
  Bonded = {}
  PrivacySupported = FALSE
  RpaOffload = FALSE
  OpenTargets <- MC_OpenTargets
  MaxOpens = 1
  MaxCloses = 1
SPECIFICATION Spec
SYMMETRY MC_Symmetry
INVARIANTS TypeOK CacheIsLastAdded NoUnfollowableBackgroundOpen ConnViewsAgree
CHECK_DEADLOCK FALSE
