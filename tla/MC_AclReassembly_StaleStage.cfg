\* Well-framed fragments, with a new PDU starting before the previous one is complete.
CONSTANTS
  Connected = {h1}
  Unknown = u
  DebugHandle = dbg
  FirstSizes <- MC_FirstSizes
  ContSizes <- MC_ContSizes
  PduLens <- MC_PduLens
  Oversized = FALSE
  QueueLimit <- MC_QueueLimit
  UpCapacity <- MC_UpCapacity
  MaxFragments <- MC_MaxFragments
SPECIFICATION Spec
INVARIANT RecombinationConsistent
CHECK_DEADLOCK FALSE
