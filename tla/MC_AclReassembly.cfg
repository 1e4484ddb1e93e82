\* Reassembly and delivery with a controller that follows the framing rules.
CONSTANTS
  Connected = {h1}
  Unknown = u
  DebugHandle = dbg
  FirstSizes <- MC_FirstSizes
  ContSizes <- MC_ContSizes
  PduLens <- MC_PduLens
  Oversized = FALSE
  QueueLimit <- MC_QueueLimit
  UpCapacity <- MC_UpCapacity
  MaxFragments <- MC_MaxFragments
SPECIFICATION Spec
INVARIANTS TypeOK PduWellFormed StageIsPduPrefix
PROPERTIES EventuallyAllDelivered
CHECK_DEADLOCK FALSE
