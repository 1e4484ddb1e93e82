\* The same client, checked for posts through a null handler or sink.
CONSTANTS
  t1 = t1  t2 = t2
  Threads <- MC_OneThread
  RoleSwitch = TRUE
  MayUnregister = TRUE
  UpdateMayFail = TRUE
  InvalidParams = TRUE
  MaxCalls = 1
  MaxRemote = 1
SPECIFICATION Spec
INVARIANT CallbacksPostedToLiveSinks
CHECK_DEADLOCK FALSE
