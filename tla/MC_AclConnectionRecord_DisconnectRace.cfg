\* Two client threads: one inside Disconnect, one running the disconnect callback and Finish.
CONSTANTS
  t1 = t1  t2 = t2
  Threads <- MC_TwoThreads
  RoleSwitch = FALSE
  MayUnregister = FALSE
  UpdateMayFail = FALSE
  InvalidParams = FALSE
  MaxCalls = 1
  MaxRemote = 1
SPECIFICATION Spec
INVARIANT RecordPresentWhenUsed
CHECK_DEADLOCK FALSE
