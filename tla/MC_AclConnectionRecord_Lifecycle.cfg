\* One client thread with every switch on: role switches, UnregisterCallbacks,
\* failed and invalid updates; the client registers whenever it chooses.
CONSTANTS
  t1 = t1  t2 = t2
  Threads <- MC_OneThread
  RoleSwitch = TRUE
  MayUnregister = TRUE
  UpdateMayFail = TRUE
  InvalidParams = TRUE
  MaxCalls = 1
  MaxRemote = 1
SPECIFICATION Spec
INVARIANT RecordPresentWhenUsed
PROPERTY RecordErasedAfterLinkDrop
CHECK_DEADLOCK FALSE
