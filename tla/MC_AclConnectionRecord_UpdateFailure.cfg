\* The controller completes an LE connection update with an error status.
CONSTANTS
  t1 = t1  t2 = t2
  Threads <- MC_OneThread
  RoleSwitch = FALSE
  MayUnregister = FALSE
  UpdateMayFail = TRUE
  InvalidParams = FALSE
  MaxCalls = 1
  MaxRemote = 1
SPECIFICATION Spec
PROPERTY UpdateEventuallyResolved
CHECK_DEADLOCK FALSE
