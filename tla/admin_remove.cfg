CONSTANTS
  Sessions = {s1, s2}
  Admins = {a1}
  BusIds = {b1, b2}
  InitDevices = {b1}
  AdminOps = {"add", "remove"}
  ConformingClients = FALSE
  WriteMayFail = TRUE
  NoTask = NoTask
  NoDev = NoDev
SPECIFICATION Spec
\* remove_device and the import arm can deadlock (run remove_deadlock), so
\* this configuration really can stop.
CHECK_DEADLOCK FALSE
SYMMETRY SessionSymmetry
INVARIANT SingleOwnership
PROPERTIES RemoveVerdictSound NoDeviceLost RegistryRefined
