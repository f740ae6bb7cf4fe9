CONSTANTS
  Sessions = {s1, s2}
  Admins = {a1}
  BusIds = {b1, b2}
  InitDevices = {b1}
  AdminOps = {"add"}
  ConformingClients = FALSE
  WriteMayFail = FALSE
  NoTask = NoTask
  NoDev = NoDev
SPECIFICATION Spec
SYMMETRY SessionSymmetry
INVARIANT NoOrphan
