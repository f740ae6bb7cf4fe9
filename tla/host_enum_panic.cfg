\* Both backends, any host call may fail: one unwrapped error aborts the whole list.
\* Construction returns, so its final states have no successor.
CONSTANTS
  h1 = h1
  h2 = h2
  h3 = h3
  HostDevices <- MCHostDevices
  HostList <- MCHostList
  Bus <- MCBus
  Addr <- MCAddr
  Port <- MCPort
  Backends = {"rusb", "nusb"}
  MayFail = {"open", "device_descriptor", "config", "string", "claim", "speed"}
SPECIFICATION Spec
CHECK_DEADLOCK FALSE
INVARIANT EnumerationSurvivesFaults
