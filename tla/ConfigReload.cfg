\* Two versions: the load at start and a notification that may be lost.
\* After a failed load without a subscription the program waits for what never comes.
SPECIFICATION ReloadFairSpec
CONSTANTS
  Serials = {"s1", "s2"}
  DeviceIds = {"i1", "i2"}
  DevicePoints = {"x", "y"}
  Protocols = {"modbus", "mqtt"}
  Histories <- MCHistories
  Snapshots = {x1, x2, x3, x4, x5}
  NoSnapshot = NoSnapshot
  NoDevice = NoDevice
INVARIANTS
  LoadIsComplete
  KeysShowSnapshots
PROPERTY
  LoadsPropagate
CHECK_DEADLOCK FALSE
