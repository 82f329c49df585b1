CONSTANTS
  Devices <- MCDevices
  Commands <- MCCommands
SPECIFICATION PointsSpec
INVARIANTS BatchingIsInvisible WritesReadBack
\* A device is planned, collected once and written once.
CHECK_DEADLOCK FALSE
