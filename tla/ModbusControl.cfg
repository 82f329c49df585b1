\* A write to a point the worker polls, twice in one command, and commands that name
\* other devices; two commands in a row share the connection.
SPECIFICATION FairSpec
CONSTANTS
  w1 = w1
  p = p
  v1 = v1
  v2 = v2
  unnamed = unnamed
  stranger = stranger
  modbus = modbus
  opcua = opcua
  mqtt = mqtt
  Workers = {w1}
  Values = {v1, v2}
  Reads <- MCReads
  Protocol <- MCProtocol
  Attribute <- MCAttribute
  Commands <- MCCommands
  Unnamed = unnamed
  Control = Control
  Nobody = Nobody
  MaxCommands = 2
INVARIANTS
  HonestReport
  CleanHandover
PROPERTY
  EveryoneMovesOn
