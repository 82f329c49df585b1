\* Four devices compete for two workers and three places in the channel, and one event
\* of two bytes leaves room for only one more of its device.
CONSTANTS
  small = small
  big = big
  NoDevice = NoDevice
  NoPayload = NoPayload
  Devices = {d1, d2, d3, d4}
  Workers = {w1, w2}
  Payloads <- MCPayloads
  Bytes <- MCBytes
  QueueSize = 3
  QueueMaxBytes = 6
  DeviceQueueSize = 2
  DeviceQueueMaxBytes = 3
SPECIFICATION FairSpec
INVARIANTS
  TypeOK
  TokenDiscipline
  SendNeverBlocks
  Accounting
PROPERTIES
  ImplementsDelivery
  EventuallyPublished
