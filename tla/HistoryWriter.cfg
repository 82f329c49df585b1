CONSTANTS
  Points = {p1, p2, p3, p4}
  Unencodable = {p4}
  QueueSize = 2
  BatchSize = 2
  RetryCount = 1
SPECIFICATION HistoryFairSpec
INVARIANTS HistoryTypeOK InOrderOnce DrainedAtExit
PROPERTIES EventuallySettled StopEnds
