CONSTANTS
  k1 = k1
  k2 = k2
  i1 = i1
  i2 = i2
  Keys = {k1, k2}
  Ids = {i1, i2}
  Shared = {k1}
  Configs <- MCConfigs
  Threshold = 2
  Concurrency = 1
SPECIFICATION StatusFairSpec
PROPERTIES NoForeignStatus OnlineIsRefreshed
