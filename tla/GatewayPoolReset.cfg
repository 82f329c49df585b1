CONSTANTS
  k1 = k1
  k2 = k2
  Keys = {k1, k2}
  Collectors = {col}
  Controls = {ctl}
  Entries = {e1, e2, e3}
  Conns = {c1, c2, c3, c4}
  Configs <- MCConfigs
  NoKey = NoKey
  NoEntry = NoEntry
  NoConn = NoConn
  MaxGeneration = 2
SPECIFICATION FairSpec
PROPERTY OwnerKeepsConnection
