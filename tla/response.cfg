SPECIFICATION FairSpec
CHECK_DEADLOCK FALSE
CONSTANTS
  Task <- MCTask
  Char = {1, 2, 3, 4, 5}
  Body <- MCBody
  m_alloc_size = 2
  buf_size = 2
  Chunks = {1, 2, 3}
  MaxSyncs = 1
  Faults = {"network", "memory"}
INVARIANTS
  TypeOK
  NothingLost
PROPERTIES
  ExchangeKept
  EndReachesPlugin
