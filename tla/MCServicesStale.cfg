\* A dashboard is fetched because of a change.
SPECIFICATION AllSpec
CONSTANTS
  MaxEvents = 2
  StreamLimit = 3
  QueueLimit = 2
  ReplayBatch = 2
  ReadBatch = 2
  RingLimit = 2
  MaxStreamFaults = 1
  PoolSize = 2
  MaxCommands = 2
  MaxPoolFaults = 2
  Tasks = {t1, t2, t3}
  Requests = {q1, q2, q3}
  MaxChanges = 1
  MaxCacheFaults = 1
INVARIANTS RefetchShowsChange
CHECK_DEADLOCK FALSE
