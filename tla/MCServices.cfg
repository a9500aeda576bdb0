\* Queue, replay, read and ring limits that can each be exceeded; three
\* coroutines share two connections; three requests while the database
\* changes once.
SPECIFICATION AllSpec
CONSTANTS
  MaxEvents = 5
  StreamLimit = 3
  QueueLimit = 2
  ReplayBatch = 2
  ReadBatch = 2
  RingLimit = 2
  MaxStreamFaults = 3
  PoolSize = 2
  MaxCommands = 2
  MaxPoolFaults = 2
  Tasks = {t1, t2, t3}
  Requests = {q1, q2, q3}
  MaxChanges = 1
  MaxCacheFaults = 1
INVARIANTS NoSilentGap ConnectionsAccounted OwnReply SingleWinner
PROPERTIES OnlyForward EventuallyCurrent 
CHECK_DEADLOCK FALSE
