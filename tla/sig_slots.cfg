CONSTANTS
  a = a
  b = b
  d = d
  main = main
  worker = worker
  c1 = c1
  c2 = c2
  destroyed = destroyed
  Threads = {main, worker}
  Objects = {a, b, d}
  Home <- MCHome
  Mutexes = {1, 2}
  MutexOf <- MCMutexOf
  Signals = {destroyed}
  Destroyed = destroyed
  Conns = {c1, c2}
  Scopes = {None}
  Kept = {c1}
  Connected <- MCConnected
  None = None
  Free = Free
  MaxDepth = 4
  MaxCalls = 3
SPECIFICATION FairSpec
INVARIANTS TypeOK ListsLiveWhileUsed NoFreedConnectionUsed ReceiversLive BrokenAreDirty EachOnce CurrentSenderIsTop
PROPERTIES ListsGuarded EveryCallReturns
CHECK_DEADLOCK FALSE
