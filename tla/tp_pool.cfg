CONSTANTS
  t1 = t1
  t2 = t2
  r1 = r1
  waiter = waiter
  caller = caller
  r2 = r2
  Threads = {t1, t2}
  Callers = {caller}
  Waiters = {waiter}
  Tasks = {r1, r2}
  AutoDelete = {r1}
  NoThread = NoThread
  NoTask = NoTask
  Free = Free
  Priorities = {0}
  MaxThreadCounts = {1, 2}
  InitialMax = 2
  Reservations = {0, 1}
  Expiry = TRUE
  CreateMayFail = TRUE
  MaxCalls = 4
SPECIFICATION FairSpec

INVARIANTS TypeOK ActiveThreadsCounted NothingDeletedInUse NoTaskStranded
PROPERTIES LimitRespected WaitForDoneReturns
CHECK_DEADLOCK FALSE
