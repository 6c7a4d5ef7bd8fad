CONSTANTS
  t1 = t1
  t2 = t2
  r1 = r1
  waiter = waiter
  caller = caller
  r2 = r2
  Threads = {t1, t2}
  Callers = {caller}
  Waiters = {waiter}
  Tasks = {r1, r2}
  AutoDelete = {r1}
  NoThread = NoThread
  NoTask = NoTask
  Free = Free
  Priorities = {0}
  MaxThreadCounts = {1, 2}
  InitialMax = 2
  Reservations = {0, 1}
  Expiry = TRUE
  CreateMayFail = FALSE
  MaxCalls = 4
SPECIFICATION Spec

INVARIANTS NoTaskLost
CHECK_DEADLOCK FALSE
