\* Sends of everything, of one receiver and of one type, removals, exceptions, loops.
CONSTANTS
  t1 = t1
  t2 = t2
  r1 = r1
  r2 = r2
  Plain = Plain
  DeferredDelete = DeferredDelete
  Quit = Quit
  None = None
  Any = Any
  Threads = {t1}
  Loopers = {t1}
  Objects = {r1, r2}
  Types = {Plain, DeferredDelete}
  Priorities = {0, 1}
  SendRequests <- EverySend
  RemoveRequests <- ReceiverRemovals
  MoveTargets = {}
  MayDestroy = {}
  MayDeleteEvents = TRUE
  MayThrow = TRUE
  Signals = {"awake"}
  MayNestInBlock = FALSE
  MaxEvents = 3
  MaxDepth = 3
  MaxLength = 2
SPECIFICATION Spec
INVARIANTS TypeOK SortedTail PostedEventsCounted PassedAreTaken
CHECK_DEADLOCK FALSE
