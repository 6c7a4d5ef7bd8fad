\* Nested loops in one thread and a thread that posts to it.
CONSTANTS
  t1 = t1
  t2 = t2
  r1 = r1
  r2 = r2
  Plain = Plain
  DeferredDelete = DeferredDelete
  Quit = Quit
  None = None
  Any = Any
  Threads = {t1, t2}
  Loopers = {t1}
  Objects = {r1, r2}
  Types = {Plain, DeferredDelete}
  Priorities = {0, 1}
  SendRequests <- NoRequests
  RemoveRequests <- NoRequests
  MoveTargets = {}
  MayDestroy = {}
  MayDeleteEvents = FALSE
  MayThrow = FALSE
  Signals = {"awake", "block"}
  MayNestInBlock = FALSE
  MaxEvents = 3
  MaxDepth = 4
  MaxLength = 2
SPECIFICATION Spec
SYMMETRY Symmetry
INVARIANTS NoEventStranded QueuedByPriority
PROPERTIES DeferredDeleteWaits PostedOrder
CHECK_DEADLOCK FALSE
