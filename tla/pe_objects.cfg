\* Moves, removals and deletion between two looping threads.
CONSTANTS
  t1 = t1
  t2 = t2
  r1 = r1
  r2 = r2
  Plain = Plain
  DeferredDelete = DeferredDelete
  Quit = Quit
  None = None
  Any = Any
  Threads = {t1, t2}
  Loopers = {t1, t2}
  Objects = {r1}
  Types = {Plain, DeferredDelete}
  Priorities = {0}
  SendRequests <- NoRequests
  RemoveRequests <- SomeRemovals
  MoveTargets = {t1, t2}
  MayDestroy = {r1}
  MayDeleteEvents = FALSE
  MayThrow = FALSE
  Signals = {}
  MayNestInBlock = FALSE
  MaxEvents = 2
  MaxDepth = 2
  MaxLength = 2
SPECIFICATION Spec
INVARIANTS PostedEventsCounted OneDeferredDelete NothingForTheDead
PROPERTIES ImplementsEventQueue
CHECK_DEADLOCK FALSE
