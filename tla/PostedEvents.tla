---------------------------- MODULE PostedEvents ----------------------------
(***************************************************************************)
(* The posted event queues of QtCore: QCoreApplication::postEvent,         *)
(* sendPostedEvents and removePostedEvents (kernel/qcoreapplication.cpp),  *)
(* QPostEventList (thread/qthread_p.h), QObject::moveToThread and the      *)
(* deletion of an object (kernel/qobject.cpp), driven by event loops that  *)
(* are reduced here to what the queue sees of them: a loop sends what is   *)
(* posted and then waits in its dispatcher or polls it.                    *)
(*                                                                         *)
(* Every thread owns one list, protected by the list's mutex.  A thread    *)
(* runs a stack of calls: loops (exec, processEvents) and sends            *)
(* (sendPostedEvents); application code runs when the stack is empty, when *)
(* the top send has released the mutex to deliver an event, or when the    *)
(* dispatcher of the top loop emits awake() or aboutToBlock(), and it may  *)
(* then do anything the API allows, nested loops and sends included.       *)
(* One iteration of a loop of the source is one action.                    *)
(***************************************************************************)
EXTENDS Integers, Sequences, FiniteSets

CONSTANTS
  Threads,         \* threads, each with a QThreadData and an event dispatcher
  Objects,         \* QObjects
  Types,           \* the event types posted
  DeferredDelete,  \* QEvent::DeferredDelete
  Quit,            \* QEvent::Quit
  Priorities,      \* the priorities events are posted with
  None,            \* the null receiver
  Any,             \* event type 0
  Loopers,         \* threads whose code runs event loops and sends
  SendRequests,    \* the <<receiver, type>> code passes to sendPostedEvents
  RemoveRequests,  \* the <<receiver, type>> passed to removePostedEvents
  MoveTargets,     \* the threads objects are moved to
  MayDestroy,      \* objects that code may delete
  MayDeleteEvents, \* whether code deletes events that are posted
  MayThrow,        \* whether event handlers throw exceptions
  Signals,         \* signals of the dispatchers that slots are connected to:
                   \* "awake" for awake(), "block" for aboutToBlock()
  MayNestInBlock,  \* whether slots of aboutToBlock() enter event loops
  MaxEvents,       \* bound on the events posted
  MaxDepth,        \* bound on the calls on a thread's stack
  MaxLength        \* bound on the list that an object is moved to

ASSUME ConstantsAssumption ==
  /\ None \notin Objects
  /\ Any \notin Types
  /\ Priorities \subseteq Int /\ 0 \in Priorities
  /\ SendRequests \subseteq (Objects \cup {None}) \X (Types \cup {Any})
  /\ RemoveRequests \subseteq (Objects \cup {None}) \X (Types \cup {Any})
  /\ Loopers \subseteq Threads /\ MoveTargets \subseteq Threads
  /\ MayDestroy \subseteq Objects
  /\ Signals \subseteq {"awake", "block"}
  /\ {MayThrow, MayDeleteEvents, MayNestInBlock} \subseteq BOOLEAN
  /\ MaxEvents \in Nat /\ MaxDepth \in Nat /\ MaxLength \in Nat

VARIABLES
  list,             \* QThreadData::postEventList, the QVector of QPostEvent
  startOffset,      \* QPostEventList::startOffset
  insertionOffset,  \* QPostEventList::insertionOffset
  recursion,        \* QPostEventList::recursion
  canWait,          \* QThreadData::canWait
  loopLevel,        \* QThreadData::loopLevel
  threadData,       \* QObjectPrivate::threadData: the thread of each object
  postedEvents,     \* QObjectPrivate::postedEvents
  alive,            \* whether the object has not been deleted
  stack,            \* the loops and sends each thread is running
  call,             \* the queue operation each thread is inside of
  woken,            \* threads whose dispatcher has a wake-up to consume
  lastEvent         \* the number of events posted so far; names the next one

objectVars == <<threadData, postedEvents, alive>>
queueVars == <<list, startOffset, insertionOffset, recursion, canWait>>
dataVars == <<queueVars, objectVars, loopLevel, lastEvent>>
vars == <<dataVars, stack, call, woken>>

-----------------------------------------------------------------------------
(* QPostEvent.  event = 0 is the null pointer.  The type and d of the      *)
(* QEvent it points to are kept in the entry; by is a history field: the   *)
(* event whose handler posted a DeferredDelete in the object's own thread. *)

Entry == [receiver : Objects \cup {None}, event : Nat, priority : Int,
          type : Types \cup {Any}, d : Int, by : Nat]

\* What is left of an entry whose event pointer is nulled: only its
\* priority is read again, by addEvent.
Nulled(p) == [receiver |-> None, event |-> 0, priority |-> p,
              type |-> Any, d |-> 0, by |-> 0]

Live(e) == e.event # 0

Matches(e, receiver, type) ==
  /\ receiver \in {None, e.receiver}
  /\ type \in {Any, e.type}

\* mutants: no ordering at all; the whole list is searched; qLowerBound for
\* qUpperBound.
AddPositions_Append(l, offset, p) == {Len(l)}
AddPositions_FromFront(l, offset, p) ==
  IF l = <<>> \/ l[Len(l)].priority >= p
    THEN {Len(l)}
    ELSE {k \in 0 .. Len(l) - 1 : /\ k = 0 \/ l[k].priority >= p
                                  /\ l[k + 1].priority < p}
AddPositions_LowerBound(l, offset, p) ==
  IF l = <<>> \/ l[Len(l)].priority >= p \/ offset >= Len(l)
    THEN {Len(l)}
    ELSE {k \in offset .. Len(l) - 1 :
            /\ k = offset \/ l[k].priority > p
            /\ l[k + 1].priority <= p}

\* QPostEventList::addEvent: how many elements a new one may go behind.
\* Only the end of the list is compared before qUpperBound searches what
\* follows the insertion offset; its binary search finds a boundary between
\* a priority not below p and one below, the only one if that part is sorted.
AddPositions(l, offset, p) ==
  IF l = <<>> \/ l[Len(l)].priority >= p \/ offset >= Len(l)
    THEN {Len(l)}
    ELSE {k \in offset .. Len(l) - 1 :
            /\ k = offset \/ l[k].priority >= p
            /\ l[k + 1].priority < p}

Insert(l, k, e) == SubSeq(l, 1, k) \o <<e>> \o SubSeq(l, k + 1, Len(l))

-----------------------------------------------------------------------------
(* The calls of a thread.                                                  *)

Frame == [fn : {"exec", "process", "send"},
          receiver : Objects \cup {None}, type : Types \cup {Any}, i : Nat,
          at : {"enter", "scan", "deliver",
                "test", "awake", "check", "block", "wait", "poll"},
          event : Entry]

LoopFrame(fn) == [fn |-> fn, receiver |-> None, type |-> Any, i |-> 0,
                  at |-> "test", event |-> Nulled(0)]
SendFrame(r, ty) == [fn |-> "send", receiver |-> r, type |-> ty, i |-> 0,
                     at |-> "enter", event |-> Nulled(0)]

Top(t) == stack[t][Len(stack[t])]
Push(t, f) == [stack EXCEPT ![t] = Append(@, f)]
Pop(t) == [stack EXCEPT ![t] = SubSeq(@, 1, Len(@) - 1)]
Becomes(t, f) == [stack EXCEPT ![t][Len(stack[t])] = f]
InLoop(t, at) == stack[t] # <<>> /\ Top(t).fn # "send" /\ Top(t).at = at
InSend(t, at) == stack[t] # <<>> /\ Top(t).fn = "send" /\ Top(t).at = at

\* The operation a thread is inside of, with its locals.
Call == [fn : {"none", "post", "wake", "remove", "removing", "moving"},
         receiver : Objects \cup {None}, type : Types \cup {Any},
         priority : Int, data : Threads, to : Threads, i : Nat, j : Nat]

Idle(t) == [fn |-> "none", receiver |-> None, type |-> Any, priority |-> 0,
            data |-> t, to |-> t, i |-> 0, j |-> 0]

\* postEventList.mutex of thread t is not held.
MutexFree(t) ==
  /\ ~InSend(t, "scan")
  /\ \A u \in Threads : /\ call[u].fn = "removing" => call[u].data # t
                        /\ call[u].fn = "moving" => t \notin {call[u].data, call[u].to}

\* The handler of a DeferredDelete event must still delete the object:
\* QObject::event does nothing else with it.
MustDelete(t) == /\ InSend(t, "deliver")
                 /\ Top(t).event.type = DeferredDelete
                 /\ alive[Top(t).event.receiver]

\* The dispatcher of a loop emits awake() or aboutToBlock().
InSlot(t) == \E signal \in Signals : InLoop(t, signal)

\* Thread t runs application code.
UserCode(t) == /\ call[t].fn = "none"
               /\ stack[t] = <<>> \/ InSend(t, "deliver") \/ InSlot(t)
               /\ ~MustDelete(t)

\* Some loop of t is in aboutToBlock(), its decision to wait made.
Blocking(t) == \E k \in 1 .. Len(stack[t]) : stack[t][k].at = "block"

Running(t) == IF InSend(t, "deliver") THEN Top(t).event.event ELSE 0

-----------------------------------------------------------------------------
Init ==
  /\ list = [t \in Threads |-> <<>>]
  /\ startOffset = [t \in Threads |-> 0]
  /\ insertionOffset = [t \in Threads |-> 0]
  /\ recursion = [t \in Threads |-> 0]
  /\ canWait = [t \in Threads |-> TRUE]
  /\ loopLevel = [t \in Threads |-> 0]
  /\ threadData \in [Objects -> Loopers]
  /\ postedEvents = [r \in Objects |-> 0]
  /\ alive = [r \in Objects |-> TRUE]
  /\ stack = [t \in Threads |-> <<>>]
  /\ call = [t \in Threads |-> Idle(t)]
  /\ woken = {}
  /\ lastEvent = 0

-----------------------------------------------------------------------------
(* QCoreApplication::postEvent                                             *)

\* Reads the receiver's thread without a lock.
PostBegin(t, r, ty, p) ==
  /\ UserCode(t) /\ alive[r] /\ lastEvent < MaxEvents
  /\ call' = [call EXCEPT ![t] = [Idle(t) EXCEPT !.fn = "post",
                !.receiver = r, !.type = ty, !.priority = p,
                !.data = threadData[r]]]
  /\ UNCHANGED <<dataVars, stack, woken>>

\* The list that is locked is that of the receiver's thread.
Reached_Always(c) == TRUE    \* mutant: not checked again under the mutex
Reached(c) == threadData[c.receiver] = c.data

\* The receiver has moved meanwhile: follow it to its new thread.
PostFollow(t) ==
  LET c == call[t] IN
  /\ c.fn = "post" /\ MutexFree(c.data)
  /\ ~Reached(c)
  /\ call' = [call EXCEPT ![t].data = threadData[c.receiver]]
  /\ UNCHANGED <<dataVars, stack, woken>>

\* mutant: only Quit events are compressed.
Compressed_QuitOnly(l, r, ty) ==
  /\ ty = Quit /\ postedEvents[r] > 0
  /\ \E k \in 1 .. Len(l) : Live(l[k]) /\ l[k].receiver = r /\ l[k].type = ty

\* compressEvent: an equal DeferredDelete or Quit event is already posted.
Compressed(l, r, ty) ==
  /\ ty \in {DeferredDelete, Quit} /\ postedEvents[r] > 0
  /\ \E k \in 1 .. Len(l) : Live(l[k]) /\ l[k].receiver = r /\ l[k].type = ty

PostCompress(t) ==
  LET c == call[t] IN
  /\ c.fn = "post" /\ MutexFree(c.data)
  /\ Reached(c)
  /\ Compressed(list[c.data], c.receiver, c.type)
  /\ call' = [call EXCEPT ![t] = Idle(t)]
  /\ UNCHANGED <<dataVars, stack, woken>>

PostedEntry(t, c) ==
  LET own == c.type = DeferredDelete /\ c.data = t IN
  [receiver |-> c.receiver, event |-> lastEvent + 1, priority |-> c.priority,
   type |-> c.type, d |-> IF own THEN loopLevel[t] ELSE 0,
   by |-> IF own THEN Running(t) ELSE 0]

\* data->canWait = false for thread u
MayNotWait_Forgotten(u) == canWait    \* mutant
MayNotWait(u) == [canWait EXCEPT ![u] = FALSE]

\* The event is added and the mutex released.
PostAdd(t) ==
  LET c == call[t]
      u == c.data IN
  /\ c.fn = "post" /\ MutexFree(u) /\ lastEvent < MaxEvents
  /\ Reached(c)
  /\ ~Compressed(list[u], c.receiver, c.type)
  /\ \E k \in AddPositions(list[u], insertionOffset[u], c.priority) :
       list' = [list EXCEPT ![u] = Insert(@, k, PostedEntry(t, c))]
  /\ lastEvent' = lastEvent + 1
  /\ postedEvents' = [postedEvents EXCEPT ![c.receiver] = @ + 1]
  /\ canWait' = MayNotWait(u)
  /\ call' = [call EXCEPT ![t] = [Idle(t) EXCEPT !.fn = "wake", !.data = u]]
  /\ UNCHANGED <<startOffset, insertionOffset, recursion, threadData, alive,
                 loopLevel, stack, woken>>

\* eventDispatcher->wakeUp(), after the mutex is released.
PostWakeUp(t) ==
  /\ call[t].fn = "wake"
  /\ woken' = woken \cup {call[t].data}
  /\ call' = [call EXCEPT ![t] = Idle(t)]
  /\ UNCHANGED <<dataVars, stack>>

-----------------------------------------------------------------------------
(* QCoreApplicationPrivate::sendPostedEvents                               *)

\* ++recursion comes before the mutex is locked.
SendBegin(t, r, ty) ==
  /\ t \in Loopers /\ UserCode(t) /\ Len(stack[t]) < MaxDepth
  /\ r # None => alive[r] /\ threadData[r] = t
  /\ stack' = Push(t, SendFrame(r, ty))
  /\ recursion' = [recursion EXCEPT ![t] = @ + 1]
  /\ UNCHANGED <<objectVars, list, startOffset, insertionOffset, canWait,
                 loopLevel, lastEvent, call, woken>>

NothingToSend(t) == \/ list[t] = <<>>
                    \/ Top(t).receiver # None /\ postedEvents[Top(t).receiver] = 0

SendNothing(t) ==
  /\ InSend(t, "enter") /\ MutexFree(t) /\ NothingToSend(t)
  /\ canWait' = [canWait EXCEPT ![t] = list[t] = <<>>]
  /\ recursion' = [recursion EXCEPT ![t] = @ - 1]
  /\ stack' = Pop(t)
  /\ UNCHANGED <<objectVars, list, startOffset, insertionOffset, loopLevel,
                 lastEvent, call, woken>>

SendStart(t) ==
  /\ InSend(t, "enter") /\ MutexFree(t) /\ ~NothingToSend(t)
  /\ canWait' = [canWait EXCEPT ![t] = TRUE]
  /\ insertionOffset' = [insertionOffset EXCEPT ![t] = Len(list[t])]
  /\ stack' = Becomes(t, [Top(t) EXCEPT !.at = "scan", !.i = startOffset[t]])
  /\ UNCHANGED <<objectVars, list, startOffset, recursion, loopLevel,
                 lastEvent, call, woken>>

\* A send of everything scans with the list's startOffset itself, any other
\* send with its own copy.
Global(f) == f.receiver = None /\ f.type = Any
Position(t, f) == IF Global(f) THEN startOffset[t] ELSE f.i
Scanning_Unbounded(t) ==    \* mutant: sends what is posted meanwhile
  InSend(t, "scan") /\ Position(t, Top(t)) < Len(list[t])
Scanning(t) == /\ InSend(t, "scan")
               /\ Position(t, Top(t)) < Len(list[t])
               /\ Position(t, Top(t)) < insertionOffset[t]
At(t) == Position(t, Top(t)) + 1
Current(t) == list[t][At(t)]

\* ++i, and the send is now at f.
Advance(t, f) ==
  IF Global(f)
    THEN /\ startOffset' = [startOffset EXCEPT ![t] = @ + 1]
         /\ stack' = Becomes(t, f)
    ELSE /\ stack' = Becomes(t, [f EXCEPT !.i = @ + 1])
         /\ UNCHANGED startOffset

ScanNull(t) ==
  /\ Scanning(t) /\ ~Live(Current(t))
  /\ Advance(t, Top(t))
  /\ UNCHANGED <<objectVars, list, insertionOffset, recursion, canWait,
                 loopLevel, lastEvent, call, woken>>

ScanOther(t) ==
  /\ Scanning(t) /\ Live(Current(t))
  /\ ~Matches(Current(t), Top(t).receiver, Top(t).type)
  /\ canWait' = MayNotWait(t)
  /\ Advance(t, Top(t))
  /\ UNCHANGED <<objectVars, list, insertionOffset, recursion, loopLevel,
                 lastEvent, call, woken>>

\* mutant: the loop that posted it need not return.
AllowDeferredDelete_SameLevel(e, ty, level) ==
  e.d >= level \/ (e.d = 0 /\ level > 0)

\* allowDeferredDelete, for a request for events of type ty at this level
AllowDeferredDelete(e, ty, level) ==
  \/ e.d > level
  \/ e.d = 0 /\ level > 0
  \/ ty = DeferredDelete /\ e.d = level

Held(t) == /\ Current(t).type = DeferredDelete
           /\ ~AllowDeferredDelete(Current(t), Top(t).type, loopLevel[t])

\* A deferred delete that must wait: a global send posts it again, since the
\* entries it has passed are erased when it ends.
ScanHold(t) ==
  /\ Scanning(t) /\ Live(Current(t))
  /\ Matches(Current(t), Top(t).receiver, Top(t).type)
  /\ Held(t)
  /\ IF Global(Top(t))
       THEN LET e == Current(t)
                l == [list[t] EXCEPT ![At(t)] = Nulled(e.priority)] IN
            \E k \in AddPositions(l, insertionOffset[t], e.priority) :
              list' = [list EXCEPT ![t] = Insert(l, k, e)]
       ELSE UNCHANGED list
  /\ Advance(t, Top(t))
  /\ UNCHANGED <<objectVars, insertionOffset, recursion, canWait, loopLevel,
                 lastEvent, call, woken>>

\* --postedEvents of the receiver
Uncounted_Forgotten(r) == postedEvents    \* mutant
Uncounted(r) == [postedEvents EXCEPT ![r] = @ - 1]

\* The event is taken out of the list and the mutex released; notifyInternal
\* counts a loop level for the time its handler runs.
ScanDeliver(t) ==
  LET e == Current(t) IN
  /\ Scanning(t) /\ Live(e)
  /\ Matches(e, Top(t).receiver, Top(t).type)
  /\ ~Held(t)
  /\ list' = [list EXCEPT ![t][At(t)] = Nulled(e.priority)]
  /\ postedEvents' = Uncounted(e.receiver)
  /\ loopLevel' = [loopLevel EXCEPT ![t] = @ + 1]
  /\ Advance(t, [Top(t) EXCEPT !.at = "deliver", !.event = e])
  /\ UNCHANGED <<insertionOffset, recursion, canWait, threadData, alive,
                 lastEvent, call, woken>>

\* The handler returns and the mutex is locked again.
HandlerReturn(t) ==
  /\ InSend(t, "deliver") /\ UserCode(t) /\ MutexFree(t)
  /\ loopLevel' = [loopLevel EXCEPT ![t] = @ - 1]
  /\ stack' = Becomes(t, [Top(t) EXCEPT !.at = "scan", !.event = Nulled(0)])
  /\ UNCHANGED <<queueVars, objectVars, lastEvent, call, woken>>

\* The insertion offset when the entries before startOffset are erased.
InsertionLeft_None(t) == 0    \* mutant: restarts at the front
InsertionLeft(t) == insertionOffset[t] - startOffset[t]

\* ~CleanUp: the wake-up and the erasing of what a global send has passed.
CleanUp(t, waits) ==
  /\ canWait' = [canWait EXCEPT ![t] = waits]
  /\ recursion' = [recursion EXCEPT ![t] = @ - 1]
  /\ woken' = IF recursion[t] = 1 /\ ~waits THEN woken \cup {t} ELSE woken
  /\ IF Global(Top(t))
       THEN /\ list' = [list EXCEPT ![t] =
                          SubSeq(@, startOffset[t] + 1, Len(@))]
            /\ insertionOffset' = [insertionOffset EXCEPT ![t] = InsertionLeft(t)]
            /\ startOffset' = [startOffset EXCEPT ![t] = 0]
       ELSE UNCHANGED <<list, insertionOffset, startOffset>>

SendEnd(t) ==
  /\ InSend(t, "scan") /\ ~Scanning(t)
  /\ CleanUp(t, canWait[t])
  /\ stack' = Pop(t)
  /\ UNCHANGED <<objectVars, loopLevel, lastEvent, call>>

\* A handler throws: the send is unwound with exceptionCaught set.  The
\* exception is caught by the code that called sendPostedEvents or
\* processEvents, or leaves a QEventLoop::exec on the way there.
HandlerThrow(t) ==
  LET n == Len(stack[t]) - 1
      below == IF n > 0 /\ stack[t][n].at = "check" THEN stack[t][n].fn
                                                    ELSE "send" IN
  /\ MayThrow /\ InSend(t, "deliver") /\ UserCode(t) /\ MutexFree(t)
  /\ CleanUp(t, FALSE)
  /\ loopLevel' = [loopLevel EXCEPT ![t] = @ - (IF below = "exec" THEN 2 ELSE 1)]
  /\ stack' = [stack EXCEPT ![t] =
                 SubSeq(@, 1, Len(@) - (IF below = "send" THEN 1 ELSE 2))]
  /\ UNCHANGED <<objectVars, lastEvent, call>>

-----------------------------------------------------------------------------
(* Event loops, as the queue sees them: QEventLoop::exec and               *)
(* QCoreApplication::processEvents around QEventDispatcherUNIX.            *)

LoopBegin(t, fn) ==
  /\ t \in Loopers /\ UserCode(t) /\ Len(stack[t]) + 1 < MaxDepth
  /\ MayNestInBlock \/ ~Blocking(t)
  /\ stack' = Push(t, LoopFrame(fn))
  /\ loopLevel' = [loopLevel EXCEPT ![t] = @ + (IF fn = "exec" THEN 1 ELSE 0)]
  /\ UNCHANGED <<queueVars, objectVars, lastEvent, call, woken>>

\* exec returns when its loop has been told to exit.
LoopEnd(t) ==
  /\ InLoop(t, "test") /\ Top(t).fn = "exec"
  /\ loopLevel' = [loopLevel EXCEPT ![t] = @ - 1]
  /\ stack' = Pop(t)
  /\ UNCHANGED <<queueVars, objectVars, lastEvent, call, woken>>

\* The dispatcher's processEvents begins: emit awake()
LoopAwake(t) ==
  /\ InLoop(t, "test")
  /\ stack' = Becomes(t, [Top(t) EXCEPT !.at = "awake"])
  /\ UNCHANGED <<dataVars, call, woken>>

\* The slots have returned: sendPostedEvents(0, 0)
LoopSend(t) ==
  /\ InLoop(t, "awake") /\ call[t].fn = "none"
  /\ stack' = [stack EXCEPT ![t] =
                 Append([@ EXCEPT ![Len(@)].at = "check"], SendFrame(None, Any))]
  /\ recursion' = [recursion EXCEPT ![t] = @ + 1]
  /\ UNCHANGED <<objectVars, list, startOffset, insertionOffset, canWait,
                 loopLevel, lastEvent, call, woken>>

\* The dispatcher reads canWait, without the mutex; only exec waits, and
\* before it does, the dispatcher emits aboutToBlock().
LoopCheck(t) ==
  /\ InLoop(t, "check")
  /\ stack' = Becomes(t, [Top(t) EXCEPT !.at =
                 IF Top(t).fn = "exec" /\ canWait[t] THEN "block" ELSE "poll"])
  /\ UNCHANGED <<dataVars, call, woken>>

\* The slots have returned: canWait is not read again.
LoopBlock(t) ==
  /\ InLoop(t, "block") /\ call[t].fn = "none"
  /\ stack' = Becomes(t, [Top(t) EXCEPT !.at = "wait"])
  /\ UNCHANGED <<dataVars, call, woken>>

\* select returns, at once or when woken, and the wake-up is consumed.
LoopSelect(t) ==
  /\ InLoop(t, "poll") \/ (InLoop(t, "wait") /\ t \in woken)
  /\ woken' = woken \ {t}
  /\ stack' = IF Top(t).fn = "exec"
                THEN Becomes(t, [Top(t) EXCEPT !.at = "test"])
                ELSE Pop(t)
  /\ UNCHANGED <<dataVars, call>>

-----------------------------------------------------------------------------
(* QCoreApplication::removePostedEvents                                    *)

\* Outside any send, what is kept moves up over what was removed.
Compacting(u) == recursion[u] = 0

RemoveCall(t, r, ty) ==
  [Idle(t) EXCEPT !.fn = "remove", !.receiver = r, !.type = ty,
                  !.data = IF r = None THEN t ELSE threadData[r]]

\* Reads the receiver's thread without a lock, and never again.
RemoveBegin(t, r, ty) ==
  /\ UserCode(t) /\ (r # None => alive[r])
  /\ call' = [call EXCEPT ![t] = RemoveCall(t, r, ty)]
  /\ UNCHANGED <<dataVars, stack, woken>>

RemoveStart(t) ==
  LET c == call[t] IN
  /\ c.fn = "remove" /\ MutexFree(c.data)
  /\ call' = [call EXCEPT ![t] =
                IF c.receiver # None /\ postedEvents[c.receiver] = 0
                  THEN Idle(t)
                  ELSE [c EXCEPT !.fn = "removing"]]
  /\ UNCHANGED <<dataVars, stack, woken>>

Removing(t) == call[t].fn = "removing" /\ call[t].i < Len(list[call[t].data])
ToRemove(t) ==
  LET e == list[call[t].data][call[t].i + 1]
  IN Live(e) /\ Matches(e, call[t].receiver, call[t].type)

RemoveMatch(t) ==
  LET u == call[t].data
      k == call[t].i + 1 IN
  /\ Removing(t) /\ ToRemove(t)
  /\ list' = [list EXCEPT ![u][k] = Nulled(@.priority)]
  /\ postedEvents' = Uncounted(list[u][k].receiver)
  /\ call' = [call EXCEPT ![t].i = @ + 1]
  /\ UNCHANGED <<startOffset, insertionOffset, recursion, canWait, threadData,
                 alive, loopLevel, lastEvent, stack, woken>>

RemoveKeep(t) ==
  LET u == call[t].data
      i == call[t].i + 1
      j == call[t].j + 1 IN
  /\ Removing(t) /\ ~ToRemove(t)
  /\ IF Compacting(u)
       THEN /\ list' = [list EXCEPT ![u][i] = list[u][j], ![u][j] = list[u][i]]
            /\ call' = [call EXCEPT ![t].i = @ + 1, ![t].j = @ + 1]
       ELSE /\ call' = [call EXCEPT ![t].i = @ + 1]
            /\ UNCHANGED list
  /\ UNCHANGED <<objectVars, startOffset, insertionOffset, recursion, canWait,
                 loopLevel, lastEvent, stack, woken>>

RemoveEnd(t) ==
  LET u == call[t].data IN
  /\ call[t].fn = "removing" /\ ~Removing(t)
  /\ list' = IF Compacting(u)
               THEN [list EXCEPT ![u] = SubSeq(@, 1, call[t].j)] ELSE list
  /\ call' = [call EXCEPT ![t] = Idle(t)]
  /\ UNCHANGED <<objectVars, startOffset, insertionOffset, recursion, canWait,
                 loopLevel, lastEvent, stack, woken>>

\* QCoreApplicationPrivate::removePostedEvent, called when a posted event is
\* deleted: it looks in the current thread's list only.
RemoveEvent(t, k) ==
  /\ MayDeleteEvents /\ UserCode(t) /\ MutexFree(t)
  /\ Live(list[t][k])
  /\ list' = [list EXCEPT ![t][k] = Nulled(@.priority)]
  /\ postedEvents' = Uncounted(list[t][k].receiver)
  /\ UNCHANGED <<startOffset, insertionOffset, recursion, canWait, threadData,
                 alive, loopLevel, lastEvent, stack, call, woken>>

-----------------------------------------------------------------------------
(* QObject::moveToThread and QObject::~QObject                             *)

\* Both lists are locked (QOrderedMutexLocker).
MoveBegin(t, r, u) ==
  /\ UserCode(t) /\ alive[r] /\ threadData[r] = t /\ u # t
  /\ MutexFree(t) /\ MutexFree(u) /\ Len(list[u]) < MaxLength
  /\ call' = [call EXCEPT ![t] = [Idle(t) EXCEPT !.fn = "moving",
                !.receiver = r, !.to = u]]
  /\ UNCHANGED <<dataVars, stack, woken>>

Moving(t) == call[t].fn = "moving" /\ call[t].i < Len(list[t])

\* setThreadData_helper moves one entry of the object, or passes another.
MoveStep(t) ==
  LET k == call[t].i + 1
      e == list[t][k]
      u == call[t].to
      mine == Live(e) /\ e.receiver = call[t].receiver IN
  /\ Moving(t)
  /\ IF mine
       THEN \E n \in AddPositions(list[u], insertionOffset[u], e.priority) :
              list' = [list EXCEPT ![t][k] = Nulled(e.priority),
                                   ![u] = Insert(@, n, [e EXCEPT !.by = 0])]
       ELSE UNCHANGED list
  /\ call' = [call EXCEPT ![t].i = @ + 1, ![t].j = @ + (IF mine THEN 1 ELSE 0)]
  /\ UNCHANGED <<objectVars, startOffset, insertionOffset, recursion, canWait,
                 loopLevel, lastEvent, stack, woken>>

MoveEnd(t) ==
  LET u == call[t].to IN
  /\ call[t].fn = "moving" /\ ~Moving(t)
  /\ threadData' = [threadData EXCEPT ![call[t].receiver] = u]
  /\ IF call[t].j > 0
       THEN /\ canWait' = MayNotWait(u)
            /\ woken' = woken \cup {u}
       ELSE UNCHANGED <<canWait, woken>>
  /\ call' = [call EXCEPT ![t] = Idle(t)]
  /\ UNCHANGED <<list, startOffset, insertionOffset, recursion, postedEvents,
                 alive, loopLevel, lastEvent, stack>>

HasPosted_Ignored(r) == FALSE    \* mutant: the destructor removes nothing
HasPosted(r) == postedEvents[r] > 0

\* The destructor removes what is posted to the object.  Deleting an object
\* another thread is posting to is a fault of the application.
Destroy(t, r) ==
  /\ call[t].fn = "none" /\ alive[r] /\ threadData[r] = t
  /\ \/ MustDelete(t) /\ r = Top(t).event.receiver
     \/ UserCode(t) /\ r \in MayDestroy
  /\ \A u \in Threads : call[u].receiver # r
  /\ alive' = [alive EXCEPT ![r] = FALSE]
  /\ call' = IF HasPosted(r)
               THEN [call EXCEPT ![t] = RemoveCall(t, r, Any)] ELSE call
  /\ UNCHANGED <<queueVars, threadData, postedEvents, loopLevel, lastEvent,
                 stack, woken>>

-----------------------------------------------------------------------------
Post(t) == \/ \E r \in Objects, p \in Priorities, ty \in Types :
                (ty = DeferredDelete => p = 0) /\ PostBegin(t, r, ty, p)
           \/ PostFollow(t) \/ PostCompress(t) \/ PostAdd(t) \/ PostWakeUp(t)

Send(t) == \/ \E q \in SendRequests : SendBegin(t, q[1], q[2])
           \/ SendNothing(t) \/ SendStart(t) \/ ScanNull(t) \/ ScanOther(t)
           \/ ScanHold(t) \/ ScanDeliver(t) \/ HandlerReturn(t)
           \/ HandlerThrow(t) \/ SendEnd(t)

Loop(t) == \/ \E fn \in {"exec", "process"} : LoopBegin(t, fn)
           \/ LoopEnd(t) \/ LoopAwake(t) \/ LoopSend(t) \/ LoopCheck(t)
           \/ LoopBlock(t) \/ LoopSelect(t)

Remove(t) == \/ \E q \in RemoveRequests : RemoveBegin(t, q[1], q[2])
             \/ RemoveStart(t) \/ RemoveMatch(t) \/ RemoveKeep(t)
             \/ RemoveEnd(t)
             \/ \E k \in 1 .. Len(list[t]) : RemoveEvent(t, k)

Move(t) == \/ \E r \in Objects, u \in MoveTargets : MoveBegin(t, r, u)
           \/ MoveStep(t) \/ MoveEnd(t)

Next == \E t \in Threads : \/ Post(t) \/ Send(t) \/ Loop(t) \/ Remove(t)
                           \/ Move(t) \/ \E r \in Objects : Destroy(t, r)

Spec == Init /\ [][Next]_vars

=============================================================================
