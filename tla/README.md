# Verification of the Qt 5 base library: events, signals, threads and locks

This directory models the part of qtbase on which the rest of it runs: the
queues of posted events of every thread, the event loops that empty them, the
wake-up protocol between threads, the connections between signals and slots,
the thread pool, and the read-write lock. All of it is concurrent or
re-entrant, and none of its hard cases is a matter of one call.

Sources are under `src/src/corelib` (`kernel/`, `thread/` and `concurrent/`).
`PROJECT.json` maps every definition to the lines it models.

## 1. The system

| Component | State | Operations | Interacts with |
|---|---|---|---|
| Posted event queues (`qcoreapplication.cpp`, `qthread_p.h`) | per thread: `postEventList` with `startOffset`, `insertionOffset`, `recursion`; `canWait`; `loopLevel`. Per object: `postedEvents` | `postEvent`, `sendPostedEvents`, `removePostedEvents`, `removePostedEvent` | handlers (call-backs, in which everything may be called again), dispatcher, `moveToThread`, destructors |
| Object affinity and deletion (`qobject.cpp`) | `threadData` of an object | `moveToThread`, `deleteLater`, the destructor | two queues at a time |
| Event loops (`qeventloop.cpp`, `qthread.cpp`) | `eventLoops`, `exit`, `returnCode`, `quitNow`, `exited` | `QEventLoop::exec/exit`, `QThread::exec/exit`, `processEvents` | dispatcher; other threads, by `exit` |
| UNIX dispatcher (`qeventdispatcher_unix.cpp`) | `interrupt`, `wakeUps`, the thread pipe | `processEvents`, `wakeUp`, `interrupt` | queues (`canWait`), loops |
| QReadWriteLock (`qreadwritelock.cpp`) | `accessCount`, `waitingReaders`, `waitingWriters`, `currentReaders`, `currentWriter` | seven lock functions, `unlock` | two QWaitConditions |
| QWaitCondition (`qwaitcondition_unix.cpp`) | `waiters`, `wakeups`, a pthread condition | `wait`, `wakeOne`, `wakeAll` | every lock-based component |
| Signals and slots (`qobject.cpp`, `qobject_p.h`) | per object: `connectionLists` with `inUse`, `dirty`, `orphaned`; `senders`; `currentSender`. Per connection: `sender`, `receiver`, `ref_` | `connect`, `disconnect`, `activate`, `QObject::event` of a MetaCall, `~QObject` | slots (call-backs), `postEvent`, a pool of mutexes that objects share |
| QOrderedMutexLocker (`qorderedmutexlocker_p.h`) | two mutexes | constructor, `relock` | signals and slots, `moveToThread` |
| QThreadPool (`qthreadpool.cpp`) | `queue`, `allThreads`, `expiredThreads`, `waitingThreads`, `activeThreads`, `reservedThreads`, `maxThreadCount`, `isExiting`; `QRunnable::ref` | `start`, `tryStart`, `waitForDone`, `setMaxThreadCount`, `reserveThread`, `releaseThread`, stealing | QThread, QWaitCondition |
| QThread life cycle (`qthread_unix.cpp`) | `running`, `finished`, `isInFinish` | `start`, `finish`, `wait`, `terminate` | pool, dispatcher, thread storage |
| QMutex, QSemaphore, QFuture, state machine, network, GUI, ... | | | listed in `PROJECT.json` with the reason they are not modelled |

What is hard here:

* **Re-entrancy.** A handler may post, send (everything, one receiver, one
  type), run nested loops, remove, move and delete while the send that called
  it is in the middle of the same list. All sends of a thread share one
  `insertionOffset`; sends of everything share `startOffset`; the others have a
  copy of it.
* **Threads that follow one another.** Another thread posts while the object
  moves; it reads `threadData` before it has the mutex.
* **Sleeping.** `canWait`, `interrupt`, `wakeUps` and the pipe together decide
  whether a thread blocks. Each is written by other threads, not all of them
  under a lock.
* **Levels.** A `DeferredDelete` waits for a loop level that nested loops and
  nested sends change.
* **Time-outs.** A thread that times out in `QWaitCondition` may have been
  chosen by `wakeOne` already; a pool thread that times out is restarted.
* **Lists that change under those who walk them.** A slot may connect,
  disconnect, emit again, and delete the sender, the receiver or both.
* **Two mutexes at a time.** Destructors and disconnections hold one mutex when
  they find out which other one they need, and let the first go to get both.
* **Counters for threads.** The pool decides by a sum of four counters whether
  to start, recycle, restart or expire a thread; each is changed by others.

What makes it correct: no event is lost, duplicated, delivered in the wrong
thread or to a deleted object; order within a priority; an object outlives the
handler that calls `deleteLater`; no thread sleeps on work or on an exit; lists
and connections outlive whoever walks them, and a slot is called on a live
receiver, once per emission; no task is lost, stuck or used after deletion, and
`waitForDone` returns; the lock excludes, and no writer is left asleep beside a
free lock. `PROJECT.json` lists under `hazards` where each of these bites.

## 2. Modules

| Module | What it is |
|---|---|
| `PostedEvents` | the queues, object moves and deletion, and the loops as the queues see them |
| `PostedEventsProperties` | what is checked of it, and its refinement mapping to `EventQueue` |
| `EventQueue` | abstract: what a queue promises, as a set of pending events |
| `PostedEventsProofs`, `DeliveryProofs`, `PendingProofs` | theorems about `PostedEvents` |
| `EventLoop` | nested loops of one thread, exit from other threads, the wake-up protocol |
| `Connections` | connection lists, emission, connect, disconnect and the destructor, in several threads |
| `ThreadPool` | the pool, its threads and the callers of its functions |
| `WaitCondition` | a QWaitCondition as a value with operators |
| `ReadWriteLock` | QReadWriteLock over two of them (`ThreadPool` uses one) |
| `ReadWriteLockProofs` | theorems about `ReadWriteLock` |
| `EventLoopProofs` | theorems about `EventLoop` |
| `ThreadPoolProofs` | theorems about `ThreadPool` |
| `ConnectionsProofs`, `ConnectionUseProofs` | theorems about `Connections` |
| `MC*` | constants of the instances TLC checks |

An operator whose comment says *mutant* is a deliberately broken version of the
definition that follows it. No run uses it; replacing the definition by it must
break the property that `PROJECT.json` names with it.

### PostedEvents

A thread has a `stack` of frames (a loop, or a send with its locals) and a
`call`, the queue operation it is inside of (`postEvent`, `removePostedEvents`,
`moveToThread`) with its locals. Application code runs when the stack is empty,
when the top frame is a send that is delivering, and in the slots of `awake()`
and `aboutToBlock()`, which the dispatcher of the top loop calls before it sends
and between reading `canWait` and `select`; then any operation may begin.
`Signals` says which of the two signals have slots, and `MayNestInBlock` whether
those of `aboutToBlock()` enter event loops.

Steps are as coarse as the locks allow. What needs the mutex is enabled only
when `MutexFree`, and a loop over the list is one action per iteration, so that
the unlocked accesses of other threads (`++recursion` in `sendPostedEvents`,
reading `threadData` and `canWait`) fall between any two iterations.

| Code | Actions |
|---|---|
| `postEvent` | `PostBegin` (reads the thread), `PostFollow` (it has moved), `PostCompress`, `PostAdd`, `PostWakeUp` |
| `sendPostedEvents` | `SendBegin`, `SendNothing`, `SendStart`; per iteration `ScanNull`, `ScanOther`, `ScanHold`, `ScanDeliver`; `HandlerReturn`, `HandlerThrow`, `SendEnd` |
| `removePostedEvents` | `RemoveBegin`, `RemoveStart`; per iteration `RemoveMatch`, `RemoveKeep`; `RemoveEnd` |
| `removePostedEvent` | `RemoveEvent` |
| `moveToThread` | `MoveBegin`, `MoveStep` per iteration, `MoveEnd` |
| `~QObject` | `Destroy`, then a removal |
| `exec`, `processEvents` | `LoopBegin`, `LoopAwake`, `LoopSend`, `LoopCheck`, `LoopBlock`, `LoopSelect`, `LoopEnd` |

`addEvent` is `AddPositions`: the positions at which `qUpperBound` may end.
Where the searched part is sorted there is exactly one; where it is not, a
binary search may end at any boundary, and the model allows every one.

Abstractions: an event is a number in the order of posting, with its receiver,
priority and type. `woken` stands for the dispatcher's wake-up protocol, which
`EventLoop` has in full. The field `by` of an entry and `lastEvent` are history.
Integers are unbounded: the counters stay far from their width.

### EventLoop

One thread `Self` with its stack of `QThread::exec`, `QEventLoop::exec` and
dispatcher calls; `Others` call `postEvent`, `QEventLoop::exit` and
`QThread::exit`. Handlers and slots of `awake()` and `aboutToBlock()` post, exit
loops, enter nested ones and process events (those of `aboutToBlock()` only with
`MayNestInBlock`). Here the queue is a number, `pending`, and the wake-up protocol
is complete: `interrupt`, `wakeUps`, bytes in the pipe, one action per atomic
access. `QThreadPrivate::mutex` is a variable, because `QThread::exit` holds it
over several steps. `hidden` is history: a nested call has reset `interrupt`
after this loop was told to exit.

### ReadWriteLock and WaitCondition

`d->mutex` is held from the start of an operation, or from the return of a
wait, to the next wait or the end: one action each. A waiting thread is
`asleep`, `signalled` or `expired`; between being signalled and having the
mutex again other threads may act. Spurious wake-ups and time-outs may happen
at any time. `held` is history: what each thread has locked.

### ThreadPool

Whatever runs between two operations on the pool's mutex, or between one and a
wait, is one action. Two things hold the mutex longer, and the variable `mutex`
says who does: `tryToStartMoreThreads`, one step per task, and `QThread::start`,
which waits, with the pool's mutex locked, for a thread that is in `finish()`.

| Code | Actions |
|---|---|
| `start`, `tryStart` | `TryStart` (with `StartThread`, `RestartThread` or `RecycleThread`), `Queue`, then `QThreadStart` |
| `setMaxThreadCount`, `reserveThread`, `releaseThread` | `SetMaxThreadCount`, `ReserveThread`, `ReleaseThread`, then `TryToStartMoreThreads` |
| `stealRunnable`, `startFrontRunnable` | `StealRunnable`, `StealEnd` |
| `waitForDone`, `reset` | `WaitForDone`, `WaitForDoneWoken`, `WaitForDoneExpired`; `Reset`, `Join`, `ResetEnd` |
| `QThreadPoolThread::run` | `RunBegin`, `TaskEnd`, `WaitLeave` (QWaitCondition lets go of its own mutex), `WaitEnd`; `TaskEnd` and `WaitEnd` with `LookForWork` |
| `QThreadPrivate::finish` | `FinishBegin`, `FinishEnd` |

`mishaps` is history. The state of the pool goes wrong in four ways, which the
model found and which it keeps: a task is given to a thread that does not start
(`lost`); `tryStart` takes a waiting thread off `waitingThreads` and queues the
task for it, but `wakeOne` finds none to wake, because the threads that are
counted have timed out or have been woken already (`overtaken`); the last task
is taken out of the queue when no thread is active, and nobody wakes
`waitForDone` (`robbed`); two threads are in `reset` at the same time, and the
first to end resets `isExiting` and `expiredThreads` under the other
(`overlapped`). The properties say which of these they exclude.
`NothingDeletedInUse` and `TypeOK` exclude none, `LimitRespected` only the last.
That `waitingThreads` disagrees with the threads that wait is excluded by none:
the model has the time-out that races with `wakeOne`, and the thread that
`enqueueTask` wakes at the limit without taking it off the count.

Calls that may start a thread during a reset are left out (`MayLaunch`): a
thread that `reset` has deleted may still be among `expiredThreads`, and using it
has no outcome one could model. A user who gives a task with `autoDelete` to
`start` twice while it is queued is outside of what the documentation allows
(`MayStart`), and so is giving it to `stealRunnable` while it is used elsewhere
(`OnlyUse`), which QFutureInterface, the only caller, does not do.

### Connections

Each thread has a stack of calls with their locals; user code runs when it is
empty or a slot is on top. A frame lists in `want` the mutexes it is about to
lock, in order, and goes on when it has them; `Relocks` is
`QOrderedMutexLocker::relock` with its `tryLock`. Several objects may share a
mutex, as they do in the pool that `signalSlotLock` indexes by address.

| Code | Actions |
|---|---|
| `connect`, `addConnection`, `cleanConnectionLists` | `ConnectCall`, `ConnectEnd` |
| `disconnect`, `disconnectHelper` | `DisconnectCall`, `DisconnectBegin`; per signal `DisconnectList`; per connection `DisconnectScan`, `DisconnectUnlink`, `DisconnectZero`; `DisconnectEnd` |
| `disconnect(Connection)`, `~Connection` | `DisconnectHandle`, `DropHandle` |
| `activate`, `queued_activate` | `EmitCall`, `EmitBegin`; per connection `EmitLook`, `SlotReturn`, `EmitResume`; `EmitEnd` |
| `QObject::event` of a MetaCall | `Deliver`, `DeliverEnd` |
| `~QObject` | `DeleteCall` (emits `destroyed`), `DeleteBegin`, `DeleteLists`; `DeleteReceivers`, `DeleteUnlink`, `DeleteListsEnd`; `DeleteSenders`, `DeleteNode`; `DeleteEnd` |

`disconnectHelper` has a step of its own for `c->receiver = 0`, which it does
after it has unlocked the receiver's mutex. A frame keeps a connection by name;
memory of a connection is used again once its count is 0, so a stale pointer is
seen as a connection that is not in the list. `due` and
`called` of an emission are history. `disconnect` without a signal goes
through the lists of all signals; the model allows every order of these, where
the code has one. User code deletes an object in its thread,
names objects of other threads until their destructor begins, and emits only
signals of objects of its own thread.

## 3. Runs

| Run | Question | Bounds |
|---|---|---|
| `pe_loops` | nested loops, slots of the dispatcher; order, deferred deletes, nothing stranded | 2 threads (one loops, both post), 2 objects, 2 priorities, 3 events, 4 frames; symmetry of the objects |
| `pe_sends` | every kind of nested send, exceptions, removals, deletion of posted events | 1 thread, 2 objects, 2 priorities, 3 kinds of send, removal for one receiver, 3 events, 3 frames |
| `pe_objects` | moves, removals, deletion; refinement of `EventQueue` | 2 looping threads, 1 object, 2 events, 2 frames |
| `pe_order` | finding | 1 thread, 2 objects, 4 events, 2 frames |
| `pe_overslept` | finding | 1 thread, 1 object, 3 events, 4 frames; slots of `aboutToBlock()` process events |
| `el_exit` | wake-ups, exits, liveness | 2 other threads, 2 posts, 1 exit, 5 frames |
| `el_hidden` | finding | 1 other thread |
| `tp_pool` | counters, stuck and deleted tasks, the limit, liveness of `waitForDone` | 2 pool threads, 1 caller, 1 waiter, 2 tasks (one with `autoDelete`), limits 1 and 2, 1 reservation, 4 counted calls |
| `tp_lost`, `tp_timeout` | findings | see their cfgs |
| `sig_slots` | lists, connections, receivers, `sender()`, deadlock | 3 objects in 2 threads, 2 mutexes of which one is shared, 2 connections, 4 frames a thread, 3 calls |
| `rw_lock` | exclusion, no writer forgotten, writers get in | 3 threads that wait with and without time-outs, one of which also tries; recursive, 2 locks a thread |

Why the bounds are enough: three events and four frames suffice for a loop
inside a handler of a send of a loop, with an event before, inside and behind
the scanned part; two priorities for an insertion that is not at the end. An
object that moves needs two threads, and a third actor (the poster) is one of
them, as it may be between the read of `threadData` and the mutex while the
other one moves the object away and back. An exit may be of one loop or of the
thread, from any thread, at any depth of loops, while two others post. Three
threads at the lock are a holder, a waiting writer and a waiting reader, or two
readers that take turns while a writer waits. Two pool threads are one that
expires and one that works; four calls are two starts, a change of the limit and a
reservation, in any order. Two connections are the current and the last one of an emission, or two senders of
one receiver; with three objects a receiver has a sender in its own thread and
one in another, whose mutex comes before or after its own; four frames are a
slot in a slot that deletes its object, whose `destroyed` is emitted. The
initial connections are two of the ways in which these can be made; the rest is
reached by `connect`.

`CHECK_DEADLOCK FALSE` in the event runs: a program in which every thread is
asleep and nobody posts has stopped legitimately, and so has one that has used
up its bounds. So it is in the `tp_` runs and `sig_slots`: idle pool threads
and objects nobody uses. That nobody is stuck there is what the liveness
properties say. In `rw_lock` a deadlock would not show, since a sleeper may always
wake up for no reason; that nobody needs that is what `NoWriterForgotten` says, and
`WritersGetIn` under a fairness that promises no such wake-up.

The symmetry of `pe_loops` permutes the two objects, which no call of that
instance tells apart.

### Properties

*Queues.* `SortedTail`: what `addEvent` searches is sorted, unless another
thread removes events: the list's own thread increments `recursion` without the
mutex, and a removal that finds it incremented stops compacting halfway, with
entries swapped out of order (the instance of `SortedTail` has one thread).
`QueuedByPriority`: so is the whole list, between sends, if only sends of
everything are made. `PassedAreTaken`: what a send will erase has been taken.
`PostedEventsCounted`: `postedEvents` of an object agrees with the lists, and
its entries are in the list of its thread. `OneDeferredDelete`,
`NothingForTheDead`, `DeferredDeleteWaits`: deletion. `PostedOrder`: order
within a priority. `NoEventStranded`: a thread that blocks has nothing to
deliver but deferred deletes, or will be woken; it holds when no slot of
`aboutToBlock()` processes events (`~MayNestInBlock`; `pe_overslept` has it
otherwise). `ImplementsEventQueue`: the lists implement the abstract queue, in
which an event goes away only to be handled or by a removal that asks for it;
this is for code that does not itself delete events that are posted
(`MayDeleteEvents`), which the queue cannot prevent.

*Loops.* `PostWakesLoop`, `ExitWakesLoop`: no lost wake-up. `DrainedOnce`: the
`qWarning` the source calls "hopefully dead code" is dead.
`QuitReachesEveryLoop`: no loop escapes `QThread::exit`. Liveness:
`ExitEndsExec`, `PostedIsDelivered`. `PostWakesLoop` and `PostedIsDelivered` also
take it that no slot of `aboutToBlock()` processes events; the theorems for the
others cover slots that do.

*Signals.* `ListsLiveWhileUsed`, `NoFreedConnectionUsed`: memory, for any nesting
of emissions, disconnections and destructors. `ReceiversLive`: what `activate`
reads under the sender's mutex alone is alive. `BrokenAreDirty`: disconnected
connections are removed in the end. `ListsGuarded`: whatever relocking has
unlocked on the way, the lists of an object change only in a step of a thread
that holds its mutex. `EachOnce`: an emission calls what was
connected when it began, once, in order. `CurrentSenderIsTop`: `sender()`.
Liveness: `EveryCallReturns`, which is freedom from deadlock on the mutexes.

*Pool.* `ActiveThreadsCounted`: what `waitForDone` waits for is true.
`NothingDeletedInUse`: `autoDelete`. `StartUsesThreads`: what `start` promises,
that a task is queued only when the limit is used up or a thread is coming for
it; the code breaks it (`tp_timeout`). `NoTaskStranded`: it holds until
`overtaken`, `lost` or `overlapped` happens, that is, no wrong `waitingThreads`
and no time-out strands a task until `tryStart` acts on it. `LimitRespected`:
`maxThreadCount`, as an action property. Liveness: `WaitForDoneReturns`.

*Lock.* `Exclusion`. `NoWriterForgotten`: no writer sleeps beside a free lock.
Liveness: `WritersGetIn`, the promise of the documentation that readers do not
block writers for ever: when writers wait, one of them gets the lock, or all give
up, unless readers get in beside them without end that use `tryLockForRead()`, or
that have the lock already and take it again.

### Fairness

`el_exit`, `tp_pool`, `sig_slots` and `rw_lock` have liveness properties. In `EventLoop`,
`FairSpec` assumes weak fairness of the
loops' own steps and of each started call of `exit`, `interrupt` or `wakeUp`:
the operating system runs every thread that can run. It assumes strong fairness
of `CallbackReturn`, for each depth of the stack: a handler or a slot that keeps
making nested calls returns in the end; weak fairness would not do, since the
action is disabled during each nested call. Nothing forces anyone to post, to exit or to enter a loop. Both liveness
properties name their escape: a loop whose exit was hidden by a nested call
(see the findings), and a thread that leaves its loops with events pending.

In `ThreadPool` it assumes weak fairness of the steps of pool threads and of
clients that are inside a function, which includes that tasks end; and that a
thread that was reserved is released, without which a queued task may wait for
ever. Time-outs and spurious wake-ups are not assumed to happen. In `Connections`
every thread goes on when it can, which includes that slots return; a mutex is
not assumed to be fair. User calls are bounded, so no thread is kept out by an
endless sequence of them. In `ReadWriteLock` calls are not bounded: readers may
come and go for ever. It assumes that a thread which can run inside a lock
function or `wait` does, and that a lock is released in the end; nothing says that
a woken thread gets the mutex before one that did not wait, nor that wake-ups
reach anyone in particular.

### Findings

The violation runs show where the code does not do what its documentation says;
`PROJECT.json` has the lines.

1. `pe_order`: events of one priority can be delivered out of order when a
   handler of a send for one receiver sends everything: the outer send's
   position is stale after the front of the list has been erased.
2. `pe_overslept`: the dispatcher reads `canWait`, emits `aboutToBlock()`, and
   blocks on what it has read. A slot that processes events consumes the wake-up
   of an event that it leaves posted.
3. `el_hidden`: a nested `processEvents` resets `interrupt`; the outer loop goes
   to sleep although it was told to exit.
4. `tp_lost`: a pool thread that has just expired is restarted before it has
   left `run`; `QThread::start` finds it running and does nothing, the task is
   never run and `waitForDone()` never returns.
5. `tp_timeout`: `start` queues a task for a thread that `waitingThreads` counts
   although it has timed out; the thread expires and the task stays, with no
   thread busy.

Four further statements of the documentation are refuted by the modules. They
have no run of their own; each takes an instance above with one change.

* "The object will be deleted when control returns to the event loop"
  (qobject.cpp:1797-1798). `NoDeferredDeleteStranded` as an invariant of
  `pe_loops`: a deferred delete that a nested loop has posted again does not keep
  the outer loop from blocking.
* "This function will block the current thread if any thread ... has locked for
  writing" (qreadwritelock.cpp:134-136). `NoWaiterForgotten` as an invariant of
  `rw_lock`: the last `unlock` prefers a writer that is just timing out, and a
  waiting reader is left asleep beside a free lock.
* "Readers attempting to obtain a lock will not succeed if there is a blocked
  writer" (qreadwritelock.cpp:76-79). `WritersGetIn` in `rw_lock` without its
  escape: `tryLockForRead()` tests `accessCount` only (line 201).
* "The thread pool will always use at least 1 thread, even if maxThreadCount
  limit is zero or negative" (qthreadpool.cpp:543-544). `AtLeastOneThread` as an
  invariant of `tp_pool` with 0 as the only limit: when the pool's only thread
  waits or has expired, the limit is reached and tasks stay queued.

The passing properties are stated for what the code does guarantee next to
these: `PostedOrder` and `QueuedByPriority` without receiver-specific sends,
`NoEventStranded` for events other than deferred deletes and without event
processing in slots of `aboutToBlock()`, `ExitWakesLoop` up to `hidden`,
`NoWriterForgotten` for writers, `NoTaskStranded` until a thread is overtaken,
`ActiveThreadsCounted` and `WaitForDoneReturns` unless a task was lost.

## 4. Proofs

TLAPS proves of the posted events, for all values of the constants within
`ConstantsAssumption`:

* `PostedEventsProofs!Invariance`: `Spec => []IInv`.
* `PostedEventsProofs!NothingErasedUndelivered`: `Spec => []PassedAreTaken`.
* `DeliveryProofs!TypeCorrect`: `Spec => []TypeOK`.
* `DeliveryProofs!NothingIsStranded`: `Spec => []NoEventStranded`, when
  `~MayNestInBlock`.
* `DeliveryProofs!SearchedTailIsSorted`: `Spec /\ []OwnRemovals => []SortedTail`.
* `DeliveryProofs!ListIsByPriority`: `Spec /\ []OwnRemovals => []QueuedByPriority`,
  when `SendsEverything` and `~MayThrow`.
* `DeliveryProofs!DeliveredAsPosted`: `Spec /\ []OwnRemovals => PostedOrder`, when
  `SendsEverything`.
* `DeliveryProofs!DeletesAreDeferred`: `Spec => DeferredDeleteWaits`.
* `PendingProofs!PostedEventsAreCounted`: `Spec => []PostedEventsCounted`.
* `PendingProofs!AtMostOneDeferredDelete`: `Spec => []OneDeferredDelete`.
* `PendingProofs!DeadReceiveNothing`: `Spec => []NothingForTheDead`.
* `PendingProofs!QueuesImplementEventQueue`: `Spec => ImplementsEventQueue`, when
  `~MayDeleteEvents`.

`TypeOK` is not inductive: it says that the counters are never negative, that
`startOffset` is a position in the list and never beyond `insertionOffset`, and
that a removal stays inside its list. That needs to know that nobody shortens the
list under a scan or a removal, which is true because a removal shortens it only when `recursion` is 0, and because the end of a nested global
send brings `startOffset` back to 0. So `IInv` adds:

* `MutexExclusive`: at most one thread is in a critical section of a list;
* `LowerSendsDeliver`: every send below another frame is delivering;
* `CalledByUserCode`: a thread inside a queue operation is not inside a loop or
  a scan;
* `RecursionCountsSends`: `recursion` counts the sends on the stack;
* `OffsetsInList` and `OffsetOfGlobalSend`: `startOffset` lies in the list, and
  is not 0 only while a global send runs;
* `RemovalInList`: the two indices of a removal lie in the list, in order.

`InitialInvariant` and `InvariantStep` prove `IInv`, one lemma per action. TLC has
checked `IInv` as an invariant of the three passing `pe_` instances.
That `recursion`, `loopLevel` and `postedEvents` are natural numbers is proved
last, in `DeliveryProofs`: each of them counts something (`RecursionCountsSends`,
`LevelCounts`, `Counted`).
`PassedAreTaken` is then proved over `IInv`: every insertion is at or after
`insertionOffset`, which is at or after `startOffset` while a global send runs.

`NoEventStranded` needs more, since `canWait` is set to TRUE when a send begins
to scan, before it has delivered anything, and handlers may post, send and enter
loops. `NothingMissed` says, for each thread, whose duty the work in its list
is, where work is what is posted except deferred deletes:

* `Sighted`: `canWait` is FALSE, or a move into the list will make it FALSE, or
  there is no work, or all work lies between the position of the innermost send
  that scans and `insertionOffset`. A nested send that starts takes over from
  the one around it; when it ends, either nothing is left or somebody has
  made `canWait` FALSE, and the next `canWait = TRUE` comes with a new scan;
* `Checked`: the same when the dispatcher is about to read `canWait`;
* `LowerLoopsCheck`: a loop that has called a send reads `canWait` only after
  that send has returned, and a loop below another one is in a slot;
* `Waited`: once a dispatcher has decided to wait, whether it is in its slots of
  `aboutToBlock()` or in `select`, the thread has a wake-up to consume or one
  coming, or there is no work;
* `SendsAbove`: above such a dispatcher there are sends only, and so nobody who
  consumes the wake-up. This is what the theorem takes `~MayNestInBlock` for.

`MissedStep` proves it from `IInv` and `PassedAreTaken`. TLC has checked it on
the three instances.

`PendingProofs` looks at a list as a set of records, one for each entry that has
an event (`In(t)`). `StepKinds` says what a step may do to these sets: nothing,
add the event that is posted, take one out, or carry one to another thread; and
that `postedEvents` and `lastEvent` change with them. For this it needs `IInv`,
`PassedAreTaken` (a global send erases entries whose event is gone, and no
others) and the invariant `PInv`:

* `EachOnce`, `Numbered`: an event is in one list, once, and its number was given
  by some post;
* `Counted`: `postedEvents` is the number of records of an object over all lists;
* `Swept`, `Gap`: a removal or a move leaves nothing it looks for behind it, and
  a removal that truncates has left only empty entries where it truncates. Both
  rest on `HeldLists`: the mutex keeps every other thread from changing the list
  meanwhile, except for the unlocked `++recursion`, which `Compacting` allows for;
* `CalledAlive`, `InPlace`: who posts to an object or moves it does so while it
  is alive, and an event is in the list of the object's thread unless a move is
  under way. So a thread delivers to its own objects only;
* `DeadSwept`: what is posted to an object that is deleted is being removed by
  its destructor;
* `OneDeferred`: two records of deferred deletes of an object are the same one;
* `HandledOnce`: an event that is being handled is in no list, and on one frame.

The refinement then takes each step to one of `EventQueue`: `PostAdd` is `Post`,
`ScanDeliver` is `Deliver`, the end of a handler `Handled` (an exception takes
the send off the stack, and the loop that called it, which ends one handler), a
match of
a removal `Remove`, `MoveEnd` is `Move`;
a deferred delete that is posted again, the steps of a move, and everything else
leave the abstract queue as it is. TLC has checked `PInv` on the three passing
`pe_` instances.

The three order theorems of `DeliveryProofs` rest on `InvOrder`, over `IInv` and
`PInv`:

* `Ordered`: behind `insertionOffset` priorities do not rise, but for the entries
  between the two indices of a removal that is compacting the list, which are
  swapped out of order until it truncates (`Walked`). `addEvent`'s two branches
  keep this: the append when the last priority is not below, which
  needs that nobody truncates later than that (`RemovalOrder`, `GapAfter`), and
  the insertion at what qUpperBound finds (`InsertOrder`);
* `Aged`: of two entries of one object, type and priority, other than deferred
  deletes, the one posted first stands first, in the whole list;
* `MovedFirst`: what `moveToThread` has carried over is older than what it has
  yet to carry, so `Aged` holds of the new list too.

Between sends `insertionOffset` is 0 if all sends are global and no exception
left one of them (`OffsetOfSend`); then `Ordered` speaks of the whole list, and
that is `QueuedByPriority`. `PostedOrder` follows from `Aged` and from
`PassedAreTaken`: what a global send has passed is no longer there, so what it
delivers is the first of its kind.

The hypotheses are where the promise ends. `OwnRemovals`: a thread removes from
its own list. A removal in the list of another thread that sees a send begin
there leaves its compaction half done, and what `addEvent` searches is not sorted
any more. `SendsEverything`: no `sendPostedEvents` for a receiver or a type;
finding 1 (`pe_order`) is the counterexample without it. An exception leaves
`insertionOffset` behind, hence `~MayThrow` in the second theorem. The runs that
check these properties are instances of their theorems. TLC has checked
`InvOrder` on them.

`DeferredDeleteWaits` compares the level that a deferred delete carries with
`loopLevel` at its delivery. `LevelCounts` says what `loopLevel` is: the number of
`exec`s and of handlers on the stack. That holds through an exception too, which
leaves the handler and perhaps an `exec` below it. `DeletesWait` follows each
deferred delete posted by a handler: its level is at most that of the handler as
long as that runs, and the handler's event is never posted again, so no other
handler has its name. `Sourced` says where the entries of a list come from: what
is in a list after a step was there before with the same level, or was just
posted, or moved. TLC has checked both invariants on the three passing `pe_`
instances.

TLAPS proves of the read-write lock, for all values of the constants within
`LockAssumption`, that is for any set of threads, infinite ones included,
recursive or not:

* `ReadWriteLockProofs!LockInvariance`: `Spec => []IInv`.
* `ReadWriteLockProofs!LockTypeCorrect`: `Spec => []TypeOK`.
* `ReadWriteLockProofs!LockExcludes`: `Spec => []Exclusion`.
* `ReadWriteLockProofs!WritersWoken`: `Spec => []WriterWoken`.
* `ReadWriteLockProofs!WritersNotForgotten`: `Spec => []NoWriterForgotten`.

Neither `TypeOK` nor `Exclusion` is inductive: a counter could be decremented
below 0, and `accessCount` could come to 0 while somebody holds the lock. `IInv`
says what the counters count. `LocksCounted`: `accessCount` is the number of
read locks less the number of write locks, where a lock is a pair of a thread
and a number. `FunctionsCounted`: `waitingReaders` and `waitingWriters` are the
numbers of threads in the lock functions. `WaitedFor`: a thread in a condition
is asleep, signalled or expired, only one of these, and `waiters` is their
number. Each of these sets is finite and a step changes it by one element, which
the library's facts on cardinality turn into the change of the counter.
`OneKind`, `OneWriter` and `RecursionKnown` say who may hold what, and that
`currentReaders` and `currentWriter` of a recursive lock know it. From them
`SignTells` concludes who holds the lock from the sign of `accessCount`, on which
`unlock` relies. TLC has checked `IInv` and `WriterWoken` on the instance of
`rw_lock`.

`WriterWoken` is what `NoWriterForgotten` needs over `IInv`. Only `unlock` makes
the lock free, and it calls `wakeOne`; a writer begins to wait only while the lock
is taken. So while the lock is free, the writer that was signalled is still
coming, or nobody is asleep. The two things that could spoil this are a
`wakeOne` that finds everybody expired (then no one is asleep) and a writer that
times out and takes the wake-up of another one along (`Left` shows that it does
not). The readers have no such invariant: a writer that gives up leaves them
asleep.

TLAPS proves of the event loops, for all values of the constants within
`LoopAssumption`, that is for any set of other threads, any depth of nested
loops and any number of calls:

* `EventLoopProofs!LoopsInvariance`: `Spec => []IInv`.
* `EventLoopProofs!LoopTypeCorrect`: `Spec => []TypeOK`.
* `EventLoopProofs!PipeDrainedOnce`: `Spec => []DrainedOnce`.
* `EventLoopProofs!PostsWakeLoops`: `Spec => []PostWakesLoop`, when
  `~MayNestInBlock`.
* `EventLoopProofs!QuitReachesLoops`: `Spec => []QuitReachesEveryLoop`.
* `EventLoopProofs!ExitsWakeLoops`: `Spec => []ExitWakesLoop`.

None of these is inductive: that a blocked dispatcher is woken depends on what
it and the others did many steps before. `IInv` adds:

* `Shape` and `LoopsCounted`: how calls nest, and that `eventLoops` has one
  entry for each `exec` on the stack that has entered its loop;
* `SendsNest` and `QueueKnown`: only the send that began last has events left to
  deliver, and while `canWait` holds these are all that are posted, so a send
  that finds `canWait` at its end has left nothing;
* `OneByte`: `wakeUps` is 1 exactly while one byte is about to be written, is in
  the pipe, or has just been drained; this is where `DrainedOnce` comes from;
* `WaitersSignalled`: a dispatcher that will wait, with something posted or an
  interrupt, has a byte or a `wakeUp` coming;
* `WalksLoops` and `QuitTold`: while `quitNow` holds, a loop not yet told to exit
  lies ahead of the thread that holds the mutex;
* `ExitsSeen` and `FreshSignalled`: the exit flag of a loop that is not `hidden`
  has an interrupt set or under way, or is tested next, or its dispatcher has
  begun no nested one since and a byte is coming.

Positions in `eventLoops` and on the stack are related by the number of entered
loops below a position (`LoopOf`, a cardinality), for which `LoopOfKept` and
`LoopOfNext` are the two facts every step uses. TLC has checked `IInv` on the
instance of `el_exit`.

TLAPS proves of the thread pool, for all values of the constants within
`PoolAssumption`, that is for any finite set of pool threads, any callers,
callers of `waitForDone` and tasks, any priorities and limits, with or without
expiry and failures of `pthread_create`:

* `ThreadPoolProofs!PoolInvariance`: `Spec => []PoolInvariant`.
* `ThreadPoolProofs!TypeCorrect`: `Spec => []TypeOK`.
* `ThreadPoolProofs!ActiveThreadsAreCounted`: `Spec => []ActiveThreadsCounted`.
* `ThreadPoolProofs!NoUseAfterDelete`: `Spec => []NothingDeletedInUse`.
* `ThreadPoolProofs!NoTaskIsStranded`: `Spec => []NoTaskStranded`.
* `ThreadPoolProofs!LimitIsRespected`: `Spec => LimitRespected`.

`PoolInvariant` is a conjunction whose parts are proved one after the other, each
from the ones before it:

* `Shape`: types, and what the mutex and the fields of a client say of each other;
* `WaitsCounted`: a thread in `runnableReady.wait` is asleep, signalled or
  expired, and `waiters` is their number;
* `RunningCounted`: `activeThreads` is at least the number of threads that run a
  task or are about to. It holds even when a task has been lost, and gives that
  `activeThreads` is never negative;
* `UsesCounted`: `ref` of a task with `autoDelete` is at least the number of its
  entries in the queue and of threads that have or run it. With `StolenUnused`
  (a task taken out of the queue by `stealRunnable` is nowhere else) this is
  what `NothingDeletedInUse` needs: the last use is alone (`LastUseAlone`);
* `NoOverlap`: until two resets overlap, one client at most is in `reset`, every
  thread is in `allThreads` or is being joined, an expired thread is in
  `expiredThreads` once and has no task, and the thread that is being started has
  one (`ResetKnown`, `ExpiredKnown`). `ActiveThreadsCounted` follows step by step;
  so does `LimitRespected`, since busy threads are in `allThreads` and not in
  `expiredThreads` (`BusyAreActive`);
* `Finished`: a thread of the pool that has left `run` has expired, or is being
  started again; this is where a lost task would come in;
* `Served`: what `NoTaskStranded` needs over the rest, until a thread is
  overtaken. `WaitsCovered`: `waitingThreads` is at least the number of threads
  that wait and that no `wakeOne` is meant for, so that at the limit, and where a
  wake-up is sent without need, the count may be too large but never too small.
  `Waiting`: while nobody is in `tryToStartMoreThreads` the pool is at its limit,
  or there are enough threads called or about to be for the tasks queued.
  `Exiting`: in a reset all waiting threads have been woken and one thread at
  least will still look at the queue. The last part makes the end of a reset
  leave no task behind; its beginning is where `WaitsCovered` and `Finished` are
  used: with no thread running or waiting, every thread has expired, so the pool
  counts only the reserved ones.

The hypothesis of `NoTaskIsStranded` is a step of `tryStart`, not a state of the
counters: time-outs that race with wake-ups and a `waitingThreads` that is too
large are all within the theorem, up to the moment when `tryStart` hands a task
to a thread that nothing can wake.

TLC has checked `PoolInvariant` on the instance of `tp_pool`, and on one with two
threads in `waitForDone`, in which `overlapped` happens. Proving it is how
`overlapped` was found: with one caller of `waitForDone` the properties hold
without it.

TLAPS proves of signals and slots, for all values of the constants within
`ConnectionsAssumption`, that is for any threads, objects, signals and
connections, any way in which the pool gives out mutexes (to one object or to
several), any connections made before and any depth of nested calls:

* `ConnectionUseProofs!Invariance`: `Spec => []IInv`.
* `ConnectionUseProofs!TypeCorrect`: `Spec => []TypeOK`.
* `ConnectionUseProofs!ListsOutliveTheirUsers`: `Spec => []ListsLiveWhileUsed`.
* `ConnectionUseProofs!NoConnectionIsUsedFreed`: `Spec => []NoFreedConnectionUsed`.
* `ConnectionUseProofs!CalledReceiversLive`: `Spec => []ReceiversLive`.
* `ConnectionUseProofs!BrokenWillBeCleaned`: `Spec => []BrokenAreDirty`.
* `ConnectionUseProofs!ListsChangeUnderTheirMutex`: `Spec => ListsGuarded`.
* `ConnectionUseProofs!InnermostSender`: `Spec => []CurrentSenderIsTop`.
* `ConnectionUseProofs!EachCalledOnce`: `Spec => []EachOnce`.

None of the state properties is inductive. `IInv` is a conjunction of

* `Basic`: the types; what a frame may look like at each point of its function
  (`FrameOK`); only the innermost call of a thread holds or waits for mutexes,
  and `holder` says which (`HeldByTop`);
* `LifeOK`, `NamedLive`: an object is dying while its destructor is on the stack
  of its thread, once; who was given an object finds it alive, or the destructor
  is further down on the same stack;
* `ListsShape`: what the destructor has left of the lists and of `senders` at
  each of its points, and after it;
* `UsersOK`: `inUse` is the number of frames that use the lists, and lists that
  are used are there;
* `Data`: a connection is in one list, once; `ref` is that plus the handle; the
  connections of a list have its object as their sender, those among the senders
  of an object have it as their receiver;
* `Walks`: a frame that walks a list is at a connection that is in it still, or
  its lists are not `Intact`: the destructor has begun to empty them, in a slot of
  that frame. A disconnection or a destructor that is about to unlink a
  connection holds the mutex of its receiver;
* `NewConns`: a connection under construction is nobody else's;
* `Linked`: the receiver of a connection has it among its senders, or a
  disconnection has just unlinked it and is about to reset its receiver;
* `Dirt`: a list with a broken connection is dirty, or whoever broke it uses it.

The argument for memory is this. Nothing is taken out of a list that is in use,
except by the destructor, which leaves the lists orphaned; an emission that finds
them so looks at no connection again. The destructor runs in the object's thread,
and so in a slot of every emission of that object that is under way. The argument
for receivers is the mutex: whoever holds the mutex of an object may rely on the
lists of that object (`ListsGuarded`), and both sides of a connection are changed
only with both mutexes locked, up to `c->receiver = 0`, which `Zeroing` names.
A disconnection that has waited for a second mutex in `relock` looks again at what
it had read before.

`CurrentSenderIsTop` needs `Switched` beside `IInv`: `currentSender` of an object
and the `previous` of each `Sender` lead through the slots of the object from the
innermost to the outermost, until the destructor cuts `currentSender` off; then
the innermost has `ref` 0 (`dropped`), and only it. A frame that enters a slot
becomes the innermost of its thread, and the one that leaves is the innermost.

`EachOnce` needs `Emissions`: while the lists are `Intact`, there are positions `m`
and `k` in the list of the signal such that the `m`-th connection is the last one
of the emission and the `k`-th the next it looks at; up to `m` the list holds what
the emission found and connections that are broken, before `k` what it has called
and connections that are broken. It is kept because lists that are used only grow
at their end (`ListsExtend`): `connect` cleans a list only if `inUse` is 0.

The steps are described once: `Moves` and `StepsOn` say what a step may do to the
stacks, `Effect` what it may do to connections and lists. Each part of `IInv` is
then proved from these descriptions, one case each, and not for each of the thirty
actions. What `Without` computes is proved by induction over the length, in the
form of a statement on sets of numbers (`Induction`, from `LeastNumber`). TLC has
checked the parts of `IInv`, `Switched` and `Emissions` on the instance of
`sig_slots`, and the parts of `IInv` on one with two signals.

Only model-checked: liveness (`ExitEndsExec`, `PostedIsDelivered`,
`WaitForDoneReturns`, `EveryCallReturns`, `WritersGetIn`), since TLAPS has neither ENABLED nor
fairness. Every invariant and action property that a passing run checks is stated
by a theorem.
## 5. Not modelled

* `moveToThread`: the `ThreadChange` event, children, timers, `currentSender`.
  `QOrderedMutexLocker` locks both lists in one step. Moves from no thread, or
  to none.
* Timers and socket notifiers; UNIX signals; dispatchers other than UNIX.
* Every thread has a dispatcher. `postEvent` after the thread has finished
  belongs to the life cycle of QThread.
* Deleting an object while another thread is inside a call that uses it is a
  fault of the application, and excluded (`Destroy`).
* Event processing in slots of `aboutToBlock()` is in both models, but in the
  passing event runs it is switched off (`MayNestInBlock`), since
  `NoEventStranded`, `PostWakesLoop` and `PostedIsDelivered` do not hold with it:
  `pe_overslept`.
* Compression of events other than `DeferredDelete` and `Quit`, which
  QApplication and QGuiApplication add.
* In `EventLoop`: the removal of `Quit` events when an application's loop
  starts; `QCoreApplication::exec`; `quitNow` set by `QThreadPrivate::start`.
* In `EventLoop`, the return codes of `QThread::exec`: an exit between its two
  locks (the action `ExecQuitNow`) makes it return -1 instead of the code.
* In `ThreadPool`: tasks that throw (the source calls that unsupported), calls
  that start threads during a reset, and the early test of
  `tryStart` without the mutex, which can only make it do nothing.
* Of QThread: `terminate`, priorities, stack sizes, slots connected to
  `started()` and `finished()`, and the dispatcher's deletion in `finish`.
* In `Connections`: direct, queued and blocking queued connections that are asked
  for by type, the list of connections to all signals, disconnection of one slot
  (`DisconnectOne`), `blockSignals`, signal spies, slot objects, declarative data
  and children. Objects do not move. `disconnect(Connection)` is one step, as it
  is not marked thread-safe. Signals of an object are emitted in its own thread
  only. Posting a queued call is one step: `PostedEvents` has its details, and the
  copy constructors of the arguments, which `QMetaType::create` runs under the
  sender's mutex (qobject.cpp:3113-3114), are taken as payload.
* `QWaitCondition::wait(QReadWriteLock *)`; overflow of the lock counters, which
  the source asserts.

## 6. Plan

Done: `PostedEvents` with `EventQueue`, `EventLoop`, `ReadWriteLock`,
`ThreadPool`, `Connections`, and the proofs of section 4. Left, in this order:

1. Abstract specifications of the lock and of the pool's queue of tasks, with
   refinement mappings and their proofs.
2. Blocking queued connections in `Connections`, and its composition with
   `PostedEvents` (a queued call is a posted event that holds its receiver's
   queue).
3. The whole QThread life cycle, and the futex QMutex as an implementation of a
   lock.
