----------------------------- MODULE ThreadPool -----------------------------
(***************************************************************************)
(* QThreadPool (concurrent/qthreadpool.cpp) on top of the life cycle of a  *)
(* QThread (thread/qthread_unix.cpp) and QWaitCondition.                   *)
(*                                                                         *)
(* Whatever runs under the pool's mutex is one step, from locking it, or   *)
(* from the return of a wait, to unlocking it or to the next wait.  Two    *)
(* operations keep the mutex for several steps, of which the variable      *)
(* mutex tells: tryToStartMoreThreads, one step per queued task, and       *)
(* QThread::start, which locks the mutex of the thread and waits for a     *)
(* thread that is in finish().                                             *)
(***************************************************************************)
EXTENDS Sequences, FiniteSets, WaitCondition

CONSTANTS
  Threads,        \* QThreadPoolThread objects; one that was deleted is used again
  Callers,        \* threads, or tasks, that call the pool's functions
  Waiters,        \* threads that call waitForDone
  Tasks,
  AutoDelete,     \* the tasks with QRunnable::autoDelete
  NoThread, NoTask, Free,
  Priorities,     \* given to start
  MaxThreadCounts,\* values of maxThreadCount, the first one InitialMax
  InitialMax,
  Reservations,   \* bounds reservedThreads
  Expiry,         \* expiryTimeout is not negative
  CreateMayFail,  \* pthread_create may fail
  MaxCalls        \* bound on the calls that start tasks or change limits

ASSUME PoolAssumption ==
  /\ IsFiniteSet(Threads) /\ NoThread \notin Threads
  /\ Free \notin Callers \cup Waiters
  /\ AutoDelete \subseteq Tasks /\ NoTask \notin Tasks
  /\ Priorities \subseteq Int /\ 0 \in Priorities
  /\ InitialMax \in MaxThreadCounts /\ MaxThreadCounts \subseteq Int
  /\ Reservations \subseteq Int /\ 0 \in Reservations
  /\ {Expiry, CreateMayFail} \subseteq BOOLEAN /\ MaxCalls \in Nat

VARIABLES
  queue, allThreads, expiredThreads,            \* QThreadPoolPrivate
  isExiting, maxThreadCount, reservedThreads, waitingThreads, activeThreads,
  runnableReady,
  mutex,       \* the client that keeps the pool's mutex, or Free
  runnable,    \* QThreadPoolThread::runnable
  thread,      \* where each thread is, and the task it runs
  client,      \* what each client is doing
  ref,         \* QRunnable::ref
  deleted,     \* tasks that have been deleted
  calls,      \* how many such calls have been made
  mishaps      \* history: what has gone wrong so far

Clients == Callers \cup Waiters

countVars == <<maxThreadCount, reservedThreads, waitingThreads, activeThreads>>
listVars == <<queue, allThreads, expiredThreads>>
taskVars == <<ref, deleted, calls>>
vars == <<listVars, isExiting, countVars, runnableReady, mutex, runnable,
          thread, client, taskVars, mishaps>>

-----------------------------------------------------------------------------
\* none: no object.  done: not running.  start: in pthread_create or before
\* the first lock of run.  idle: in runnableReady.wait.  called, late: that wait
\* is over, by wakeOne or by a time-out, the pool's mutex is not locked yet.
\* left: run has returned, isInFinish is not set yet.
ThreadState == [at : {"none", "done", "start", "task", "idle", "called", "late",
                      "left", "finish"},
                task : Tasks \cup {NoTask}]
At(where) == [at |-> where, task |-> NoTask]
Runs(task) == [at |-> "task", task |-> task]

\* launch: in QThread::start of a thread.  push: in tryToStartMoreThreads.
\* asleep, woken: in waitForDone.  return: between it and reset.
\* join: in reset.  steal: runs a task taken from the queue.
ClientState == [at : {"user", "launch", "push", "asleep", "woken",
                      "return", "join", "steal"},
                thread : Threads \cup {NoThread}, task : Tasks \cup {NoTask},
                flag : BOOLEAN,    \* launch: push goes on; steal: delete the task
                joining : SUBSET Threads]
User == [at |-> "user", thread |-> NoThread, task |-> NoTask, flag |-> FALSE,
         joining |-> {}]

Becomes(c, state) == client' = [client EXCEPT ![c] = state]

Init ==
  /\ queue = <<>> /\ allThreads = {} /\ expiredThreads = <<>>
  /\ isExiting = FALSE /\ maxThreadCount = InitialMax
  /\ reservedThreads = 0 /\ waitingThreads = 0 /\ activeThreads = 0
  /\ runnableReady = NewCondition /\ mutex = Free
  /\ runnable = [t \in Threads |-> NoTask]
  /\ thread = [t \in Threads |-> At("none")]
  /\ client = [c \in Clients |-> User]
  /\ ref = [k \in Tasks |-> 0] /\ deleted = {} /\ calls = 0
  /\ mishaps = {}

-----------------------------------------------------------------------------
(* Counters and the queue                                                  *)

ActiveThreadCount ==
  Cardinality(allThreads) - Len(expiredThreads) - waitingThreads + reservedThreads

AtLimit_OffByOne == ActiveThreadCount > maxThreadCount
AtLimit == ActiveThreadCount >= maxThreadCount

TooManyThreadsActive_OffByOne ==
  ActiveThreadCount >= maxThreadCount /\ ActiveThreadCount - reservedThreads > 1
TooManyThreadsActive ==
  ActiveThreadCount > maxThreadCount /\ ActiveThreadCount - reservedThreads > 1

\* qUpperBound: behind the entries of the same or a higher priority
Inserted(q, task, priority) ==
  LET n == Cardinality({i \in DOMAIN q : q[i].priority >= priority}) IN
  SubSeq(q, 1, n) \o <<[task |-> task, priority |-> priority]>> \o SubSeq(q, n + 1, Len(q))

\* A task that is started or queued is used once more; a task that has been
\* run is used once less, and deleted with its last use.
RefTaken(task) == IF task \in AutoDelete THEN [ref EXCEPT ![task] = @ + 1] ELSE ref
RefDropped_Always(task) == [ref EXCEPT ![task] = @ - 1]
RefDropped(task) == IF task \in AutoDelete THEN [ref EXCEPT ![task] = @ - 1] ELSE ref
LastUse_Any(task) == task \in AutoDelete
LastUse(task) == task \in AutoDelete /\ ref[task] = 1

\* enqueueTask, and removal of the first entries after it
EnqueueTask(task, priority, removed) ==
  /\ ref' = RefTaken(task)
  /\ queue' = LET q == Inserted(queue, task, priority) IN SubSeq(q, removed + 1, Len(q))
  /\ runnableReady' \in WokenOne(runnableReady)

-----------------------------------------------------------------------------
(* QThreadPoolPrivate::tryStart, in start (more = FALSE) or in             *)
(* tryToStartMoreThreads, which removes the task from the queue after it.  *)

Removed(more) == IF more THEN 1 ELSE 0
Launches(c, t, more) ==
  Becomes(c, [User EXCEPT !.at = "launch", !.thread = t, !.flag = more])

StartThread(c, task, more) ==
  \E t \in Threads :
    /\ thread[t].at = "none"
    /\ thread' = [thread EXCEPT ![t] = At("done")]
    /\ allThreads' = allThreads \cup {t}
    /\ activeThreads' = activeThreads + 1
    /\ ref' = RefTaken(task)
    /\ runnable' = [runnable EXCEPT ![t] = task]
    /\ queue' = SubSeq(queue, 1 + Removed(more), Len(queue))
    /\ mutex' = c /\ Launches(c, t, more)
    /\ UNCHANGED <<expiredThreads, waitingThreads, runnableReady>>

RestartThread(c, task, more) ==
  LET t == Head(expiredThreads) IN
  /\ expiredThreads' = Tail(expiredThreads)
  /\ activeThreads' = activeThreads + 1
  /\ ref' = RefTaken(task)
  /\ runnable' = [runnable EXCEPT ![t] = task]
  /\ queue' = SubSeq(queue, 1 + Removed(more), Len(queue))
  /\ mutex' = c /\ Launches(c, t, more)
  /\ UNCHANGED <<allThreads, waitingThreads, runnableReady, thread>>

RecycleThread(task, more) ==
  /\ waitingThreads' = waitingThreads - 1
  /\ EnqueueTask(task, 0, Removed(more))
  /\ UNCHANGED <<allThreads, expiredThreads, activeThreads, mutex, runnable,
                 thread, client>>

TryStartTask(c, task, more) ==
  \/ allThreads = {} /\ StartThread(c, task, more)
  \/ /\ allThreads # {} /\ ~AtLimit
     /\ \/ waitingThreads > 0 /\ RecycleThread(task, more)
        \/ waitingThreads <= 0 /\ expiredThreads # <<>> /\ RestartThread(c, task, more)
        \/ waitingThreads <= 0 /\ expiredThreads = <<>> /\ StartThread(c, task, more)

\* QThread::start
StartsRunning == {At("start")} \cup (IF CreateMayFail THEN {At("done")} ELSE {})

QThreadStart(c) ==
  LET t == client[c].thread IN
  /\ client[c].at = "launch" /\ thread[t].at # "finish"
  /\ IF thread[t].at = "done"
       THEN \E state \in StartsRunning : thread' = [thread EXCEPT ![t] = state]
       ELSE UNCHANGED thread
  /\ IF client[c].flag THEN Becomes(c, [User EXCEPT !.at = "push"]) /\ UNCHANGED mutex
                       ELSE Becomes(c, User) /\ mutex' = Free
  /\ UNCHANGED <<listVars, isExiting, countVars, runnableReady, runnable, taskVars>>

-----------------------------------------------------------------------------
(* Operations of a client                                                  *)

Calls(c) == client[c].at = "user" /\ mutex = Free

\* A call that is counted
Counts == calls < MaxCalls /\ calls' = calls + 1

\* Nobody calls during a reset what may start a thread.
MayLaunch(c) == Calls(c) /\ ~isExiting

InUse(task) ==
  \/ \E i \in DOMAIN queue : queue[i].task = task
  \/ \E t \in Threads : runnable[t] = task \/ thread[t].task = task
  \/ \E c \in Clients : client[c].task = task

\* A task with autoDelete may be started again only by tryStart while a thread
\* of the pool runs it.
MayStart(c, task) == MayLaunch(c) /\ Counts /\ task \notin deleted
Started(task) == task \in AutoDelete /\ InUse(task)
IsRun(task) == \E t \in Threads : thread[t].task = task

\* tryStart, after its test of the counters without the mutex, which makes it
\* return early but changes nothing
TryStart(c, task) ==
  /\ MayStart(c, task) /\ (Started(task) => IsRun(task))
  /\ TryStartTask(c, task, FALSE)
  /\ UNCHANGED <<isExiting, maxThreadCount, reservedThreads, deleted>>

\* start, when tryStart returns false
Queue(c, task, priority) ==
  /\ MayStart(c, task) /\ ~Started(task)
  /\ allThreads # {} /\ AtLimit
  /\ EnqueueTask(task, priority, 0)
  /\ UNCHANGED <<allThreads, expiredThreads, isExiting, countVars, mutex,
                 runnable, thread, client, deleted>>

SetMaxThreadCount(c, n) ==
  /\ MayLaunch(c) /\ n # maxThreadCount /\ Counts
  /\ maxThreadCount' = n
  /\ mutex' = c /\ Becomes(c, [User EXCEPT !.at = "push"])
  /\ UNCHANGED <<listVars, isExiting, reservedThreads, waitingThreads,
                 activeThreads, runnableReady, runnable, thread, ref, deleted>>

ReserveThread(c) ==
  /\ Calls(c) /\ reservedThreads + 1 \in Reservations /\ Counts
  /\ reservedThreads' = reservedThreads + 1
  /\ UNCHANGED <<listVars, isExiting, maxThreadCount, waitingThreads, activeThreads,
                 runnableReady, mutex, runnable, thread, client, ref, deleted>>

ReleaseThread(c) ==
  /\ MayLaunch(c) /\ reservedThreads - 1 \in Reservations
  /\ reservedThreads' = reservedThreads - 1
  /\ mutex' = c /\ Becomes(c, [User EXCEPT !.at = "push"])
  /\ UNCHANGED <<listVars, isExiting, maxThreadCount, waitingThreads,
                 activeThreads, runnableReady, runnable, thread, taskVars>>

\* while (!queue.isEmpty() && tryStart(queue.first().first)) queue.removeFirst()
TryToStartMoreThreads(c) ==
  /\ client[c].at = "push"
  /\ \/ /\ queue = <<>> \/ (allThreads # {} /\ AtLimit)
        /\ mutex' = Free /\ Becomes(c, User)
        /\ UNCHANGED <<listVars, waitingThreads, activeThreads, runnableReady,
                       runnable, thread, ref>>
     \/ queue # <<>> /\ TryStartTask(c, Head(queue).task, TRUE)
  /\ UNCHANGED <<isExiting, maxThreadCount, reservedThreads, deleted, calls>>

\* stealRunnable, and startFrontRunnable when n = 1; a task with autoDelete
\* that is stolen is in no other use: QFutureInterface, the only caller, has
\* the pool start its task once.
OnlyUse(task, n) == /\ \A i \in DOMAIN queue : queue[i].task = task => i = n
                    /\ \A t \in Threads : runnable[t] # task /\ thread[t].task # task
StealRunnable(c, n) ==
  /\ Calls(c)
  /\ LET task == queue[n].task IN
       /\ task \in AutoDelete => OnlyUse(task, n)
       /\ \A i \in 1 .. n - 1 : queue[i].task # task
       /\ ref' = RefDropped(task)
       /\ Becomes(c, [User EXCEPT !.at = "steal", !.task = task, !.flag = LastUse(task)])
  /\ queue' = SubSeq(queue, 1, n - 1) \o SubSeq(queue, n + 1, Len(queue))
  /\ UNCHANGED <<allThreads, expiredThreads, isExiting, countVars, runnableReady,
                 mutex, runnable, thread, deleted, calls>>

StealEnd(c) ==
  /\ client[c].at = "steal" /\ mutex = Free
  /\ deleted' = IF client[c].flag THEN deleted \cup {client[c].task} ELSE deleted
  /\ Becomes(c, User)
  /\ UNCHANGED <<listVars, isExiting, countVars, runnableReady, mutex, runnable,
                 thread, ref, calls>>

-----------------------------------------------------------------------------
(* waitForDone and reset                                                   *)

Done == queue = <<>> /\ activeThreads = 0

\* At the end of a wait, or without one; asleep is where to be if not done.
Looks(c, asleep) ==
  /\ Becomes(c, IF Done THEN [asleep EXCEPT !.at = "return"] ELSE asleep)
  /\ UNCHANGED <<listVars, isExiting, countVars, runnableReady, mutex, runnable,
                 thread, taskVars>>

WaitForDone(c) == Calls(c) /\ Looks(c, [User EXCEPT !.at = "asleep"])

WaitForDoneWoken(c) ==
  client[c].at = "woken" /\ mutex = Free /\ Looks(c, [client[c] EXCEPT !.at = "asleep"])

\* waitForDone(msecs) may give up, and returns whether the pool is done;
\* waitForDone() is the one that never does.
WaitForDoneExpired(c) ==
  /\ client[c].at \in {"asleep", "woken"} /\ mutex = Free
  /\ Looks(c, User)

Reset(c) ==
  /\ client[c].at = "return" /\ mutex = Free
  /\ isExiting' = TRUE
  /\ runnableReady' = WokenAll(runnableReady)
  /\ allThreads' = {}
  /\ Becomes(c, [User EXCEPT !.at = "join", !.joining = allThreads])
  /\ UNCHANGED <<queue, expiredThreads, countVars, mutex, runnable, thread,
                 taskVars>>

\* thread->wait() and delete thread
Join(c, t) ==
  /\ client[c].at = "join" /\ t \in client[c].joining
  /\ thread[t].at = "done"
  /\ thread' = [thread EXCEPT ![t] = At("none")]
  /\ runnable' = [runnable EXCEPT ![t] = NoTask]
  /\ Becomes(c, [client[c] EXCEPT !.joining = @ \ {t}])
  /\ UNCHANGED <<listVars, isExiting, countVars, runnableReady, mutex, taskVars>>

ResetEnd(c) ==
  /\ client[c].at = "join" /\ client[c].joining = {} /\ mutex = Free
  /\ IF allThreads # {}
       THEN /\ Becomes(c, [client[c] EXCEPT !.joining = allThreads])
            /\ allThreads' = {}
            /\ UNCHANGED <<waitingThreads, expiredThreads, isExiting>>
       ELSE /\ waitingThreads' = 0 /\ expiredThreads' = <<>> /\ isExiting' = FALSE
            /\ Becomes(c, User)
            /\ UNCHANGED allThreads
  /\ UNCHANGED <<queue, maxThreadCount, reservedThreads, activeThreads,
                 runnableReady, mutex, runnable, thread, taskVars>>

-----------------------------------------------------------------------------
(* QThreadPoolThread::run                                                  *)

\* registerTheadInactive, with active threads before it
RegisterInactive_NoWakeUp(active) == activeThreads' = active - 1 /\ UNCHANGED client
RegisterInactive(active) ==
  /\ activeThreads' = active - 1
  /\ client' = [c \in Clients |->
       IF active = 1 /\ client[c].at = "asleep" THEN [client[c] EXCEPT !.at = "woken"]
                                                ELSE client[c]]

Leaves_run(t, active) == RegisterInactive(active) /\ thread' = [thread EXCEPT ![t] = At("left")]

Expires(t, active) ==
  /\ expiredThreads' = Append(expiredThreads, t)
  /\ Leaves_run(t, active)

\* A thread is active again when its wait has ended.
ActiveAgain_Forgotten == activeThreads
ActiveAgain == activeThreads + 1

\* From the end of a task, or of a wait, to the next task, the next wait or
\* the end of run.  active and ready are activeThreads and runnableReady.
LookForWork(t, active, ready) ==
  \/ /\ ~TooManyThreadsActive /\ queue # <<>>
     /\ thread' = [thread EXCEPT ![t] = Runs(Head(queue).task)]
     /\ queue' = Tail(queue)
     /\ activeThreads' = active
     /\ runnableReady' = ready
     /\ UNCHANGED <<expiredThreads, waitingThreads, client>>
  \/ /\ TooManyThreadsActive \/ queue = <<>>
     /\ UNCHANGED queue
     /\ \/ /\ isExiting /\ Leaves_run(t, active)
           /\ runnableReady' = ready
           /\ UNCHANGED <<expiredThreads, waitingThreads>>
        \/ /\ ~isExiting /\ TooManyThreadsActive /\ Expires(t, active)
           /\ runnableReady' = ready
           /\ UNCHANGED waitingThreads
        \/ /\ ~isExiting /\ ~TooManyThreadsActive
           /\ waitingThreads' = waitingThreads + 1
           /\ RegisterInactive(active)
           /\ runnableReady' = Sleep(ready, t)
           /\ thread' = [thread EXCEPT ![t] = At("idle")]
           /\ UNCHANGED expiredThreads

RunBegin(t) ==
  /\ thread[t].at = "start" /\ mutex = Free
  /\ thread' = [thread EXCEPT ![t] = Runs(runnable[t])]
  /\ runnable' = [runnable EXCEPT ![t] = NoTask]
  /\ UNCHANGED <<listVars, isExiting, countVars, runnableReady, mutex, client,
                 taskVars>>

TaskEnd(t) ==
  LET task == thread[t].task IN
  /\ thread[t].at = "task" /\ mutex = Free
  /\ ref' = RefDropped(task)
  /\ deleted' = IF LastUse(task) THEN deleted \cup {task} ELSE deleted
  /\ LookForWork(t, activeThreads, runnableReady)
  /\ UNCHANGED <<allThreads, isExiting, maxThreadCount, reservedThreads, mutex,
                 runnable, calls>>

\* runnableReady.wait counts the thread out, and then locks the pool's mutex.
WaitLeave(t) ==
  /\ thread[t].at = "idle" /\ Leaves(runnableReady, t)
  /\ runnableReady' = Left(runnableReady, t)
  /\ thread' = [thread EXCEPT
       ![t] = At(IF t \in runnableReady.signalled THEN "called" ELSE "late")]
  /\ UNCHANGED <<listVars, isExiting, countVars, mutex, runnable, client, taskVars>>

WaitEnd(t) ==
  /\ mutex = Free
  /\ \/ thread[t].at = "called" /\ LookForWork(t, ActiveAgain, runnableReady)
     \/ /\ thread[t].at = "late"
        /\ waitingThreads' = waitingThreads - 1
        /\ Expires(t, ActiveAgain)
        /\ UNCHANGED <<queue, runnableReady>>
  /\ UNCHANGED <<allThreads, isExiting, maxThreadCount, reservedThreads, mutex,
                 runnable, taskVars>>

\* The condition by itself: a time-out, a spurious wake-up, back to sleep.
WaitStep(t) ==
  /\ \/ Expiry /\ t \in runnableReady.asleep /\ runnableReady' = Expired(runnableReady, t)
     \/ t \in runnableReady.asleep /\ runnableReady' = Spurious(runnableReady, t)
     \/ SleepsAgain(runnableReady, t) /\ runnableReady' = AsleepAgain(runnableReady, t)
  /\ UNCHANGED <<listVars, isExiting, countVars, mutex, runnable, thread, client,
                 taskVars>>

\* QThreadPrivate::finish: isInFinish is set, then running is reset.
FinishBegin(t) ==
  /\ thread[t].at = "left"
  /\ thread' = [thread EXCEPT ![t] = At("finish")]
  /\ UNCHANGED <<listVars, isExiting, countVars, runnableReady, mutex, runnable,
                 client, taskVars>>

FinishEnd(t) ==
  /\ thread[t].at = "finish"
  /\ thread' = [thread EXCEPT ![t] = At("done")]
  /\ UNCHANGED <<listVars, isExiting, countVars, runnableReady, mutex, runnable,
                 client, taskVars>>

-----------------------------------------------------------------------------
\* What may go wrong.  lost: a task was given to a thread that does not start.
\* overtaken: tryStart takes a waiting thread off waitingThreads, but wakeOne
\* finds none to wake: those that it counts have timed out or are woken already.
\* robbed: the last task was taken out of the queue while no thread was active.
\* overlapped: two calls of waitForDone are in reset at the same time, of which
\* the first to end resets isExiting.
Lost == \E t \in Threads : /\ runnable[t] # NoTask /\ thread[t].at # "start"
                           /\ \A c \in Clients : client[c].thread # t
Overtaken ==
  /\ waitingThreads' < waitingThreads /\ ~isExiting /\ UNCHANGED thread
  /\ Cardinality(runnableReady.asleep \cup runnableReady.signalled) <= runnableReady.wakeups
Overlapped == \E c, d \in Clients :
                c # d /\ client[c].at = "join" /\ client[d].at = "join"
Remember ==
  mishaps' = mishaps \cup (IF Lost' THEN {"lost"} ELSE {})
                     \cup (IF Overtaken THEN {"overtaken"} ELSE {})
                     \cup (IF Overlapped' THEN {"overlapped"} ELSE {})
                     \cup (IF Done' /\ ~Done /\ activeThreads = 0 THEN {"robbed"} ELSE {})

ThreadStep(t) ==
  /\ RunBegin(t) \/ TaskEnd(t) \/ WaitLeave(t) \/ WaitEnd(t)
     \/ FinishBegin(t) \/ FinishEnd(t)
  /\ Remember

ClientStep(c) ==
  /\ \/ QThreadStart(c) \/ TryToStartMoreThreads(c) \/ StealEnd(c)
     \/ WaitForDoneWoken(c) \/ Reset(c) \/ ResetEnd(c)
     \/ \E t \in Threads : Join(c, t)
  /\ Remember

Call(c) ==
  \/ \E task \in Tasks : TryStart(c, task) \/ \E p \in Priorities : Queue(c, task, p)
  \/ \E n \in MaxThreadCounts : SetMaxThreadCount(c, n)
  \/ ReserveThread(c) \/ ReleaseThread(c)
  \/ \E n \in DOMAIN queue : StealRunnable(c, n)

WaitCall(c) == WaitForDone(c) \/ WaitForDoneExpired(c)

Next ==
  \/ \E t \in Threads : ThreadStep(t) \/ (WaitStep(t) /\ Remember)
  \/ \E c \in Clients : ClientStep(c)
  \/ \E c \in Callers : Call(c) /\ Remember
  \/ \E c \in Waiters : WaitCall(c) /\ Remember

Spec == Init /\ [][Next]_vars

\* The scheduler and the pool's mutex let everyone on in the end, tasks end,
\* and a thread that is reserved is released.
FairSpec ==
  /\ Spec
  /\ \A t \in Threads : WF_vars(ThreadStep(t))
  /\ \A c \in Clients : WF_vars(ClientStep(c))
  /\ WF_vars(\E c \in Callers : reservedThreads > 0 /\ ReleaseThread(c) /\ Remember)

-----------------------------------------------------------------------------
(* Properties                                                              *)

\* The pool's fields have their types; activeThreads is never negative and no
\* reference count is.
Mishaps == {"lost", "overtaken", "robbed", "overlapped"}
TypeOK ==
  /\ queue \in Seq([task : Tasks, priority : Priorities])
  /\ allThreads \subseteq Threads /\ expiredThreads \in Seq(Threads)
  /\ isExiting \in BOOLEAN /\ mishaps \subseteq Mishaps
  /\ maxThreadCount \in MaxThreadCounts /\ reservedThreads \in Reservations
  /\ waitingThreads \in Int /\ activeThreads \in Nat
  /\ runnableReady \in ConditionOf(Threads)
  /\ mutex \in Clients \cup {Free}
  /\ runnable \in [Threads -> Tasks \cup {NoTask}]
  /\ thread \in [Threads -> ThreadState] /\ client \in [Clients -> ClientState]
  /\ ref \in [Tasks -> Nat] /\ deleted \subseteq Tasks /\ calls \in 0 .. MaxCalls

\* Threads that have a task or are about to have one.
Busy == {t \in Threads : runnable[t] # NoTask \/ thread[t].at = "task"}

\* activeThreads, on which waitForDone depends, is the number of threads that
\* have a task, through expiry, restarts, resets and failures to create a
\* thread; unless a task has been lost (see NoTaskLost) or resets have overlapped.
ActiveThreadsCounted ==
  mishaps \cap {"lost", "overlapped"} = {} => activeThreads = Cardinality(Busy)

\* A task that QRunnable::ref has let be deleted is in no queue and no thread,
\* nor taken out of the queue by waitForFinished.
NothingDeletedInUse == \A task \in deleted : ~InUse(task)

\* "Reserves a thread and uses it to run runnable, unless this thread will make
\* the current thread count exceed maxThreadCount()" (start): while a task is
\* queued, the threads that have a task and the reserved ones use the limit up,
\* or a thread that was woken is on its way, or the pool is being reset.  It is
\* broken by a thread that waitingThreads counts although it has timed out, or
\* although it was woken at the limit for a task that start has queued.
WillLook == \/ runnableReady.signalled # {} /\ runnableReady.wakeups > 0
            \/ \E t \in Threads : thread[t].at = "called"
LimitUsedUp == Cardinality(Busy) + reservedThreads >= maxThreadCount
StartUsesThreads == queue # <<>> /\ mutex = Free => LimitUsedUp \/ isExiting \/ WillLook

\* The same, as long as tryStart has found a thread to wake for every one that it
\* took off waitingThreads, no task was given to a thread that does not start,
\* and no two resets have overlapped: no other course of calls, expiries,
\* reservations and limits leaves a task in the queue beside a free slot.
NoTaskStranded == mishaps \cap {"lost", "overtaken", "overlapped"} = {} => StartUsesThreads

\* "The thread pool will always use at least 1 thread, even if maxThreadCount
\* limit is zero or negative" (setMaxThreadCount): a queued task finds a thread
\* that runs one or is on its way; when all have expired, it finds none.
AtLeastOneThread == queue # <<>> /\ mutex = Free => Busy # {} \/ isExiting \/ WillLook

\* The pool gives a task to a new or an expired thread only while fewer threads
\* than maxThreadCount, the reserved ones among them, are busy, or none is;
\* unless resets have overlapped.
LimitRespected ==
  [][\A t \in Threads :
       runnable[t] = NoTask /\ runnable'[t] # NoTask /\ "overlapped" \notin mishaps =>
         Busy = {} \/ Cardinality(Busy) + reservedThreads < maxThreadCount]_vars

\* waitForDone, with the reset that it ends in, returns once the tasks have
\* been run, whatever threads expire, start or finish meanwhile; unless one of
\* the mishaps has happened.
WaitForDoneReturns ==
  \A c \in Waiters : client[c].at # "user" ~> client[c].at = "user" \/ mishaps # {}

\* "Otherwise, runnable is run immediately using one available thread and this
\* function returns true" (tryStart): no task stays with a thread that does
\* not run it, although threads can always be created.
NoTaskLost == ~Lost
=============================================================================
