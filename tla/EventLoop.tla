----------------------------- MODULE EventLoop -----------------------------
(***************************************************************************)
(* The event loops of one QThread: QThread::exec and exit                  *)
(* (thread/qthread.cpp), QEventLoop::exec and exit (kernel/qeventloop.cpp) *)
(* over QEventDispatcherUNIX (kernel/qeventdispatcher_unix.cpp), with the  *)
(* flags by which another thread makes the loops look at their exit flag   *)
(* and at the posted events: interrupt, wakeUps and the thread pipe.       *)
(*                                                                         *)
(* The thread Self runs the loops; event handlers, and the slots that the  *)
(* dispatcher's awake() and aboutToBlock() call, may post, exit loops,     *)
(* enter nested ones and call processEvents.  The queue of posted events   *)
(* is a number of events here: PostedEvents is its model.                  *)
(***************************************************************************)
EXTENDS Integers, Sequences

CONSTANTS
  Self,      \* the thread that runs the loops
  Others,    \* threads that post events and exit loops
  Codes,     \* return codes passed to exit
  NoCode,    \* -1, what exec returns when no loop was started
  NoThread,  \* owner of an unlocked mutex
  MayNest,   \* whether handlers run nested loops and call processEvents
  MayNestInBlock,  \* whether slots of aboutToBlock() do so
  MaxCalls,  \* bound on the calls on Self's stack
  MaxPosts,  \* bound on the events posted
  MaxExits   \* bound on the calls of exit

ASSUME LoopAssumption == /\ Self \notin Others /\ NoCode \notin Codes
                         /\ NoThread \notin Others \cup {Self}
                         /\ {MayNest, MayNestInBlock} \subseteq BOOLEAN
                         /\ MaxCalls \in Nat /\ MaxPosts \in Nat /\ MaxExits \in Nat

VARIABLES
  stack,       \* the calls Self is in
  eventLoops,  \* QThreadData::eventLoops, with the fields of QEventLoopPrivate
  quitNow,     \* QThreadData::quitNow
  exited,      \* QThreadPrivate::exited
  returnCode,  \* QThreadPrivate::returnCode
  mutex,       \* owner of QThreadPrivate::mutex
  interrupt,   \* QEventDispatcherUNIXPrivate::interrupt
  wakeUps,     \* QEventDispatcherUNIXPrivate::wakeUps
  pipe,        \* bytes in QEventDispatcherUNIXPrivate::thread_pipe
  canWait,     \* QThreadData::canWait
  pending,     \* posted events in the queue
  call,        \* the call of exit, postEvent or wakeUp a thread is in
  posts, exits \* how many calls have been made

threadVars == <<quitNow, exited, returnCode, mutex>>
dispatcherVars == <<interrupt, wakeUps, pipe>>
queueVars == <<canWait, pending>>
callVars == <<call, posts, exits>>
vars == <<stack, eventLoops, threadVars, dispatcherVars, queueVars, callVars>>

Threads == Others \cup {Self}

-----------------------------------------------------------------------------
(* A call of Self: QThread::exec, QEventLoop::exec or the dispatcher's     *)
(* processEvents.  n is the number of events a send may still deliver,     *)
(* waits the dispatcher's canWait, code what exec returned.                *)

Frame == [fn : {"threadExec", "exec", "processEvents"},
          at : {"begin", "test", "awake", "deliver", "handler", "block",
                "sampled", "select", "clear", "leave", "return"},
          n : Nat, waits : BOOLEAN, code : Codes \cup {NoCode}]

NewFrame(fn) == [fn |-> fn, at |-> "begin", n |-> 0, waits |-> FALSE,
                 code |-> NoCode]

\* hidden is a history field: a dispatcher of a nested call has reset
\* interrupt since the loop was told to exit.
NewLoop == [exit |-> FALSE, returnCode |-> NoCode, hidden |-> FALSE]

NoCall == [fn |-> "none", loop |-> 0, all |-> FALSE, code |-> NoCode]

Depth == Len(stack)
Top == stack[Depth]
In(fn, at) == stack # <<>> /\ Top.fn = fn /\ Top.at = at
Goto(at) == stack' = [stack EXCEPT ![Depth].at = at]
Pop == stack' = SubSeq(stack, 1, Depth - 1)
Call(fn) == stack' = Append(stack, NewFrame(fn))

Free == mutex = NoThread

\* Self runs application code: QThread::run outside exec, a handler, or a
\* slot of the dispatcher.
InCallback == \E at \in {"awake", "handler", "block"} : In("processEvents", at)
UserCode == call[Self].fn = "none" /\ (stack = <<>> \/ InCallback)

\* The dispatcher is called by QEventLoop::exec, with WaitForMoreEvents.
FromExec == Depth > 1 /\ stack[Depth - 1].fn = "exec"

Init ==
  /\ stack = <<>> /\ eventLoops = <<>>
  /\ quitNow = FALSE /\ exited = FALSE /\ returnCode = NoCode /\ mutex = NoThread
  /\ interrupt = FALSE /\ wakeUps = 0 /\ pipe = 0
  /\ canWait = TRUE /\ pending = 0
  /\ call = [u \in Threads |-> NoCall] /\ posts = 0 /\ exits = 0

-----------------------------------------------------------------------------
(* QThread::exec                                                           *)

ThreadExec ==
  /\ stack = <<>> /\ UserCode /\ Free
  /\ quitNow' = FALSE
  /\ IF exited
       THEN exited' = FALSE /\ UNCHANGED stack
       ELSE /\ stack' = << [NewFrame("threadExec") EXCEPT !.at = "return"],
                           NewFrame("exec") >>
            /\ UNCHANGED exited
  /\ UNCHANGED <<eventLoops, returnCode, mutex, dispatcherVars, queueVars, callVars>>

ThreadExecEnd ==
  /\ In("threadExec", "return") /\ Free
  /\ exited' = FALSE /\ returnCode' = NoCode
  /\ Pop
  /\ UNCHANGED <<eventLoops, quitNow, mutex, dispatcherVars, queueVars, callVars>>

-----------------------------------------------------------------------------
(* QEventLoop::exec                                                        *)

\* Pops an exec that returns code to the call below.
Return(code) ==
  LET below == SubSeq(stack, 1, Depth - 1) IN
  stack' = [below EXCEPT ![Depth - 1].code = code]

ExecQuitNow ==
  /\ In("exec", "begin") /\ Free /\ quitNow
  /\ Return(NoCode)
  /\ UNCHANGED <<eventLoops, threadVars, dispatcherVars, queueVars, callVars>>

MayStart_Always == TRUE    \* mutant: exec does not look at quitNow
MayStart == ~quitNow

ExecBegin ==
  /\ In("exec", "begin") /\ Free /\ MayStart
  /\ eventLoops' = Append(eventLoops, NewLoop)
  /\ Goto("test")
  /\ UNCHANGED <<threadVars, dispatcherVars, queueVars, callVars>>

\* while (!d->exit) processEvents(flags | WaitForMoreEvents | EventLoopExec)
ExecTest ==
  /\ In("exec", "test")
  /\ IF eventLoops[Len(eventLoops)].exit THEN Goto("leave") ELSE Call("processEvents")
  /\ UNCHANGED <<eventLoops, threadVars, dispatcherVars, queueVars, callVars>>

ExecLeave ==
  /\ In("exec", "leave") /\ Free
  /\ eventLoops' = SubSeq(eventLoops, 1, Len(eventLoops) - 1)
  /\ Return(eventLoops[Len(eventLoops)].returnCode)
  /\ UNCHANGED <<threadVars, dispatcherVars, queueVars, callVars>>

-----------------------------------------------------------------------------
(* QEventDispatcherUNIX::processEvents                                     *)

\* d->interrupt = false; emit awake()
DispatchBegin ==
  /\ In("processEvents", "begin")
  /\ interrupt' = FALSE
  /\ eventLoops' = [k \in DOMAIN eventLoops |->
       IF eventLoops[k].exit /\ ~(FromExec /\ k = Len(eventLoops))
         THEN [eventLoops[k] EXCEPT !.hidden = TRUE] ELSE eventLoops[k]]
  /\ Goto("awake")
  /\ UNCHANGED <<threadVars, wakeUps, pipe, queueVars, callVars>>

\* What is left to a send that another one runs in a handler of.
Overtaken_Unaware(f) == f    \* mutant: it goes on counting
Overtaken(f) == [f EXCEPT !.n = 0]

\* The slots have returned.  sendPostedEvents(0, 0): it delivers what is
\* posted when it starts; the sends it interrupts find nothing left.
SendBegin ==
  /\ In("processEvents", "awake") /\ call[Self].fn = "none"
  /\ canWait' = TRUE
  /\ stack' = [k \in DOMAIN stack |->
                 IF k = Depth THEN [Top EXCEPT !.at = "deliver", !.n = pending]
                              ELSE Overtaken(stack[k])]
  /\ UNCHANGED <<eventLoops, threadVars, dispatcherVars, pending, callVars>>

Deliver ==
  /\ In("processEvents", "deliver") /\ Top.n > 0
  /\ pending' = pending - 1
  /\ stack' = [stack EXCEPT ![Depth].at = "handler", ![Depth].n = @ - 1]
  /\ UNCHANGED <<eventLoops, threadVars, dispatcherVars, canWait, callVars>>

HandlerReturn ==
  /\ In("processEvents", "handler") /\ call[Self].fn = "none"
  /\ Goto("deliver")
  /\ UNCHANGED <<eventLoops, threadVars, dispatcherVars, queueVars, callVars>>

Interrupted_Ignored == FALSE    \* mutant: the dispatcher has no interrupt
Interrupted == interrupt

Waits == canWait /\ ~Interrupted /\ FromExec

\* const bool canWait = ...; if (canWait) emit aboutToBlock()
Sample ==
  /\ In("processEvents", "deliver") /\ Top.n = 0
  /\ stack' = [stack EXCEPT ![Depth].at = IF Waits THEN "block" ELSE "sampled",
                            ![Depth].waits = Waits]
  /\ UNCHANGED <<eventLoops, threadVars, dispatcherVars, queueVars, callVars>>

\* The slots have returned: only interrupt is looked at again.
TestInterrupt ==
  /\ \/ In("processEvents", "sampled")
     \/ In("processEvents", "block") /\ call[Self].fn = "none"
  /\ IF Interrupted THEN Pop ELSE Goto("select")
  /\ UNCHANGED <<eventLoops, threadVars, dispatcherVars, queueVars, callVars>>

\* doSelect: nothing to read, and the timeout is 0.
SelectNothing ==
  /\ In("processEvents", "select") /\ pipe = 0 /\ ~Top.waits
  /\ Pop
  /\ UNCHANGED <<eventLoops, threadVars, dispatcherVars, queueVars, callVars>>

SelectDrain ==
  /\ In("processEvents", "select") /\ pipe > 0
  /\ pipe' = 0
  /\ Goto("clear")
  /\ UNCHANGED <<eventLoops, threadVars, interrupt, wakeUps, queueVars, callVars>>

ClearedWakeUps_Kept == wakeUps    \* mutant: wakeUps is not reset
ClearedWakeUps == 0

\* wakeUps.testAndSetRelease(1, 0)
SelectClear ==
  /\ In("processEvents", "clear")
  /\ wakeUps' = ClearedWakeUps
  /\ Pop
  /\ UNCHANGED <<eventLoops, threadVars, interrupt, pipe, queueVars, callVars>>

-----------------------------------------------------------------------------
(* Application code of Self: a nested QEventLoop::exec or processEvents    *)
(* in a handler or a slot.                                                 *)

Nest(fn) ==
  /\ MayNest /\ UserCode /\ stack # <<>> /\ Depth < MaxCalls
  /\ In("processEvents", "block") => MayNestInBlock
  /\ Call(fn)
  /\ UNCHANGED <<eventLoops, threadVars, dispatcherVars, queueVars, callVars>>

-----------------------------------------------------------------------------
(* Calls of any thread.                                                    *)

MayCall(u) == call[u].fn = "none" /\ (u = Self => UserCode)

\* postEvent, under the queue's mutex
Post(u) ==
  /\ MayCall(u) /\ posts < MaxPosts
  /\ posts' = posts + 1
  /\ pending' = pending + 1 /\ canWait' = FALSE
  /\ call' = [call EXCEPT ![u].fn = "wakeUp"]
  /\ UNCHANGED <<stack, eventLoops, threadVars, dispatcherVars, exits>>

TellToExit(k, code) ==
  [eventLoops EXCEPT ![k].returnCode = code, ![k].exit = TRUE]

\* QEventLoop::exit of a loop that runs
LoopExit(u, k, code) ==
  /\ MayCall(u) /\ exits < MaxExits
  /\ exits' = exits + 1
  /\ eventLoops' = TellToExit(k, code)
  /\ call' = [call EXCEPT ![u] = [NoCall EXCEPT !.fn = "interrupt"]]
  /\ UNCHANGED <<stack, threadVars, dispatcherVars, queueVars, posts>>

\* QThread::exit holds the mutex while it tells all loops to exit.
ThreadExit(u, code) ==
  /\ MayCall(u) /\ exits < MaxExits /\ Free
  /\ exits' = exits + 1
  /\ exited' = TRUE /\ returnCode' = code /\ quitNow' = TRUE
  /\ mutex' = u
  /\ call' = [call EXCEPT ![u] = [fn |-> "exit", loop |-> 1, all |-> TRUE,
                                  code |-> code]]
  /\ UNCHANGED <<stack, eventLoops, dispatcherVars, queueVars, posts>>

ExitNext(u) ==
  /\ call[u].fn = "exit"
  /\ IF call[u].loop <= Len(eventLoops)
       THEN /\ eventLoops' = TellToExit(call[u].loop, call[u].code)
            /\ call' = [call EXCEPT ![u].fn = "interrupt"]
            /\ UNCHANGED mutex
       ELSE /\ mutex' = NoThread
            /\ call' = [call EXCEPT ![u] = NoCall]
            /\ UNCHANGED eventLoops
  /\ UNCHANGED <<stack, quitNow, exited, returnCode, dispatcherVars, queueVars,
                 posts, exits>>

\* QEventDispatcherUNIX::interrupt
Interrupt(u) ==
  /\ call[u].fn = "interrupt"
  /\ interrupt' = TRUE
  /\ call' = [call EXCEPT ![u].fn = "wakeUp"]
  /\ UNCHANGED <<stack, eventLoops, threadVars, wakeUps, pipe, queueVars, posts, exits>>

\* wakeUp has returned: QThread::exit goes on with the next loop.
Done(u) == call' = [call EXCEPT ![u] =
             IF @.all THEN [fn |-> "exit", loop |-> @.loop + 1, all |-> TRUE,
                            code |-> @.code]
                      ELSE NoCall]

Signals_Always == TRUE    \* mutant: every wakeUp writes to the pipe
Signals == wakeUps = 0

\* QEventDispatcherUNIX::wakeUp: wakeUps.testAndSetAcquire(0, 1), then write
WakeUp(u) ==
  /\ call[u].fn = "wakeUp"
  /\ wakeUps' = 1
  /\ IF Signals THEN call' = [call EXCEPT ![u].fn = "write"] ELSE Done(u)
  /\ UNCHANGED <<stack, eventLoops, threadVars, interrupt, pipe, queueVars, posts, exits>>

WakeUpWrite(u) ==
  /\ call[u].fn = "write"
  /\ pipe' = pipe + 1
  /\ Done(u)
  /\ UNCHANGED <<stack, eventLoops, threadVars, interrupt, wakeUps, queueVars, posts, exits>>

-----------------------------------------------------------------------------
\* Steps the loops take by themselves.
LoopStep == \/ ThreadExecEnd \/ ExecQuitNow \/ ExecBegin \/ ExecTest \/ ExecLeave
            \/ DispatchBegin \/ SendBegin \/ Deliver \/ HandlerReturn \/ Sample
            \/ TestInterrupt \/ SelectNothing \/ SelectDrain \/ SelectClear

CallStep(u) == ExitNext(u) \/ Interrupt(u) \/ WakeUp(u) \/ WakeUpWrite(u)

Next ==
  \/ LoopStep \/ ThreadExec
  \/ \E fn \in {"exec", "processEvents"} : Nest(fn)
  \/ \E u \in Threads :
       \/ CallStep(u) \/ Post(u)
       \/ \E code \in Codes :
            \/ ThreadExit(u, code)
            \/ \E k \in 1 .. Len(eventLoops) : LoopExit(u, k, code)

Spec == Init /\ [][Next]_vars

\* The scheduler runs every thread that can run, and a handler or slot that
\* the call at depth d has called returns in the end, whatever nested calls
\* it makes.  Depth 3 is the first that has a processEvents, below MaxCalls
\* the last from which calls nest.
CallbackReturn(d) == /\ Depth = d /\ InCallback
                     /\ HandlerReturn \/ SendBegin \/ TestInterrupt

FairSpec == /\ Spec /\ WF_vars(LoopStep)
            /\ \A d \in 3 .. MaxCalls - 1 : SF_vars(CallbackReturn(d))
            /\ \A u \in Threads : WF_vars(CallStep(u))

-----------------------------------------------------------------------------
(* Properties                                                              *)

TypeOK ==
  /\ stack \in Seq(Frame)
  /\ eventLoops \in Seq([exit : BOOLEAN, returnCode : Codes \cup {NoCode},
                         hidden : BOOLEAN])
  /\ {quitNow, exited, interrupt, canWait} \subseteq BOOLEAN
  /\ returnCode \in Codes \cup {NoCode} /\ mutex \in Threads \cup {NoThread}
  /\ wakeUps \in {0, 1} /\ pipe \in Nat /\ pending \in Nat
  /\ call \in [Threads -> [fn : {"none", "exit", "interrupt", "wakeUp", "write"},
                           loop : Nat, all : BOOLEAN, code : Codes \cup {NoCode}]]

Blocked == In("processEvents", "select") /\ Top.waits /\ pipe = 0
WakeUpUnderWay == \E u \in Threads : call[u].fn \in {"interrupt", "wakeUp", "write"}

\* A loop never sleeps on an event that is posted: whoever posted it is
\* still about to write to the pipe.  Not so when a slot of aboutToBlock()
\* runs a nested call, which takes the byte for itself.
PostWakesLoop == Blocked /\ ~WakeUpUnderWay => pending = 0

\* A loop that was told to exit does not go to sleep, unless a nested call
\* has reset interrupt after that.
ExitWakesLoop ==
  LET loop == eventLoops[Len(eventLoops)] IN
  Blocked /\ ~WakeUpUnderWay => ~loop.exit \/ loop.hidden

\* "After this function has been called, the event loop returns from the
\* call to exec()" (QEventLoop::exit): no loop sleeps with its exit flag set.
NoLoopSleepsAfterExit ==
  Blocked /\ ~WakeUpUnderWay => ~eventLoops[Len(eventLoops)].exit

\* wakeUps and the pipe agree when the dispatcher has drained the pipe: the
\* qWarning after testAndSetRelease(1, 0) is dead code, and no byte is left
\* behind to wake the loop again.
DrainedOnce == In("processEvents", "clear") => wakeUps = 1 /\ pipe = 0

\* QThread::exit reaches every loop: while quitNow holds, no loop of the
\* thread is left that has not been told to exit, whenever it was entered.
QuitReachesEveryLoop ==
  quitNow /\ Free => \A k \in DOMAIN eventLoops : eventLoops[k].exit

\* A thread that is told to exit leaves QThread::exec, unless nested calls
\* have hidden the interrupt from one of its loops.
Hidden == \E k \in DOMAIN eventLoops : eventLoops[k].hidden
ExitEndsExec == exited ~> stack = <<>> \/ Hidden

\* What is posted while the thread is in its loops gets delivered, even if
\* handlers and slots post more, unless the loops are left first.
PostedIsDelivered == pending > 0 ~> pending = 0 \/ stack = <<>>
=============================================================================
