-------------------------- MODULE EventLoopProofs --------------------------
(***************************************************************************)
(* Proofs about the loops of a thread and the dispatcher's wake-ups, for   *)
(* any threads that post and exit, any depth of nested loops, and any      *)
(* number of calls.                                                        *)
(***************************************************************************)
EXTENDS EventLoop, SequenceTheorems, FiniteSetTheorems, TLAPS

\* Where a call is that has called another one.
Callers == {"return", "test", "awake", "handler"}
             \cup (IF MayNestInBlock THEN {"block"} ELSE {})

\* The calls of a stack s: QThread::exec is the first; a call below another
\* one waits for it where the code makes the call; a dispatcher that waits
\* was called by exec; and only the last send that began has something left
\* to deliver.
Shape(s) ==
  \A k \in 1 .. Len(s) :
    /\ s[k].fn = "threadExec" <=> k = 1
    /\ s[k].fn = "threadExec" => s[k].at = "return"
    /\ s[k].fn = "exec" => s[k].at \in {"begin", "test", "leave"}
    /\ s[k].fn = "processEvents" => s[k].at \notin {"test", "leave", "return"}
    /\ k < Len(s) => s[k].at \in Callers
    /\ s[k].fn = "processEvents" /\ s[k].waits => s[k - 1].fn = "exec"

SendsNest(s) ==
  \A k \in 1 .. Len(s) :
    /\ s[k].n > 0 => s[k].fn = "processEvents" /\ s[k].at \in {"deliver", "handler"}
    /\ s[k].fn = "processEvents" /\ s[k].at \notin {"begin", "awake"}
         => \A j \in 1 .. k - 1 : s[j].n = 0

\* The number of loops that the first d calls of stack s have entered
Started(s, d) == {k \in 1 .. d : s[k].fn = "exec" /\ s[k].at # "begin"}
LoopOf(s, d) == Cardinality(Started(s, d))
LoopsCounted == Len(eventLoops) = LoopOf(stack, Depth)

\* canWait tells that everything posted is left to a send.
QueueKnown ==
  /\ \A k \in 1 .. Depth : stack[k].n <= pending
  /\ canWait => pending = 0 \/ \E k \in 1 .. Depth : stack[k].n = pending

\* The thread that holds the mutex tells the loops to exit, one by one.
WalksLoops ==
  \A u \in Threads :
    /\ call[u].all <=> mutex = u
    /\ call[u].fn = "none" => ~call[u].all
    /\ call[u].fn = "exit" => call[u].all
    /\ call[u].all => call[u].loop \in Nat \ {0}
Told(u, k) == k < call[u].loop \/ (k = call[u].loop /\ call[u].fn # "exit")
QuitTold ==
  quitNow => \A k \in 1 .. Len(eventLoops) :
               eventLoops[k].exit \/ \E u \in Threads : call[u].all /\ ~Told(u, k)

\* wakeUps is 1 while a byte is to be written, in the pipe, or just drained.
Draining == In("processEvents", "clear")
Writers == {u \in Threads : call[u].fn = "write"}
OneByte ==
  \/ wakeUps = 0 /\ pipe = 0 /\ Writers = {} /\ ~Draining
  \/ wakeUps = 1 /\ pipe = 1 /\ Writers = {} /\ ~Draining
  \/ wakeUps = 1 /\ pipe = 0 /\ ~Draining /\ \E u \in Threads : Writers = {u}
  \/ wakeUps = 1 /\ pipe = 0 /\ Writers = {} /\ Draining

\* A dispatcher that is going to wait for more events is woken for what
\* interrupts it after it has looked, and, unless slots of aboutToBlock() call
\* the dispatcher again, for what is posted.
Signalled == pipe > 0 \/ WakeUpUnderWay
Sampled == In("processEvents", "block") \/ In("processEvents", "sampled")
GoingToWait == (Sampled \/ In("processEvents", "select")) /\ Top.waits
WaitersSignalled ==
  /\ GoingToWait /\ ~Sampled /\ interrupt => Signalled
  /\ ~MayNestInBlock /\ GoingToWait /\ pending > 0 => Signalled

\* A loop told to exit between its test and the begin of its dispatcher,
\* which resets interrupt
Fresh == In("processEvents", "begin") /\ FromExec
FreshSignalled == Fresh /\ eventLoops[Len(eventLoops)].exit => Signalled

\* Call d of stack s is the dispatcher of a loop, and none has begun in it.
LastDispatch(s, d) ==
  /\ d > 1 /\ s[d].fn = "processEvents" /\ s[d].at # "clear" /\ s[d - 1].fn = "exec"
  /\ \A j \in d + 1 .. Len(s) : s[j].fn = "processEvents" => s[j].at = "begin"

\* The innermost loop tests its flag next.
TestsNext ==
  \/ In("exec", "test") \/ In("exec", "leave")
  \/ Draining /\ FromExec

Interrupting == interrupt \/ \E u \in Threads : call[u].fn = "interrupt"
ExitsSeen ==
  \A k \in 1 .. Len(eventLoops) : eventLoops[k].exit /\ ~eventLoops[k].hidden =>
    \/ Interrupting
    \/ k = Len(eventLoops) /\ TestsNext
    \/ Signalled /\ \E d \in 1 .. Depth : LastDispatch(stack, d) /\ k = LoopOf(stack, d)

StackInv == Shape(stack) /\ SendsNest(stack) /\ LoopsCounted
IInv == /\ TypeOK /\ StackInv /\ QueueKnown /\ WalksLoops /\ QuitTold /\ OneByte
        /\ WaitersSignalled /\ FreshSignalled /\ ExitsSeen

-----------------------------------------------------------------------------
(* Stacks                                                                  *)

Places == {"begin", "test", "awake", "deliver", "handler", "block",
           "sampled", "select", "clear", "leave", "return"}

\* The number of calls is a number, and the top one is a frame.
LEMMA TopFrame ==
  ASSUME TypeOK
  PROVE  /\ Depth \in Nat /\ (stack # <<>> <=> Depth > 0)
         /\ \A k \in 1 .. Depth : stack[k] \in Frame
         /\ stack # <<>> => Depth \in 1 .. Depth /\ Top \in Frame
<1>1. stack \in Seq(Frame) /\ Depth \in Nat /\ (stack # <<>> <=> Depth > 0)
  BY LenProperties, EmptySeq DEF TypeOK, Depth
<1>2. \A k \in 1 .. Depth : stack[k] \in Frame
  BY <1>1, ElementOfSeq DEF Depth
<1> QED
  BY <1>1, <1>2 DEF Top

\* The top call is replaced by frame f.
LEMMA TopReplaced ==
  ASSUME TypeOK, stack # <<>>, NEW f \in Frame, stack' = [stack EXCEPT ![Depth] = f]
  PROVE  /\ stack' \in Seq(Frame) /\ Depth' = Depth /\ Top' = f
         /\ \A k \in 1 .. Depth - 1 : stack'[k] = stack[k]
<1>1. stack \in Seq(Frame) /\ Depth \in Nat /\ Depth \in 1 .. Depth
  BY TopFrame DEF TypeOK
<1>2. stack' \in Seq(Frame) /\ Len(stack') = Len(stack)
  BY <1>1, ExceptSeq DEF Depth
<1>3. Depth' = Depth
  BY <1>2 DEF Depth
<1>4. \A k \in 1 .. Depth : stack'[k] = IF k = Depth THEN f ELSE stack[k]
  BY <1>1, ExceptSeq DEF Depth
<1> QED
  BY <1>1, <1>2, <1>3, <1>4 DEF Top

\* The top call goes on at another place.
LEMMA WentTo ==
  ASSUME TypeOK, stack # <<>>, NEW at \in Places, Goto(at)
  PROVE  /\ stack' \in Seq(Frame) /\ Depth' = Depth
         /\ Top' = [Top EXCEPT !.at = at]
         /\ \A k \in 1 .. Depth - 1 : stack'[k] = stack[k]
<1>1. Top \in Frame /\ [Top EXCEPT !.at = at] \in Frame
  BY TopFrame DEF Frame, Places
<1>2. stack' = [stack EXCEPT ![Depth] = [Top EXCEPT !.at = at]]
  BY DEF Goto, Top
<1> QED
  BY <1>1, <1>2, TopReplaced

\* A call is made.
LEMMA Called ==
  ASSUME TypeOK, NEW fn \in {"exec", "processEvents"}, Call(fn)
  PROVE  /\ stack' \in Seq(Frame) /\ Depth' = Depth + 1 /\ Top' = NewFrame(fn)
         /\ \A k \in 1 .. Depth : stack'[k] = stack[k]
<1>1. stack \in Seq(Frame) /\ Depth \in Nat
  BY TopFrame DEF TypeOK
<1>2. NewFrame(fn) \in Frame
  BY DEF NewFrame, Frame
<1>3. /\ stack' \in Seq(Frame) /\ Len(stack') = Len(stack) + 1
      /\ \A k \in 1 .. Len(stack) : stack'[k] = stack[k]
      /\ stack'[Len(stack) + 1] = NewFrame(fn)
  BY <1>1, <1>2, AppendProperties DEF Call
<1> QED
  BY <1>3 DEF Depth, Top

\* The top call returns; nothing is left of its loop or dispatcher.
LEMMA Returned ==
  ASSUME TypeOK, stack # <<>>, NEW new, new = SubSeq(stack, 1, Depth - 1)
  PROVE  /\ new \in Seq(Frame) /\ Len(new) = Depth - 1
         /\ \A k \in 1 .. Depth - 1 : new[k] = stack[k]
<1>1. stack \in Seq(Frame) /\ Depth \in Nat /\ Depth > 0
  BY TopFrame DEF TypeOK
<1>2. Depth - 1 \in 0 .. Len(stack) /\ \A k \in 1 .. Depth - 1 : stack[k] \in Frame
  BY <1>1, TopFrame DEF Depth
<1>3. new \in Seq(Frame)
  BY <1>1, <1>2, SubSeqProperties
<1>4. Len(new) = Depth - 1 /\ \A k \in 1 .. Depth - 1 : new[k] = stack[k]
  BY <1>1, <1>2, SubSeqProperties
<1> QED
  BY <1>3, <1>4

\* The top call returns, without a code.
LEMMA Popped ==
  ASSUME TypeOK, stack # <<>>, Pop
  PROVE  /\ stack' \in Seq(Frame) /\ Depth' = Depth - 1
         /\ \A k \in 1 .. Depth - 1 : stack'[k] = stack[k]
BY Returned DEF Pop, Depth

\* exec returns a code to the call below.
LEMMA ReturnedCode ==
  ASSUME TypeOK, Depth > 1, NEW code \in Codes \cup {NoCode}, Return(code)
  PROVE  /\ stack' \in Seq(Frame) /\ Depth' = Depth - 1
         /\ \A k \in 1 .. Depth - 2 : stack'[k] = stack[k]
         /\ stack'[Depth - 1] = [stack[Depth - 1] EXCEPT !.code = code]
<1> DEFINE below == SubSeq(stack, 1, Depth - 1)
           f == [stack[Depth - 1] EXCEPT !.code = code]
<1>1. Depth \in Nat /\ stack # <<>>
  BY TopFrame
<1>2. /\ below \in Seq(Frame) /\ Len(below) = Depth - 1
      /\ \A k \in 1 .. Depth - 1 : below[k] = stack[k]
  BY <1>1, Returned
<1>3. f \in Frame /\ Depth - 1 \in 1 .. Depth - 1
  BY <1>1, TopFrame DEF Frame
<1> HIDE DEF below
<1>4. stack' = [below EXCEPT ![Depth - 1] = f]
  BY <1>2, <1>3 DEF Return, below
<1> HIDE DEF f
<1>5. stack' \in Seq(Frame) /\ Len(stack') = Depth - 1
  BY <1>2, <1>3, <1>4, ExceptSeq
<1>6. \A k \in 1 .. Depth - 1 : stack'[k] = IF k = Depth - 1 THEN f ELSE below[k]
  BY <1>2, <1>3, <1>4, ExceptSeq
<1> QED
  BY <1>1, <1>2, <1>3, <1>5, <1>6 DEF Depth, f

-----------------------------------------------------------------------------
(* Loops and what is known of them                                         *)

LoopType == [exit : BOOLEAN, returnCode : Codes \cup {NoCode}, hidden : BOOLEAN]

\* The loops are a sequence of loops.
LEMMA LoopTypes ==
  ASSUME TypeOK
  PROVE  /\ Len(eventLoops) \in Nat /\ eventLoops \in Seq(LoopType)
         /\ \A k \in 1 .. Len(eventLoops) : eventLoops[k] \in LoopType
<1>1. eventLoops \in Seq(LoopType)
  BY DEF TypeOK, LoopType
<1> QED
  BY <1>1, LenProperties, ElementOfSeq

\* The number of entered loops depends only on which calls have entered one.
LEMMA LoopOfKept ==
  ASSUME NEW s, NEW t, NEW d,
         \A k \in 1 .. d : (s[k].fn = "exec" /\ s[k].at # "begin")
                             <=> (t[k].fn = "exec" /\ t[k].at # "begin")
  PROVE  LoopOf(s, d) = LoopOf(t, d)
<1>1. Started(s, d) = Started(t, d)
  BY DEF Started
<1> QED
  BY <1>1 DEF LoopOf

\* One call more counts if it has entered its loop.
LEMMA LoopOfNext ==
  ASSUME NEW s, NEW d \in Nat
  PROVE  /\ LoopOf(s, d) \in Nat /\ LoopOf(s, 0) = 0
         /\ LoopOf(s, d + 1) = LoopOf(s, d) +
              (IF s[d + 1].fn = "exec" /\ s[d + 1].at # "begin" THEN 1 ELSE 0)
<1>1. IsFiniteSet(Started(s, d)) /\ d + 1 \notin Started(s, d)
  <2>1. IsFiniteSet(1 .. d)
    BY FS_Interval
  <2>2. Started(s, d) \subseteq 1 .. d
    BY DEF Started
  <2> QED
    BY <2>1, <2>2, FS_Subset
<1>2. LoopOf(s, d) \in Nat
  BY <1>1, FS_CardinalityType DEF LoopOf
<1>3. LoopOf(s, 0) = 0
  <2>1. Started(s, 0) = {}
    BY DEF Started
  <2> QED
    BY <2>1, FS_EmptySet DEF LoopOf
<1>4. CASE s[d + 1].fn = "exec" /\ s[d + 1].at # "begin"
  <2>1. Started(s, d + 1) = Started(s, d) \cup {d + 1}
    BY <1>4 DEF Started
  <2>2. LoopOf(s, d + 1) = LoopOf(s, d) + 1
    BY <1>1, <2>1, FS_AddElement DEF LoopOf
  <2> QED
    BY <1>2, <1>3, <1>4, <2>2
<1>5. CASE ~(s[d + 1].fn = "exec" /\ s[d + 1].at # "begin")
  <2>1. Started(s, d + 1) = Started(s, d)
    BY <1>5 DEF Started
  <2> QED
    BY <1>2, <1>3, <1>5, <2>1 DEF LoopOf
<1> QED
  BY <1>4, <1>5

\* exit of loop k
LEMMA LoopTold ==
  ASSUME TypeOK, NEW k \in 1 .. Len(eventLoops), NEW code \in Codes \cup {NoCode},
         eventLoops' = TellToExit(k, code)
  PROVE  /\ eventLoops' \in Seq(LoopType) /\ Len(eventLoops') = Len(eventLoops)
         /\ eventLoops'[k].exit
         /\ \A j \in 1 .. Len(eventLoops) : j # k => eventLoops'[j] = eventLoops[j]
<1> DEFINE new == [eventLoops[k] EXCEPT !.returnCode = code, !.exit = TRUE]
<1>1. eventLoops[k] \in LoopType /\ eventLoops \in Seq(LoopType)
  BY LoopTypes
<1>2. new \in LoopType /\ new.exit
  BY <1>1 DEF LoopType
<1>3. eventLoops' = [eventLoops EXCEPT ![k] = new]
  BY <1>1 DEF TellToExit
<1> HIDE DEF new
<1>4. /\ eventLoops' \in Seq(LoopType) /\ Len(eventLoops') = Len(eventLoops)
      /\ \A j \in 1 .. Len(eventLoops) : eventLoops'[j] = IF j = k THEN new ELSE eventLoops[j]
  BY <1>1, <1>2, <1>3, ExceptSeq
<1> QED
  BY <1>2, <1>4

-----------------------------------------------------------------------------
(* Steps of calls of any thread: the stack stays as it is.                 *)

\* A step that leaves the stack and the number of loops alone.
LEMMA StackKept ==
  ASSUME StackInv, stack' = stack, Len(eventLoops') = Len(eventLoops)
  PROVE  StackInv'
BY DEF StackInv, Shape, SendsNest, LoopsCounted, Depth, LoopOf, Started

\* A step that leaves the stack and the queue alone.
LEMMA QueueKept ==
  ASSUME QueueKnown, stack' = stack, UNCHANGED queueVars
  PROVE  QueueKnown'
BY DEF QueueKnown, Depth, queueVars

\* While the dispatcher drains the pipe, it is the last one that has begun.
LEMMA DrainingIsLast ==
  ASSUME TypeOK, Draining, NEW d \in 1 .. Depth, LastDispatch(stack, d)
  PROVE  FALSE
<1>1. Depth \in Nat /\ stack[Depth].fn = "processEvents" /\ stack[Depth].at = "clear"
  BY TopFrame DEF Draining, In, Top
<1>2. d = Depth \/ Depth \in d + 1 .. Depth
  BY <1>1
<1> QED
  BY <1>1, <1>2 DEF LastDispatch, Depth

\* Who is to be woken stays so, unless he is woken.
LEMMA SignalsKept ==
  ASSUME TypeOK, WaitersSignalled, FreshSignalled, ExitsSeen,
         UNCHANGED <<stack, eventLoops>>,
         pending' > 0 => pending > 0 \/ Signalled',
         interrupt' => interrupt \/ Signalled',
         Interrupting => Interrupting',
         Signalled /\ ~Draining => Signalled'
  PROVE  (WaitersSignalled /\ FreshSignalled /\ ExitsSeen)'
<1>1. /\ Depth' = Depth /\ Top' = Top /\ Draining' = Draining /\ Fresh' = Fresh
      /\ GoingToWait' = GoingToWait /\ Sampled' = Sampled /\ TestsNext' = TestsNext
  BY DEF Depth, Top, Draining, Fresh, GoingToWait, Sampled, TestsNext, In, FromExec
<1>2. (GoingToWait => ~Draining) /\ (Fresh => ~Draining)
  BY DEF GoingToWait, Sampled, Draining, Fresh, In
<1>3. WaitersSignalled' /\ FreshSignalled'
  BY <1>1, <1>2 DEF WaitersSignalled, FreshSignalled
<1>4. \A d \in 1 .. Depth : /\ LastDispatch(stack, d) => ~Draining
                            /\ LastDispatch(stack, d)' = LastDispatch(stack, d)
                            /\ LoopOf(stack, d)' = LoopOf(stack, d)
  BY DrainingIsLast DEF LastDispatch, LoopOf, Started
<1>5. ExitsSeen'
  BY <1>1, <1>4 DEF ExitsSeen
<1> QED
  BY <1>3, <1>5

\* What a thread is doing, and the rest of the types
CallType == [fn : {"none", "exit", "interrupt", "wakeUp", "write"},
             loop : Nat, all : BOOLEAN, code : Codes \cup {NoCode}]
CallTypes == call \in [Threads -> CallType]
FlagTypes ==
  /\ {quitNow, exited, interrupt, canWait} \subseteq BOOLEAN
  /\ returnCode \in Codes \cup {NoCode} /\ mutex \in Threads \cup {NoThread}
  /\ wakeUps \in {0, 1} /\ pipe \in Nat /\ pending \in Nat

\* What TypeOK says, in the names of this module.
LEMMA TypesOfState ==
  ASSUME TypeOK
  PROVE  /\ stack \in Seq(Frame) /\ eventLoops \in Seq(LoopType) /\ FlagTypes /\ CallTypes
         /\ \A u \in Threads : call[u] \in CallType
BY DEF TypeOK, LoopType, FlagTypes, CallTypes, CallType

\* Thread u goes on to function fn of its call.
LEMMA CallGoesOn ==
  ASSUME TypeOK, NEW u \in Threads,
         NEW fn \in {"none", "exit", "interrupt", "wakeUp", "write"},
         call' = [call EXCEPT ![u].fn = fn]
  PROVE  /\ CallTypes' /\ call'[u].fn = fn
         /\ call'[u].all = call[u].all /\ call'[u].loop = call[u].loop
         /\ \A v \in Threads : v # u => call'[v] = call[v]
BY TypesOfState DEF CallTypes, CallType

\* wakeUp returns; QThread::exit goes on with the next loop, which has been
\* told by then.
LEMMA CallDone ==
  ASSUME TypeOK, WalksLoops, QuitTold, NEW u \in Threads,
         call[u].fn \in {"wakeUp", "write"}, Done(u), UNCHANGED <<eventLoops, quitNow, mutex>>
  PROVE  /\ CallTypes' /\ WalksLoops' /\ QuitTold'
         /\ call'[u].fn \in {"none", "exit"}
         /\ \A v \in Threads : v # u => call'[v] = call[v]
<1>1. CallTypes /\ call[u] \in CallType /\ NoCall \in CallType
  BY TypesOfState DEF NoCall, CallType
<1>2. CASE call[u].all
  <2> DEFINE c == [fn |-> "exit", loop |-> call[u].loop + 1, all |-> TRUE,
                   code |-> call[u].code]
  <2>1. /\ c \in CallType /\ c.fn = "exit" /\ c.all /\ c.loop = call[u].loop + 1
        /\ call[u].loop \in Nat
    BY <1>1, <1>2 DEF CallType
  <2>2. call' = [call EXCEPT ![u] = c]
    BY <1>2 DEF Done
  <2> HIDE DEF c
  <2>3. CallTypes' /\ \A v \in Threads : call'[v] = IF v = u THEN c ELSE call[v]
    BY <1>1, <2>1, <2>2 DEF CallTypes
  <2>4. WalksLoops'
    BY <1>2, <2>1, <2>3 DEF WalksLoops
  <2>5. \A v \in Threads : \A k \in 1 .. Len(eventLoops) :
          call[v].all /\ ~Told(v, k)
            => (call'[v].all /\ ~Told(v, k)') \/ (v = u /\ Told(u, k)')
    BY <2>1, <2>3 DEF Told
  <2>6. \A k \in 1 .. Len(eventLoops) : Told(u, k)' <=> Told(u, k)
    <3>1. \A k \in 1 .. Len(eventLoops) : k \in Nat
      BY LoopTypes
    <3> QED
      BY <2>1, <2>3, <3>1 DEF Told
  <2>7. QuitTold'
    BY <2>1, <2>3, <2>5, <2>6 DEF QuitTold
  <2> QED
    BY <2>1, <2>3, <2>4, <2>7
<1>3. CASE ~call[u].all
  <2>1. call' = [call EXCEPT ![u] = NoCall]
    BY <1>3 DEF Done
  <2>2. CallTypes' /\ \A v \in Threads : call'[v] = IF v = u THEN NoCall ELSE call[v]
    BY <1>1, <2>1 DEF CallTypes
  <2>3. NoCall.fn = "none" /\ ~NoCall.all
    BY DEF NoCall
  <2>4. WalksLoops'
    BY <1>3, <2>2, <2>3 DEF WalksLoops
  <2>5. QuitTold'
    BY <1>3, <2>2, <2>3 DEF QuitTold, Told
  <2> QED
    BY <2>2, <2>3, <2>4, <2>5
<1> QED
  BY <1>2, <1>3

\* postEvent: canWait is reset, and a wakeUp is under way.
LEMMA PostStep ==
  ASSUME IInv, NEW u \in Threads, Post(u)
  PROVE  IInv'
<1> USE DEF IInv
<1>1. /\ CallTypes' /\ call[u].fn = "none" /\ call'[u].fn = "wakeUp"
      /\ call'[u].all = call[u].all /\ call'[u].loop = call[u].loop
      /\ \A v \in Threads : v # u => call'[v] = call[v]
  BY CallGoesOn DEF Post, MayCall
<1>2. TypeOK'
  <2>1. FlagTypes'
    <3>1. ({quitNow, exited, interrupt, canWait} \subseteq BOOLEAN)'
      BY DEF TypeOK, Post, threadVars, dispatcherVars
    <3> QED
      BY <3>1 DEF TypeOK, FlagTypes, Post, threadVars, dispatcherVars
  <2> QED
    BY <1>1, <2>1, TypesOfState
       DEF TypeOK, FlagTypes, CallTypes, CallType, LoopType, Post
<1>3. StackInv'
  BY StackKept DEF Post
<1>4. QueueKnown'
  <2>1. /\ Depth \in Nat /\ pending \in Nat
        /\ \A k \in 1 .. Depth : stack[k].n \in Nat
    BY TopFrame DEF TypeOK, Frame
  <2> QED
    BY <2>1 DEF QueueKnown, Post, Depth
<1>5. WalksLoops' /\ QuitTold'
  BY <1>1 DEF WalksLoops, QuitTold, Told, Post, threadVars
<1>6. Writers' = Writers /\ Draining' = Draining
  BY <1>1 DEF Writers, Draining, In, Top, Depth, Post
<1>7. OneByte'
  BY <1>6 DEF OneByte, Post, dispatcherVars
<1>8. Signalled' /\ interrupt' = interrupt /\ (Interrupting => Interrupting')
  BY <1>1 DEF Signalled, WakeUpUnderWay, Interrupting, Post, dispatcherVars
<1>9. (WaitersSignalled /\ FreshSignalled /\ ExitsSeen)'
  BY <1>8, SignalsKept DEF Post
<1> QED
  BY <1>2, <1>3, <1>4, <1>5, <1>7, <1>9

\* Whoever interrupts the dispatcher calls wakeUp next.
LEMMA InterruptStep ==
  ASSUME IInv, NEW u \in Threads, Interrupt(u)
  PROVE  IInv'
<1> USE DEF IInv
<1>1. /\ CallTypes' /\ call[u].fn = "interrupt" /\ call'[u].fn = "wakeUp"
      /\ call'[u].all = call[u].all /\ call'[u].loop = call[u].loop
      /\ \A v \in Threads : v # u => call'[v] = call[v]
  BY CallGoesOn DEF Interrupt
<1>2. TypeOK'
  <2>1. FlagTypes'
    BY TypesOfState DEF FlagTypes, Interrupt, threadVars, queueVars
  <2> QED
    BY <1>1, <2>1, TypesOfState
       DEF TypeOK, FlagTypes, CallTypes, CallType, LoopType, Interrupt
<1>3. StackInv' /\ QueueKnown'
  BY StackKept, QueueKept DEF Interrupt
<1>4. WalksLoops' /\ QuitTold'
  BY <1>1 DEF WalksLoops, QuitTold, Told, Interrupt, threadVars
<1>5. Writers' = Writers /\ Draining' = Draining
  BY <1>1 DEF Writers, Draining, In, Top, Depth, Interrupt
<1>6. OneByte'
  BY <1>5 DEF OneByte, Interrupt
<1>7. Signalled' /\ Interrupting' /\ pending' = pending
  BY <1>1 DEF Signalled, WakeUpUnderWay, Interrupting, Interrupt, queueVars
<1>8. (WaitersSignalled /\ FreshSignalled /\ ExitsSeen)'
  BY <1>7, SignalsKept DEF Interrupt
<1> QED
  BY <1>2, <1>3, <1>4, <1>6, <1>8

\* wakeUp: wakeUps is 1 already, or its byte is about to be written.
LEMMA WakeUpStep ==
  ASSUME IInv, NEW u \in Threads, WakeUp(u)
  PROVE  IInv'
<1> USE DEF IInv
<1>1. /\ CallTypes' /\ WalksLoops' /\ QuitTold' /\ call[u].fn = "wakeUp"
      /\ call'[u].fn = IF wakeUps = 0 THEN "write" ELSE call'[u].fn
      /\ wakeUps # 0 => call'[u].fn \in {"none", "exit"}
      /\ \A v \in Threads : v # u => call'[v] = call[v]
  <2>1. CASE wakeUps = 0
    <3>1. /\ CallTypes' /\ call[u].fn = "wakeUp" /\ call'[u].fn = "write"
          /\ call'[u].all = call[u].all /\ call'[u].loop = call[u].loop
          /\ \A v \in Threads : v # u => call'[v] = call[v]
      BY <2>1, CallGoesOn DEF WakeUp, Signals
    <3>2. WalksLoops' /\ QuitTold'
      BY <3>1 DEF WalksLoops, QuitTold, Told, WakeUp, threadVars
    <3> QED
      BY <2>1, <3>1, <3>2
  <2>2. CASE wakeUps # 0
    BY <2>2, CallDone DEF WakeUp, Signals, threadVars
  <2> QED
    BY <2>1, <2>2
<1>2. TypeOK'
  <2>1. FlagTypes'
    BY TypesOfState DEF FlagTypes, WakeUp, threadVars, queueVars
  <2> QED
    BY <1>1, <2>1, TypesOfState
       DEF TypeOK, FlagTypes, CallTypes, CallType, LoopType, WakeUp
<1>3. StackInv' /\ QueueKnown'
  BY StackKept, QueueKept DEF WakeUp
<1>4. Draining' = Draining
  BY DEF Draining, In, Top, Depth, WakeUp
<1>5. OneByte' /\ (~Draining => Signalled')
  <2>1. CASE wakeUps = 0
    <3>1. pipe = 0 /\ Writers = {} /\ ~Draining
      BY <2>1 DEF OneByte
    <3>2. Writers' = {u}
      BY <1>1, <2>1, <3>1 DEF Writers
    <3> QED
      BY <1>1, <1>4, <2>1, <3>1, <3>2 DEF OneByte, WakeUp, Signalled, WakeUpUnderWay
  <2>2. CASE wakeUps # 0
    <3>1. Writers' = Writers
      BY <1>1, <2>2 DEF Writers
    <3>2. OneByte'
      BY <1>4, <2>2, <3>1 DEF OneByte, WakeUp
    <3>3. ~Draining => pipe = 1 \/ Writers # {}
      BY <2>2 DEF OneByte
    <3> QED
      BY <3>1, <3>2, <3>3 DEF Signalled, WakeUpUnderWay, Writers, WakeUp
  <2> QED
    BY <2>1, <2>2
<1>6. (Interrupting => Interrupting') /\ pending' = pending /\ interrupt' = interrupt
  BY <1>1 DEF Interrupting, WakeUp, queueVars
<1>7. (WaitersSignalled /\ FreshSignalled /\ ExitsSeen)'
  BY <1>5, <1>6, SignalsKept DEF WakeUp
<1> QED
  BY <1>1, <1>2, <1>3, <1>5, <1>7

\* The byte is written.
LEMMA WakeUpWriteStep ==
  ASSUME IInv, NEW u \in Threads, WakeUpWrite(u)
  PROVE  IInv'
<1> USE DEF IInv
<1>1. /\ CallTypes' /\ WalksLoops' /\ QuitTold' /\ call[u].fn = "write"
      /\ call'[u].fn \in {"none", "exit"}
      /\ \A v \in Threads : v # u => call'[v] = call[v]
  BY CallDone DEF WakeUpWrite, threadVars
<1>2. TypeOK'
  <2>1. FlagTypes'
    BY TypesOfState DEF FlagTypes, WakeUpWrite, threadVars, queueVars
  <2> QED
    BY <1>1, <2>1, TypesOfState
       DEF TypeOK, FlagTypes, CallTypes, CallType, LoopType, WakeUpWrite
<1>3. StackInv' /\ QueueKnown'
  BY StackKept, QueueKept DEF WakeUpWrite
<1>4. Draining' = Draining
  BY DEF Draining, In, Top, Depth, WakeUpWrite
<1>5. OneByte'
  <2>1. wakeUps = 1 /\ pipe = 0 /\ ~Draining /\ Writers = {u}
    BY <1>1 DEF OneByte, Writers
  <2>2. Writers' = {}
    BY <1>1, <2>1 DEF Writers
  <2> QED
    BY <1>4, <2>1, <2>2 DEF OneByte, WakeUpWrite
<1>6. Signalled' /\ (Interrupting => Interrupting') /\ pending' = pending
      /\ interrupt' = interrupt
  BY <1>1 DEF Signalled, Interrupting, WakeUpWrite, queueVars, TypeOK
<1>7. (WaitersSignalled /\ FreshSignalled /\ ExitsSeen)'
  BY <1>6, SignalsKept DEF WakeUpWrite
<1> QED
  BY <1>1, <1>2, <1>3, <1>5, <1>7

\* QThread::exit begins, and has told no loop yet.
LEMMA ThreadExitStep ==
  ASSUME IInv, NEW u \in Threads, NEW code \in Codes, ThreadExit(u, code)
  PROVE  IInv'
<1> USE DEF IInv
<1> DEFINE c == [fn |-> "exit", loop |-> 1, all |-> TRUE, code |-> code]
<1>1. /\ CallTypes' /\ call[u].fn = "none" /\ call'[u] = c
      /\ \A v \in Threads : v # u => call'[v] = call[v]
  <2>1. c \in CallType /\ CallTypes
    BY TypesOfState DEF CallType
  <2> QED
    BY <2>1 DEF ThreadExit, MayCall, CallTypes
<1>2. TypeOK'
  <2>1. ({quitNow, exited, interrupt, canWait} \subseteq BOOLEAN)'
    BY DEF TypeOK, ThreadExit, dispatcherVars, queueVars
  <2>2. FlagTypes'
    BY <2>1 DEF TypeOK, FlagTypes, ThreadExit, dispatcherVars, queueVars
  <2> QED
    BY <1>1, <2>2, TypesOfState
       DEF TypeOK, FlagTypes, CallTypes, CallType, LoopType, ThreadExit
<1>3. StackInv' /\ QueueKnown'
  BY StackKept, QueueKept DEF ThreadExit
<1>4. WalksLoops' /\ QuitTold'
  <2>1. \A v \in Threads : ~call[v].all
    BY LoopAssumption DEF WalksLoops, ThreadExit, Free, Threads
  <2>2. WalksLoops'
    BY <1>1, <2>1 DEF WalksLoops, ThreadExit
  <2>3. \A k \in 1 .. Len(eventLoops) : call'[u].all /\ ~Told(u, k)'
    BY <1>1 DEF Told
  <2> QED
    BY <2>2, <2>3 DEF QuitTold, ThreadExit
<1>5. Writers' = Writers /\ Draining' = Draining
  BY <1>1 DEF Writers, Draining, In, Top, Depth, ThreadExit
<1>6. OneByte'
  BY <1>5 DEF OneByte, ThreadExit, dispatcherVars
<1>7. /\ (Signalled => Signalled') /\ (Interrupting => Interrupting')
      /\ pending' = pending /\ interrupt' = interrupt
  BY <1>1
     DEF Signalled, WakeUpUnderWay, Interrupting, ThreadExit, dispatcherVars,
         queueVars
<1>8. (WaitersSignalled /\ FreshSignalled /\ ExitsSeen)'
  BY <1>7, SignalsKept DEF ThreadExit
<1> QED
  BY <1>2, <1>3, <1>4, <1>6, <1>8

\* A loop is told to exit; the interrupt is under way.
LEMMA LoopExitStep ==
  ASSUME IInv, NEW u \in Threads, NEW k \in 1 .. Len(eventLoops), NEW code \in Codes,
         LoopExit(u, k, code)
  PROVE  IInv'
<1> USE DEF IInv
<1> DEFINE c == [NoCall EXCEPT !.fn = "interrupt"]
<1>1. /\ CallTypes' /\ call[u].fn = "none" /\ call'[u].fn = "interrupt" /\ ~call'[u].all
      /\ \A v \in Threads : v # u => call'[v] = call[v]
  <2>1. c \in CallType /\ c.fn = "interrupt" /\ ~c.all /\ CallTypes
    BY TypesOfState DEF CallType, NoCall
  <2>2. call' = [call EXCEPT ![u] = c] /\ call[u].fn = "none"
    BY DEF LoopExit, MayCall
  <2> HIDE DEF c
  <2> QED
    BY <2>1, <2>2 DEF CallTypes
<1>2. /\ eventLoops' \in Seq(LoopType) /\ Len(eventLoops') = Len(eventLoops)
      /\ \A j \in 1 .. Len(eventLoops) : eventLoops[j].exit => eventLoops'[j].exit
  BY LoopTold DEF LoopExit
<1>3. TypeOK'
  <2>1. FlagTypes'
    BY TypesOfState DEF FlagTypes, LoopExit, threadVars, dispatcherVars, queueVars
  <2> QED
    BY <1>1, <1>2, <2>1, TypesOfState
       DEF TypeOK, FlagTypes, CallTypes, CallType, LoopType, LoopExit
<1>4. StackInv' /\ QueueKnown'
  BY <1>2, StackKept, QueueKept DEF LoopExit
<1>5. WalksLoops'
  BY <1>1 DEF WalksLoops, LoopExit, threadVars
<1>6. QuitTold'
  BY <1>1, <1>2 DEF QuitTold, WalksLoops, Told, LoopExit, threadVars
<1>7. Writers' = Writers /\ Draining' = Draining
  BY <1>1 DEF Writers, Draining, In, Top, Depth, LoopExit
<1>8. OneByte'
  BY <1>7 DEF OneByte, LoopExit, dispatcherVars
<1>9. Signalled' /\ Interrupting'
  BY <1>1 DEF Signalled, WakeUpUnderWay, Interrupting
<1>10. (WaitersSignalled /\ FreshSignalled /\ ExitsSeen)'
  BY <1>9 DEF WaitersSignalled, FreshSignalled, ExitsSeen
<1> QED
  BY <1>3, <1>4, <1>5, <1>6, <1>8, <1>10

\* QThread::exit goes on with the next loop, or has told them all.
LEMMA ExitNextStep ==
  ASSUME IInv, NEW u \in Threads, ExitNext(u)
  PROVE  IInv'
<1> USE DEF IInv
<1>1. /\ call[u] \in CallType /\ CallTypes /\ call[u].fn = "exit" /\ call[u].all
      /\ call[u].loop \in Nat \ {0} /\ mutex = u /\ Len(eventLoops) \in Nat
      /\ \A v \in Threads : call[v].all => v = u
  BY TypesOfState, LoopTypes DEF ExitNext, WalksLoops
<1>2. Draining' = Draining
  BY DEF Draining, In, Top, Depth, ExitNext
<1>3. CASE call[u].loop <= Len(eventLoops)
  <2>1. /\ CallTypes' /\ call'[u].fn = "interrupt"
        /\ call'[u].all = call[u].all /\ call'[u].loop = call[u].loop
        /\ \A v \in Threads : v # u => call'[v] = call[v]
    BY <1>3, CallGoesOn DEF ExitNext
  <2>2. /\ eventLoops' \in Seq(LoopType) /\ Len(eventLoops') = Len(eventLoops)
        /\ eventLoops'[call[u].loop].exit
        /\ \A j \in 1 .. Len(eventLoops) : eventLoops[j].exit => eventLoops'[j].exit
    <3>1. call[u].loop \in 1 .. Len(eventLoops) /\ call[u].code \in Codes \cup {NoCode}
      BY <1>1, <1>3 DEF CallType
    <3> QED
      BY <1>3, <3>1, LoopTold DEF ExitNext
  <2>3. TypeOK'
    <3>1. FlagTypes'
      BY <1>3, TypesOfState DEF FlagTypes, ExitNext, dispatcherVars, queueVars
    <3> QED
      BY <2>1, <2>2, <3>1, TypesOfState
         DEF TypeOK, FlagTypes, CallTypes, CallType, LoopType, ExitNext
  <2>4. StackInv' /\ QueueKnown'
    BY <2>2, StackKept, QueueKept DEF ExitNext
  <2>5. WalksLoops'
    BY <1>1, <1>3, <2>1 DEF WalksLoops, ExitNext
  <2>6. QuitTold'
    <3>1. \A k \in 1 .. Len(eventLoops) : k = call[u].loop \/ (Told(u, k)' <=> Told(u, k))
      BY <1>1, <2>1 DEF Told
    <3> QED
      BY <1>1, <2>1, <2>2, <3>1 DEF QuitTold, ExitNext
  <2>7. Writers' = Writers
    BY <1>1, <2>1 DEF Writers
  <2>8. OneByte'
    BY <1>2, <2>7 DEF OneByte, ExitNext, dispatcherVars
  <2>9. Signalled' /\ Interrupting'
    BY <2>1 DEF Signalled, WakeUpUnderWay, Interrupting
  <2>10. (WaitersSignalled /\ FreshSignalled /\ ExitsSeen)'
    BY <2>9 DEF WaitersSignalled, FreshSignalled, ExitsSeen
  <2> QED
    BY <2>3, <2>4, <2>5, <2>6, <2>8, <2>10
<1>4. CASE ~(call[u].loop <= Len(eventLoops))
  <2>1. /\ CallTypes' /\ call'[u].fn = "none" /\ ~call'[u].all
        /\ \A v \in Threads : v # u => call'[v] = call[v]
    <3>1. NoCall \in CallType /\ NoCall.fn = "none" /\ ~NoCall.all
      BY DEF NoCall, CallType
    <3>2. call' = [call EXCEPT ![u] = NoCall]
      BY <1>4 DEF ExitNext
    <3> QED
      BY <1>1, <3>1, <3>2 DEF CallTypes
  <2>2. TypeOK'
    <3>1. FlagTypes'
      BY <1>4, TypesOfState DEF FlagTypes, ExitNext, dispatcherVars, queueVars
    <3> QED
      BY <1>4, <2>1, <3>1, TypesOfState
         DEF TypeOK, FlagTypes, CallTypes, CallType, LoopType, ExitNext
  <2>3. StackInv' /\ QueueKnown'
    BY <1>4, StackKept, QueueKept DEF ExitNext
  <2>4. WalksLoops'
    BY <1>1, <1>4, <2>1, LoopAssumption DEF WalksLoops, ExitNext, Threads
  <2>5. QuitTold'
    <3>1. \A k \in 1 .. Len(eventLoops) : Told(u, k)
      BY <1>1, <1>4 DEF Told
    <3> QED
      BY <1>1, <1>4, <3>1 DEF QuitTold, ExitNext
  <2>6. Writers' = Writers
    BY <1>1, <2>1 DEF Writers
  <2>7. OneByte'
    BY <1>2, <2>6 DEF OneByte, ExitNext, dispatcherVars
  <2>8. /\ (Signalled => Signalled') /\ (Interrupting => Interrupting')
        /\ pending' = pending /\ interrupt' = interrupt
    BY <1>1, <2>1
       DEF Signalled, WakeUpUnderWay, Interrupting, ExitNext, dispatcherVars,
           queueVars
  <2>9. (WaitersSignalled /\ FreshSignalled /\ ExitsSeen)'
    BY <1>4, <2>8, SignalsKept DEF ExitNext
  <2> QED
    BY <2>2, <2>3, <2>4, <2>5, <2>7, <2>9
<1> QED
  BY <1>3, <1>4

-----------------------------------------------------------------------------
(* Steps of the loops: no call of exit, postEvent or wakeUp goes on.       *)

\* The types after a step of Self that makes no call of exit or wakeUp.
LEMMA TypeAgain ==
  ASSUME TypeOK, stack' \in Seq(Frame), eventLoops' \in Seq(LoopType), FlagTypes',
         call' = call
  PROVE  TypeOK'
BY TypesOfState DEF TypeOK, FlagTypes, CallTypes, CallType, LoopType

\* A step that leaves the calls and the mutex of QThread alone.
LEMMA CallsKept ==
  ASSUME WalksLoops, UNCHANGED <<call, mutex>>
  PROVE  WalksLoops'
BY DEF WalksLoops

\* No loop forgets that it was told to exit.
LEMMA QuitKept ==
  ASSUME QuitTold, TypeOK, quitNow' => quitNow, call' = call,
         Len(eventLoops') \in 0 .. Len(eventLoops),
         \A k \in 1 .. Len(eventLoops') : eventLoops'[k].exit = eventLoops[k].exit
  PROVE  QuitTold'
<1>1. \A k \in 1 .. Len(eventLoops') : k \in 1 .. Len(eventLoops)
  BY LoopTypes
<1> QED
  BY <1>1 DEF QuitTold, Told

\* A step that leaves the pipe, and the place after its drain, alone.
LEMMA BytesKept ==
  ASSUME OneByte, UNCHANGED <<wakeUps, pipe, call>>, ~Draining, ~Draining'
  PROVE  OneByte'
BY DEF OneByte, Writers

\* The dispatcher on top goes on at another place.
Moves ==
  /\ stack # <<>> /\ Top.fn = "processEvents" /\ Top'.fn = "processEvents"
  /\ Depth' = Depth
  /\ \A k \in 1 .. Depth - 1 : /\ stack'[k].fn = stack[k].fn /\ stack'[k].at = stack[k].at
                               /\ stack'[k].waits = stack[k].waits

\* It keeps its place in the stack, and the loops are counted as before.
LEMMA DispatcherMoves ==
  ASSUME TypeOK, StackInv, Moves, Top'.at \notin {"test", "leave", "return"},
         Top'.waits => Top.waits \/ FromExec, Len(eventLoops') = Len(eventLoops)
  PROVE  /\ Shape(stack)' /\ LoopsCounted' /\ FromExec' = FromExec
         /\ \A d \in 1 .. Depth : LoopOf(stack', d) = LoopOf(stack, d)
<1>1. /\ Depth \in Nat /\ Depth \in 1 .. Depth /\ stack[Depth] = Top /\ stack'[Depth] = Top'
      /\ Len(stack) = Depth /\ Len(stack') = Depth
  BY TopFrame DEF Moves, Top, Depth
<1>2. \A k \in 1 .. Depth : stack'[k].fn = stack[k].fn
  BY <1>1 DEF Moves
<1>3. Depth > 1
  BY <1>1 DEF StackInv, Shape, Moves
<1>4. FromExec' = FromExec
  <2>1. Depth' = Depth /\ stack'[Depth - 1].fn = stack[Depth - 1].fn
    BY <1>1, <1>2, <1>3 DEF Moves
  <2> QED
    BY <2>1 DEF FromExec
<1>5. Shape(stack')
  <2> SUFFICES ASSUME NEW k \in 1 .. Depth
               PROVE  /\ stack'[k].fn = "threadExec" <=> k = 1
                      /\ stack'[k].fn = "threadExec" => stack'[k].at = "return"
                      /\ stack'[k].fn = "exec" => stack'[k].at \in {"begin", "test", "leave"}
                      /\ stack'[k].fn = "processEvents"
                           => stack'[k].at \notin {"test", "leave", "return"}
                      /\ k < Depth => stack'[k].at \in Callers
                      /\ stack'[k].fn = "processEvents" /\ stack'[k].waits
                           => stack'[k - 1].fn = "exec"
    BY <1>1 DEF Shape
  <2>1. CASE k < Depth
    <3>1. k \in 1 .. Depth - 1 /\ (k > 1 => k - 1 \in 1 .. Depth - 1)
      BY <1>1, <2>1
    <3> QED
      BY <1>1, <1>2, <2>1, <3>1 DEF StackInv, Shape, Moves
  <2>2. CASE k = Depth
    <3>1. stack'[Depth - 1].fn = stack[Depth - 1].fn
      BY <1>2, <1>3, <1>1
    <3>2. Top.waits => stack[Depth - 1].fn = "exec"
      BY <1>1 DEF StackInv, Shape, Moves
    <3> QED
      BY <1>1, <1>3, <2>2, <3>1, <3>2 DEF Moves, FromExec
  <2> QED
    BY <1>1, <2>1, <2>2
<1>6. \A d \in 1 .. Depth : LoopOf(stack', d) = LoopOf(stack, d)
  <2> TAKE d \in 1 .. Depth
  <2>1. \A k \in 1 .. d : (stack'[k].fn = "exec" /\ stack'[k].at # "begin")
                            <=> (stack[k].fn = "exec" /\ stack[k].at # "begin")
    BY <1>1 DEF Moves
  <2> QED
    BY <2>1, LoopOfKept
<1>7. LoopsCounted'
  BY <1>1, <1>6 DEF StackInv, LoopsCounted, Moves
<1> QED
  BY <1>4, <1>5, <1>6, <1>7

\* The loops that were told to exit stay interrupted, or will be woken, while
\* the dispatcher on top goes on.
LEMMA DispatchGoesOn ==
  ASSUME TypeOK, StackInv, ExitsSeen, Moves,
         \A d \in 1 .. Depth : LoopOf(stack', d) = LoopOf(stack, d),
         Top.at \notin {"begin", "clear"}, Top'.at # "clear",
         UNCHANGED <<eventLoops, interrupt, call, pipe>>
  PROVE  ExitsSeen'
<1>1. /\ Depth \in Nat /\ Depth \in 1 .. Depth /\ stack[Depth] = Top /\ stack'[Depth] = Top'
      /\ Len(stack) = Depth /\ Len(stack') = Depth
  BY TopFrame DEF Moves, Top, Depth
<1>2. ~TestsNext
  BY DEF TestsNext, Draining, In, Moves
<1>3. ASSUME NEW d \in 1 .. Depth, LastDispatch(stack, d)
      PROVE  LastDispatch(stack', d)
  <2>1. d = Depth
    BY <1>1, <1>3 DEF LastDispatch, Moves
  <2>2. d - 1 \in 1 .. Depth - 1
    BY <1>1, <1>3, <2>1 DEF LastDispatch
  <2>3. stack'[d - 1].fn = "exec"
    BY <1>3, <2>2 DEF LastDispatch, Moves
  <2>4. d + 1 .. Len(stack') = {}
    BY <1>1, <2>1
  <2> QED
    BY <1>1, <1>3, <2>1, <2>3, <2>4 DEF LastDispatch, Moves
<1>4. Interrupting' = Interrupting /\ Signalled' = Signalled
  BY DEF Interrupting, Signalled, WakeUpUnderWay
<1> QED
  BY <1>1, <1>2, <1>3, <1>4 DEF ExitsSeen, Moves

\* What all steps of the dispatcher on top have in common: it becomes f.
LEMMA DispatcherStep ==
  ASSUME IInv, stack # <<>>, Top.fn = "processEvents",
         NEW f \in Frame, stack' = [stack EXCEPT ![Depth] = f],
         f.fn = "processEvents", f.at \notin {"test", "leave", "return"},
         f.waits => Top.waits \/ FromExec,
         f.n > 0 => f.at \in {"deliver", "handler"},
         f.at \notin {"begin", "awake"} => Top.at \notin {"begin", "awake"},
         Len(eventLoops') = Len(eventLoops), UNCHANGED <<threadVars, call>>
  PROVE  /\ stack' \in Seq(Frame) /\ Moves /\ Depth' = Depth /\ Depth \in 1 .. Depth
         /\ Top' = f /\ FromExec' = FromExec
         /\ \A k \in 1 .. Depth - 1 : stack'[k] = stack[k]
         /\ \A d \in 1 .. Depth : LoopOf(stack', d) = LoopOf(stack, d)
         /\ StackInv' /\ WalksLoops'
<1> USE DEF IInv
<1>1. /\ stack' \in Seq(Frame) /\ Depth' = Depth /\ Top' = f
      /\ \A k \in 1 .. Depth - 1 : stack'[k] = stack[k]
  BY TopReplaced
<1>2. /\ Depth \in Nat /\ Depth \in 1 .. Depth /\ stack[Depth] = Top /\ stack'[Depth] = f
  BY <1>1, TopFrame DEF Top
<1>3. Moves
  BY <1>1 DEF Moves
<1>4. /\ Shape(stack)' /\ LoopsCounted' /\ FromExec' = FromExec
      /\ \A d \in 1 .. Depth : LoopOf(stack', d) = LoopOf(stack, d)
  BY <1>1, <1>3, DispatcherMoves
<1>5. SendsNest(stack')
  <2> SUFFICES ASSUME NEW k \in 1 .. Depth
               PROVE  /\ stack'[k].n > 0 => /\ stack'[k].fn = "processEvents"
                                            /\ stack'[k].at \in {"deliver", "handler"}
                      /\ stack'[k].fn = "processEvents" /\ stack'[k].at \notin {"begin", "awake"}
                           => \A j \in 1 .. k - 1 : stack'[j].n = 0
    BY <1>1 DEF SendsNest, Depth
  <2>1. \A j \in 1 .. k - 1 : j \in 1 .. Depth - 1 /\ stack'[j] = stack[j]
    BY <1>1, <1>2
  <2>2. CASE k < Depth
    <3>1. stack'[k] = stack[k]
      BY <1>1, <1>2, <2>2
    <3> QED
      BY <2>1, <3>1 DEF StackInv, SendsNest, Depth
  <2>3. CASE k = Depth
    BY <1>2, <2>1, <2>3 DEF StackInv, SendsNest, Depth
  <2> QED
    BY <1>2, <2>2, <2>3
<1>6. SendsNest(stack)'
  BY <1>5 DEF SendsNest
<1>7. WalksLoops'
  BY CallsKept DEF threadVars
<1> QED
  BY <1>1, <1>2, <1>3, <1>4, <1>6, <1>7 DEF StackInv

\* A handler returns to its send.
LEMMA HandlerReturnStep ==
  ASSUME IInv, HandlerReturn
  PROVE  IInv'
<1> USE DEF IInv
<1> DEFINE f == [Top EXCEPT !.at = "deliver"]
<1>1. /\ stack # <<>> /\ Top.fn = "processEvents" /\ Top.at = "handler" /\ Top \in Frame
      /\ UNCHANGED <<eventLoops, threadVars, dispatcherVars, queueVars, callVars, call>>
      /\ stack' = [stack EXCEPT ![Depth] = f]
  BY TopFrame DEF HandlerReturn, In, Goto, Top, callVars
<1>2. /\ f \in Frame /\ f.fn = "processEvents" /\ f.at = "deliver" /\ f.n = Top.n
      /\ f.waits = Top.waits
  BY <1>1 DEF Frame
<1> HIDE DEF f
<1>3. /\ stack' \in Seq(Frame) /\ Moves /\ Depth' = Depth /\ Depth \in 1 .. Depth
      /\ Top' = f /\ \A k \in 1 .. Depth - 1 : stack'[k] = stack[k]
      /\ \A d \in 1 .. Depth : LoopOf(stack', d) = LoopOf(stack, d)
      /\ StackInv' /\ WalksLoops'
  BY <1>1, <1>2, DispatcherStep
<1>4. TypeOK'
  BY <1>1, <1>3, TypeAgain, TypesOfState
     DEF FlagTypes, threadVars, dispatcherVars, queueVars
<1>5. QueueKnown'
  <2>1. \A k \in 1 .. Depth : stack'[k].n = stack[k].n
    BY <1>2, <1>3, TopFrame DEF Top
  <2> QED
    BY <1>1, <1>3, <2>1 DEF QueueKnown, queueVars
<1>6. QuitTold'
  BY <1>1 DEF QuitTold, Told, threadVars
<1>7. ~Draining /\ ~Draining' /\ ~GoingToWait' /\ ~Fresh'
  BY <1>1, <1>2, <1>3 DEF Draining, GoingToWait, Sampled, Fresh, In
<1>8. OneByte' /\ WaitersSignalled' /\ FreshSignalled'
  BY <1>1, <1>7, BytesKept DEF WaitersSignalled, FreshSignalled, dispatcherVars
<1>9. ExitsSeen'
  BY <1>1, <1>2, <1>3, DispatchGoesOn DEF dispatcherVars
<1> QED
  BY <1>3, <1>4, <1>5, <1>6, <1>8, <1>9

\* An event is delivered: a handler of the send begins.
LEMMA DeliverStep ==
  ASSUME IInv, Deliver
  PROVE  IInv'
<1> USE DEF IInv
<1> DEFINE f == [Top EXCEPT !.at = "handler", !.n = Top.n - 1]
<1>1. /\ stack # <<>> /\ Top.fn = "processEvents" /\ Top.at = "deliver" /\ Top \in Frame
      /\ Top.n > 0 /\ pending' = pending - 1 /\ canWait' = canWait
      /\ UNCHANGED <<eventLoops, threadVars, dispatcherVars, callVars, call>>
      /\ stack' = [stack EXCEPT ![Depth] = f]
  BY TopFrame DEF Deliver, In, Top, callVars
<1>2. /\ f \in Frame /\ f.fn = "processEvents" /\ f.at = "handler" /\ f.n = Top.n - 1
      /\ f.waits = Top.waits
  <2> DEFINE g == [Top EXCEPT !.at = "handler"]
  <2>1. /\ g \in Frame /\ g.fn = "processEvents" /\ g.at = "handler" /\ g.n = Top.n
        /\ g.waits = Top.waits
    BY <1>1 DEF Frame
  <2>2. f = [g EXCEPT !.n = Top.n - 1] /\ Top.n - 1 \in Nat
    BY <1>1 DEF Frame
  <2> HIDE DEF f, g
  <2> QED
    BY <2>1, <2>2 DEF Frame
<1> HIDE DEF f
<1>3. /\ stack' \in Seq(Frame) /\ Moves /\ Depth' = Depth /\ Depth \in 1 .. Depth
      /\ Top' = f /\ \A k \in 1 .. Depth - 1 : stack'[k] = stack[k]
      /\ \A d \in 1 .. Depth : LoopOf(stack', d) = LoopOf(stack, d)
      /\ StackInv' /\ WalksLoops'
  BY <1>1, <1>2, DispatcherStep
<1>4. /\ Top.n \in Nat /\ Top.n <= pending /\ pending \in Nat
      /\ \A k \in 1 .. Depth - 1 : stack[k].n = 0
  BY <1>1, <1>3 DEF QueueKnown, StackInv, SendsNest, Top, Depth, TypeOK, Frame
<1>5. TypeOK'
  <2>1. pending' \in Nat
    BY <1>1, <1>4
  <2> QED
    BY <1>1, <1>3, <2>1, TypeAgain, TypesOfState
       DEF FlagTypes, threadVars, dispatcherVars
<1>6. QueueKnown'
  <2>1. stack[Depth] = Top /\ stack'[Depth] = f
    BY <1>3 DEF Top
  <2>2. \A k \in 1 .. Depth : k = Depth \/ k \in 1 .. Depth - 1
    BY TopFrame
  <2>3. \A k \in 1 .. Depth : stack'[k].n <= pending'
    BY <1>1, <1>2, <1>3, <1>4, <2>1, <2>2
  <2>4. ASSUME canWait PROVE stack'[Depth].n = pending'
    <3>1. pending = Top.n
      BY <1>1, <1>4, <2>1, <2>2, <2>4 DEF QueueKnown
    <3> QED
      BY <1>1, <1>2, <2>1, <3>1
  <2> QED
    BY <1>1, <1>3, <2>3, <2>4 DEF QueueKnown
<1>7. QuitTold'
  BY <1>1 DEF QuitTold, Told, threadVars
<1>8. ~Draining /\ ~Draining' /\ ~GoingToWait' /\ ~Fresh'
  BY <1>1, <1>2, <1>3 DEF Draining, GoingToWait, Sampled, Fresh, In
<1>9. OneByte' /\ WaitersSignalled' /\ FreshSignalled'
  BY <1>1, <1>8, BytesKept DEF WaitersSignalled, FreshSignalled, dispatcherVars
<1>10. ExitsSeen'
  BY <1>1, <1>2, <1>3, DispatchGoesOn DEF dispatcherVars
<1> QED
  BY <1>3, <1>5, <1>6, <1>7, <1>9, <1>10

\* The dispatcher decides whether it may wait; the queue is empty then.
LEMMA SampleStep ==
  ASSUME IInv, Sample
  PROVE  IInv'
<1> USE DEF IInv
<1> DEFINE waits == canWait /\ ~Interrupted /\ FromExec
           at == IF waits THEN "block" ELSE "sampled"
           g == [Top EXCEPT !.at = at]
           f == [g EXCEPT !.waits = waits]
<1>1. /\ stack # <<>> /\ Top.fn = "processEvents" /\ Top.at = "deliver" /\ Top \in Frame
      /\ Top.n = 0
      /\ UNCHANGED <<eventLoops, threadVars, dispatcherVars, queueVars, callVars, call>>
      /\ stack' = [stack EXCEPT ![Depth] = f]
  BY TopFrame DEF Sample, Waits, In, Top, callVars
<1>2. /\ f \in Frame /\ f.fn = "processEvents" /\ f.at \in {"block", "sampled"}
      /\ f.n = 0 /\ f.waits = waits
  <2>0. at \in {"block", "sampled"}
    OBVIOUS
  <2> HIDE DEF at
  <2>1. /\ g \in Frame /\ g.fn = "processEvents" /\ g.at \in {"block", "sampled"}
        /\ g.n = Top.n
    BY <1>1, <2>0 DEF Frame
  <2>2. waits \in BOOLEAN
    OBVIOUS
  <2> HIDE DEF g, waits
  <2> QED
    BY <1>1, <2>1, <2>2 DEF Frame
<1> HIDE DEF f, g, at
<1>3. /\ stack' \in Seq(Frame) /\ Moves /\ Depth' = Depth /\ Depth \in 1 .. Depth
      /\ Top' = f /\ \A k \in 1 .. Depth - 1 : stack'[k] = stack[k]
      /\ \A d \in 1 .. Depth : LoopOf(stack', d) = LoopOf(stack, d)
      /\ StackInv' /\ WalksLoops'
  <2>1. ~(f.n > 0)
    BY <1>2
  <2>2. waits => FromExec
    OBVIOUS
  <2> HIDE DEF waits
  <2>3. f.waits => FromExec
    BY <1>2, <2>2
  <2> QED
    BY <1>1, <1>2, <2>1, <2>3, DispatcherStep
<1>4. TypeOK'
  BY <1>1, <1>3, TypeAgain, TypesOfState
     DEF FlagTypes, threadVars, dispatcherVars, queueVars
<1>5. \A k \in 1 .. Depth : stack'[k].n = stack[k].n
  BY <1>1, <1>2, <1>3, TopFrame DEF Top
<1>6. QueueKnown'
  BY <1>1, <1>3, <1>5 DEF QueueKnown, queueVars
<1>7. QuitTold'
  BY <1>1 DEF QuitTold, Told, threadVars
<1>8. ~Draining /\ ~Draining' /\ ~Fresh'
  BY <1>1, <1>2, <1>3 DEF Draining, Fresh, In
<1>9. OneByte' /\ FreshSignalled'
  BY <1>1, <1>8, BytesKept DEF FreshSignalled, dispatcherVars
<1>10. WaitersSignalled'
  <2>1. \A k \in 1 .. Depth : stack[k].n = 0
    <3>1. \A k \in 1 .. Depth : k = Depth \/ k \in 1 .. Depth - 1
      BY TopFrame
    <3> QED
      BY <1>1, <1>3, <3>1 DEF StackInv, SendsNest, Top, Depth
  <2>2. waits => pending = 0 /\ ~interrupt
    BY <2>1 DEF QueueKnown, Interrupted
  <2>3. pending' = pending /\ interrupt' = interrupt /\ pending \in Nat
    BY <1>1 DEF dispatcherVars, queueVars, TypeOK
  <2>4. (GoingToWait' => waits) /\ (GoingToWait' => Sampled')
    BY <1>2, <1>3 DEF GoingToWait, Sampled, In
  <2> HIDE DEF waits
  <2> QED
    BY <2>2, <2>3, <2>4 DEF WaitersSignalled
<1>11. ExitsSeen'
  BY <1>1, <1>2, <1>3, DispatchGoesOn DEF dispatcherVars
<1> QED
  BY <1>3, <1>4, <1>6, <1>7, <1>9, <1>10, <1>11

\* A dispatcher that is not interrupted goes on to select.
LEMMA NotInterruptedStep ==
  ASSUME IInv, TestInterrupt, ~Interrupted
  PROVE  IInv'
<1> USE DEF IInv
<1> DEFINE f == [Top EXCEPT !.at = "select"]
<1>1. /\ stack # <<>> /\ Top.fn = "processEvents" /\ Top.at \in {"block", "sampled"} /\ Top \in Frame
      /\ UNCHANGED <<eventLoops, threadVars, dispatcherVars, queueVars, callVars, call>>
      /\ stack' = [stack EXCEPT ![Depth] = f]
  BY TopFrame DEF TestInterrupt, In, Goto, Top, callVars
<1>2. /\ f \in Frame /\ f.fn = "processEvents" /\ f.at = "select" /\ f.n = Top.n
      /\ f.waits = Top.waits
  BY <1>1 DEF Frame
<1>3. Top.n = 0
  BY <1>1, TopFrame DEF StackInv, SendsNest, Top, Depth, Frame
<1> HIDE DEF f
<1>4. /\ stack' \in Seq(Frame) /\ Moves /\ Depth' = Depth /\ Depth \in 1 .. Depth
      /\ Top' = f /\ \A k \in 1 .. Depth - 1 : stack'[k] = stack[k]
      /\ \A d \in 1 .. Depth : LoopOf(stack', d) = LoopOf(stack, d)
      /\ StackInv' /\ WalksLoops'
  <2>1. ~(f.n > 0)
    BY <1>2, <1>3
  <2> QED
    BY <1>1, <1>2, <2>1, DispatcherStep
<1>5. TypeOK'
  BY <1>1, <1>4, TypeAgain, TypesOfState
     DEF FlagTypes, threadVars, dispatcherVars, queueVars
<1>6. QueueKnown'
  <2>1. \A k \in 1 .. Depth : stack'[k].n = stack[k].n
    BY <1>2, <1>4, TopFrame DEF Top
  <2> QED
    BY <1>1, <1>4, <2>1 DEF QueueKnown, queueVars
<1>7. QuitTold'
  BY <1>1 DEF QuitTold, Told, threadVars
<1>8. ~Draining /\ ~Draining' /\ ~Fresh'
  BY <1>1, <1>2, <1>4 DEF Draining, Fresh, In
<1>9. OneByte' /\ FreshSignalled'
  BY <1>1, <1>8, BytesKept DEF FreshSignalled, dispatcherVars
<1>10. WaitersSignalled'
  <2>1. GoingToWait' => GoingToWait
    BY <1>1, <1>2, <1>4 DEF GoingToWait, Sampled, In
  <2>2. Signalled' = Signalled /\ pending' = pending /\ ~interrupt'
    BY <1>1 DEF Signalled, WakeUpUnderWay, dispatcherVars, queueVars, Interrupted
  <2> QED
    BY <2>1, <2>2 DEF WaitersSignalled
<1>11. ExitsSeen'
  BY <1>1, <1>2, <1>4, DispatchGoesOn DEF dispatcherVars
<1> QED
  BY <1>4, <1>5, <1>6, <1>7, <1>9, <1>10, <1>11

\* The pipe is drained, and wakeUps still 1.
LEMMA SelectDrainStep ==
  ASSUME IInv, SelectDrain
  PROVE  IInv'
<1> USE DEF IInv
<1> DEFINE f == [Top EXCEPT !.at = "clear"]
<1>1. /\ stack # <<>> /\ Top.fn = "processEvents" /\ Top.at = "select" /\ Top \in Frame
      /\ pipe > 0 /\ pipe' = 0
      /\ UNCHANGED <<eventLoops, threadVars, interrupt, wakeUps, queueVars, callVars, call>>
      /\ stack' = [stack EXCEPT ![Depth] = f]
  BY TopFrame DEF SelectDrain, In, Goto, Top, callVars
<1>2. /\ f \in Frame /\ f.fn = "processEvents" /\ f.at = "clear" /\ f.n = Top.n
      /\ f.waits = Top.waits
  BY <1>1 DEF Frame
<1>3. Top.n = 0
  BY <1>1, TopFrame DEF StackInv, SendsNest, Top, Depth, Frame
<1> HIDE DEF f
<1>4. /\ stack' \in Seq(Frame) /\ Moves /\ Depth' = Depth /\ Depth \in 1 .. Depth
      /\ Top' = f /\ \A k \in 1 .. Depth - 1 : stack'[k] = stack[k]
      /\ \A d \in 1 .. Depth : LoopOf(stack', d) = LoopOf(stack, d)
      /\ FromExec' = FromExec /\ StackInv' /\ WalksLoops'
  <2>1. ~(f.n > 0)
    BY <1>2, <1>3
  <2> QED
    BY <1>1, <1>2, <2>1, DispatcherStep
<1>5. TypeOK'
  BY <1>1, <1>4, TypeAgain, TypesOfState DEF FlagTypes, threadVars, queueVars
<1>6. QueueKnown'
  <2>1. \A k \in 1 .. Depth : stack'[k].n = stack[k].n
    BY <1>2, <1>4, TopFrame DEF Top
  <2> QED
    BY <1>1, <1>4, <2>1 DEF QueueKnown, queueVars
<1>7. QuitTold'
  BY <1>1 DEF QuitTold, Told, threadVars
<1>8. ~TestsNext /\ Draining' /\ ~Fresh' /\ ~GoingToWait'
  <2>1. stack' # <<>>
    BY <1>1, <1>4, EmptySeq, TopFrame DEF Depth
  <2> QED
    BY <1>1, <1>2, <1>4, <2>1 DEF TestsNext, Draining, Fresh, GoingToWait, Sampled, In
<1>9. OneByte' /\ FreshSignalled' /\ WaitersSignalled'
  <2>1. wakeUps = 1 /\ Writers = {}
    BY <1>1 DEF OneByte
  <2> QED
    BY <1>1, <1>8, <2>1 DEF OneByte, Writers, FreshSignalled, WaitersSignalled
<1>10. ExitsSeen'
  <2>1. ASSUME NEW d \in 1 .. Depth, LastDispatch(stack, d)
        PROVE  d = Depth /\ FromExec
    <3>1. d = Depth \/ Depth \in d + 1 .. Depth
      BY TopFrame
    <3>2. d = Depth
      BY <1>1, <2>1, <3>1 DEF LastDispatch, Depth, Top
    <3> QED
      BY <2>1, <3>2 DEF LastDispatch, FromExec
  <2>2. LoopOf(stack, Depth) = Len(eventLoops)
    BY DEF StackInv, LoopsCounted
  <2>3. \A k \in 1 .. Len(eventLoops) :
          eventLoops[k].exit /\ ~eventLoops[k].hidden
            => Interrupting \/ (k = Len(eventLoops) /\ FromExec)
    BY <1>8, <2>1, <2>2 DEF ExitsSeen
  <2>4. Interrupting' = Interrupting
    BY <1>1 DEF Interrupting
  <2> QED
    BY <1>1, <1>4, <1>8, <2>3, <2>4 DEF ExitsSeen, TestsNext
<1> QED
  BY <1>4, <1>5, <1>6, <1>7, <1>9, <1>10

\* A function on 1 .. n is a sequence of length n.
LEMMA FunctionIsSeq ==
  ASSUME NEW S, NEW n \in Nat, NEW s \in [1 .. n -> S]
  PROVE  s \in Seq(S) /\ Len(s) = n
<1>1. s \in Seq(S)
  BY SeqDef
<1>2. Len(s) \in Nat /\ 1 .. Len(s) = 1 .. n
  BY <1>1, LenProperties
<1> QED
  BY <1>1, <1>2

\* A send takes what is left to the sends below it.
LEMMA SendBeginStep ==
  ASSUME IInv, SendBegin
  PROVE  IInv'
<1> USE DEF IInv
<1> DEFINE g == [Top EXCEPT !.at = "deliver"]
           f == [g EXCEPT !.n = pending]
           new == [k \in 1 .. Depth |-> IF k = Depth THEN f ELSE Overtaken(stack[k])]
<1>1. /\ stack # <<>> /\ Top.fn = "processEvents" /\ Top.at = "awake" /\ Top \in Frame
      /\ canWait' = TRUE /\ pending' = pending /\ pending \in Nat
      /\ UNCHANGED <<eventLoops, threadVars, dispatcherVars, callVars, call>>
      /\ Depth \in Nat /\ Depth \in 1 .. Depth /\ stack[Depth] = Top
      /\ \A k \in 1 .. Depth : stack[k] \in Frame
  BY TopFrame DEF SendBegin, In, Top, callVars, TypeOK
<1>2. stack' = new
  <2>1. DOMAIN stack = 1 .. Depth
    BY TypesOfState, LenProperties DEF Depth
  <2> QED
    BY <2>1 DEF SendBegin
<1>3. /\ f \in Frame /\ f.fn = "processEvents" /\ f.at = "deliver" /\ f.n = pending
      /\ f.waits = Top.waits
  <2>1. g \in Frame /\ g.fn = "processEvents" /\ g.at = "deliver" /\ g.waits = Top.waits
    BY <1>1 DEF Frame
  <2> HIDE DEF g
  <2> QED
    BY <1>1, <2>1 DEF Frame
<1>4. \A k \in 1 .. Depth : /\ Overtaken(stack[k]) \in Frame /\ Overtaken(stack[k]).n = 0
                            /\ Overtaken(stack[k]).fn = stack[k].fn
                            /\ Overtaken(stack[k]).at = stack[k].at
                            /\ Overtaken(stack[k]).waits = stack[k].waits
  BY <1>1 DEF Overtaken, Frame
<1> HIDE DEF f, g
<1>5. new \in [1 .. Depth -> Frame]
  BY <1>3, <1>4
<1>6. stack' \in Seq(Frame) /\ Depth' = Depth
  BY <1>1, <1>2, <1>5, FunctionIsSeq DEF Depth
<1>7. /\ stack'[Depth] = f /\ \A k \in 1 .. Depth - 1 : stack'[k] = Overtaken(stack[k])
      /\ \A k \in 1 .. Depth - 1 : k \in 1 .. Depth
      /\ \A k \in 1 .. Depth : k = Depth \/ k \in 1 .. Depth - 1
  BY <1>1, <1>2
<1> HIDE DEF new
<1>8. Top' = f
  BY <1>6, <1>7 DEF Top
<1>9. Moves
  BY <1>1, <1>3, <1>4, <1>6, <1>7, <1>8 DEF Moves
<1>10. /\ Shape(stack)' /\ LoopsCounted'
       /\ \A d \in 1 .. Depth : LoopOf(stack', d) = LoopOf(stack, d)
  BY <1>1, <1>3, <1>8, <1>9, DispatcherMoves
<1>11. SendsNest(stack)'
  <2>1. \A k \in 1 .. Depth : \A j \in 1 .. k - 1 : j \in 1 .. Depth - 1
    BY <1>1
  <2>2. \A j \in 1 .. Depth - 1 : stack'[j].n = 0
    BY <1>4, <1>7
  <2>3. \A k \in 1 .. Depth : stack'[k].n > 0 => k = Depth
    BY <1>7, <2>2
  <2> QED
    BY <1>3, <1>6, <1>7, <2>1, <2>2, <2>3 DEF SendsNest, Depth
<1>12. TypeOK'
  <2>1. ({quitNow, exited, interrupt, canWait} \subseteq BOOLEAN)'
    BY <1>1 DEF TypeOK, threadVars, dispatcherVars
  <2>2. FlagTypes'
    BY <1>1, <2>1, TypesOfState DEF FlagTypes, threadVars, dispatcherVars
  <2> QED
    BY <1>1, <1>6, <2>2, TypeAgain, TypesOfState
<1>13. QueueKnown'
  <2>1. \A k \in 1 .. Depth : stack'[k].n <= pending
    BY <1>1, <1>3, <1>4, <1>7
  <2> QED
    BY <1>1, <1>3, <1>6, <1>7, <2>1 DEF QueueKnown
<1>14. WalksLoops' /\ QuitTold'
  BY <1>1, CallsKept DEF QuitTold, Told, threadVars
<1>15. ~Draining /\ ~Draining' /\ ~Fresh' /\ ~GoingToWait'
  BY <1>1, <1>3, <1>8 DEF Draining, Fresh, GoingToWait, Sampled, In
<1>16. OneByte' /\ FreshSignalled' /\ WaitersSignalled'
  BY <1>1, <1>15, BytesKept DEF FreshSignalled, WaitersSignalled, dispatcherVars
<1>17. ExitsSeen'
  BY <1>1, <1>3, <1>8, <1>9, <1>10, DispatchGoesOn DEF dispatcherVars
<1> QED
  BY <1>10, <1>11, <1>12, <1>13, <1>14, <1>16, <1>17 DEF StackInv

\* interrupt is reset; loops that were told to exit, except the innermost
\* one, are hidden.
LEMMA DispatchBeginStep ==
  ASSUME IInv, DispatchBegin
  PROVE  IInv'
<1> USE DEF IInv
<1> DEFINE f == [Top EXCEPT !.at = "awake"]
           Hides(k) == eventLoops[k].exit /\ ~(FromExec /\ k = Len(eventLoops))
           Seen(k) == IF Hides(k) THEN [eventLoops[k] EXCEPT !.hidden = TRUE]
                                  ELSE eventLoops[k]
           loops == [k \in 1 .. Len(eventLoops) |-> Seen(k)]
<1>1. /\ stack # <<>> /\ Top.fn = "processEvents" /\ Top.at = "begin" /\ Top \in Frame
      /\ interrupt' = FALSE
      /\ UNCHANGED <<threadVars, wakeUps, pipe, queueVars, callVars, call>>
      /\ stack' = [stack EXCEPT ![Depth] = f]
      /\ Depth \in Nat /\ Depth \in 1 .. Depth /\ stack[Depth] = Top
  BY TopFrame DEF DispatchBegin, In, Goto, Top, callVars
<1>2. eventLoops' = loops
  BY LoopTypes, LenProperties DEF DispatchBegin
<1>3. \A k \in 1 .. Len(eventLoops) :
        /\ Seen(k) \in LoopType /\ Seen(k).exit = eventLoops[k].exit
        /\ Seen(k).hidden <=> eventLoops[k].hidden \/ Hides(k)
  <2> TAKE k \in 1 .. Len(eventLoops)
  <2>1. eventLoops[k] \in LoopType
    BY LoopTypes
  <2>2. CASE Hides(k)
    <3>1. Seen(k) = [eventLoops[k] EXCEPT !.hidden = TRUE]
      BY <2>2
    <3> HIDE DEF Seen
    <3> QED
      BY <2>1, <2>2, <3>1 DEF LoopType
  <2>3. CASE ~Hides(k)
    <3>1. Seen(k) = eventLoops[k]
      BY <2>3
    <3> HIDE DEF Seen, Hides
    <3> QED
      BY <2>1, <2>3, <3>1
  <2> QED
    BY <2>2, <2>3
<1> HIDE DEF Seen
<1>4. /\ eventLoops' \in Seq(LoopType) /\ Len(eventLoops') = Len(eventLoops)
      /\ \A k \in 1 .. Len(eventLoops) : eventLoops'[k] = Seen(k)
  <2>1. loops \in [1 .. Len(eventLoops) -> LoopType]
    BY <1>3
  <2>2. loops \in Seq(LoopType) /\ Len(loops) = Len(eventLoops)
    BY <2>1, LoopTypes, FunctionIsSeq
  <2> QED
    BY <1>2, <2>2
<1> HIDE DEF loops
<1>5. /\ f \in Frame /\ f.fn = "processEvents" /\ f.at = "awake" /\ f.n = Top.n
      /\ f.waits = Top.waits
  BY <1>1 DEF Frame
<1> HIDE DEF f
<1>6. ~(f.n > 0)
  BY <1>1, <1>5 DEF StackInv, SendsNest, Depth
<1>7. /\ stack' \in Seq(Frame) /\ Moves /\ Depth' = Depth
      /\ Top' = f /\ \A k \in 1 .. Depth - 1 : stack'[k] = stack[k]
      /\ \A d \in 1 .. Depth : LoopOf(stack', d) = LoopOf(stack, d)
      /\ FromExec' = FromExec /\ StackInv' /\ WalksLoops'
  BY <1>1, <1>4, <1>5, <1>6, DispatcherStep
<1>8. TypeOK'
  <2>1. ({quitNow, exited, interrupt, canWait} \subseteq BOOLEAN)'
    BY <1>1 DEF TypeOK, threadVars, queueVars
  <2>2. FlagTypes'
    BY <1>1, <2>1, TypesOfState DEF FlagTypes, threadVars, queueVars
  <2> QED
    BY <1>1, <1>4, <1>7, <2>2, TypeAgain
<1>9. QueueKnown'
  <2>1. \A k \in 1 .. Depth : stack'[k].n = stack[k].n
    BY <1>1, <1>5, <1>7, TopFrame DEF Top
  <2> QED
    BY <1>1, <1>7, <2>1 DEF QueueKnown, queueVars
<1>10. QuitTold'
  <2>1. quitNow' = quitNow /\ call' = call /\ Len(eventLoops') \in 0 .. Len(eventLoops)
    BY <1>1, <1>4, LoopTypes DEF threadVars
  <2> QED
    BY <1>3, <1>4, <2>1, QuitKept
<1>11. ~Draining /\ ~Draining' /\ ~Fresh' /\ ~GoingToWait'
  BY <1>1, <1>5, <1>7 DEF Draining, Fresh, GoingToWait, Sampled, In
<1>12. OneByte' /\ FreshSignalled' /\ WaitersSignalled'
  BY <1>1, <1>11, BytesKept DEF FreshSignalled, WaitersSignalled
<1>13. ExitsSeen'
  <2>1. ASSUME NEW k \in 1 .. Len(eventLoops), eventLoops'[k].exit, ~eventLoops'[k].hidden
        PROVE  FromExec /\ k = Len(eventLoops) /\ eventLoops[k].exit
    BY <1>3, <1>4, <2>1
  <2>2. ASSUME NEW k \in 1 .. Len(eventLoops), eventLoops'[k].exit, ~eventLoops'[k].hidden
        PROVE  Signalled'
    <3>1. Fresh /\ eventLoops[Len(eventLoops)].exit
      BY <1>1, <2>1, <2>2 DEF Fresh, In
    <3> QED
      BY <1>1, <3>1 DEF FreshSignalled, Signalled, WakeUpUnderWay
  <2>3. FromExec => LastDispatch(stack', Depth)
    <3>1. Depth + 1 .. Len(stack') = {} /\ stack'[Depth] = f
      <4>1. Len(stack') = Depth
        BY <1>7 DEF Depth
      <4>2. stack'[Depth] = f
        BY <1>7 DEF Top
      <4> QED
        BY <1>1, <4>1, <4>2
    <3>2. FromExec => Depth > 1 /\ stack'[Depth - 1].fn = "exec"
      BY <1>1, <1>7 DEF FromExec
    <3> QED
      BY <1>5, <3>1, <3>2 DEF LastDispatch
  <2>4. LoopOf(stack', Depth) = Len(eventLoops)
    BY <1>1, <1>7 DEF StackInv, LoopsCounted
  <2>5. Depth \in 1 .. Depth'
    BY <1>1, <1>7
  <2> QED
    BY <1>4, <2>1, <2>2, <2>3, <2>4, <2>5 DEF ExitsSeen
<1> QED
  BY <1>7, <1>8, <1>9, <1>10, <1>12, <1>13

\* The dispatcher on top returns, to exec or to a handler: steps
\* TestInterrupt, SelectNothing and SelectClear.
LEMMA DispatcherReturns ==
  ASSUME IInv, stack # <<>>, Top.fn = "processEvents",
         Top.at \in {"block", "sampled", "select", "clear"}, Pop,
         UNCHANGED <<eventLoops, threadVars, interrupt, pipe, queueVars, call>>,
         wakeUps' \in {0, 1}
  PROVE  /\ TypeOK' /\ StackInv' /\ QueueKnown' /\ WalksLoops' /\ QuitTold'
         /\ ~Draining' /\ WaitersSignalled' /\ FreshSignalled' /\ ExitsSeen'
<1> USE DEF IInv
<1>1. /\ Depth \in Nat /\ Depth \in 1 .. Depth /\ stack[Depth] = Top
      /\ \A k \in 1 .. Depth : stack[k] \in Frame
  BY TopFrame DEF Top
<1>2. /\ stack' \in Seq(Frame) /\ Depth' = Depth - 1
      /\ \A k \in 1 .. Depth - 1 : stack'[k] = stack[k]
  BY Popped
<1>3. /\ Depth > 1 /\ stack[Depth - 1].at \in Callers
      /\ stack[Depth - 1].fn = "exec" => stack[Depth - 1].at = "test"
      /\ Top' = stack[Depth - 1]
  <2>1. Depth > 1
    BY <1>1 DEF StackInv, Shape, Depth
  <2>2. Depth - 1 \in 1 .. Depth /\ Depth - 1 < Depth /\ Depth - 1 \in 1 .. Depth - 1
    BY <1>1, <2>1
  <2>3. Top' = stack'[Depth - 1]
    BY <1>2 DEF Top
  <2> QED
    BY <1>2, <2>1, <2>2, <2>3 DEF StackInv, Shape, Depth, Callers
<1>4. TypeOK'
  <2>1. FlagTypes'
    BY TypesOfState DEF FlagTypes, threadVars, queueVars
  <2> QED
    BY <1>2, <2>1, TypeAgain, TypesOfState
<1>5. \A k \in 1 .. Depth - 1 : k \in 1 .. Depth /\ k < Depth
  BY <1>1
<1>6. Shape(stack)'
  <2>1. \A k \in 1 .. Depth - 1 : k > 1 => k - 1 \in 1 .. Depth - 1
    BY <1>1
  <2>2. \A k \in 1 .. Depth - 1 : stack'[k].waits /\ stack'[k].fn = "processEvents"
                                    => stack'[k - 1].fn = "exec"
    BY <1>2, <1>5, <2>1 DEF StackInv, Shape, Depth
  <2> QED
    BY <1>2, <1>5, <2>2 DEF StackInv, Shape, Depth
<1>7. SendsNest(stack)'
  <2>1. \A k \in 1 .. Depth - 1 : \A j \in 1 .. k - 1 : j \in 1 .. Depth - 1
    BY <1>1
  <2> QED
    BY <1>2, <1>5, <2>1 DEF StackInv, SendsNest, Depth
<1>8. \A d \in 1 .. Depth - 1 : LoopOf(stack', d) = LoopOf(stack, d)
  <2> TAKE d \in 1 .. Depth - 1
  <2>1. \A k \in 1 .. d : k \in 1 .. Depth - 1
    BY <1>1
  <2> QED
    BY <1>2, <2>1, LoopOfKept
<1>9. LoopsCounted'
  <2>1. LoopOf(stack, Depth) = LoopOf(stack, Depth - 1)
    <3>1. Depth - 1 \in Nat /\ (Depth - 1) + 1 = Depth
      BY <1>1, <1>3
    <3>2. LoopOf(stack, (Depth - 1) + 1) = LoopOf(stack, Depth - 1) + 0
          /\ LoopOf(stack, Depth - 1) \in Nat
      BY <1>1, <3>1, LoopOfNext
    <3> QED
      BY <3>1, <3>2
  <2>2. Depth - 1 \in 1 .. Depth - 1
    BY <1>1, <1>3
  <2> QED
    BY <1>2, <1>8, <2>1, <2>2 DEF StackInv, LoopsCounted
<1>10. QueueKnown'
  <2>1. Top.n = 0
    BY <1>1 DEF StackInv, SendsNest, Depth, Frame
  <2>2. \A k \in 1 .. Depth : k = Depth \/ k \in 1 .. Depth - 1
    BY <1>1
  <2>3. \A k \in 1 .. Depth - 1 : stack'[k].n <= pending
    BY <1>2, <1>5 DEF QueueKnown
  <2>4. canWait => pending = 0 \/ \E k \in 1 .. Depth - 1 : stack'[k].n = pending
    BY <1>1, <1>2, <2>1, <2>2 DEF QueueKnown
  <2> QED
    BY <1>2, <2>3, <2>4 DEF QueueKnown, queueVars
<1>11. WalksLoops' /\ QuitTold'
  BY CallsKept DEF QuitTold, Told, threadVars
<1>12. /\ ~Draining' /\ ~Fresh' /\ (GoingToWait' => Sampled')
       /\ ~MayNestInBlock => ~GoingToWait'
  BY <1>3 DEF Draining, GoingToWait, Sampled, Fresh, In, Callers
<1>13. WaitersSignalled' /\ FreshSignalled'
  BY <1>12 DEF WaitersSignalled, FreshSignalled
<1>14. ExitsSeen'
  <2>1. ASSUME NEW d \in 1 .. Depth, LastDispatch(stack, d)
        PROVE  d = Depth /\ FromExec
    <3>1. d = Depth \/ Depth \in d + 1 .. Depth
      BY <1>1
    <3>2. d = Depth
      BY <1>1, <2>1, <3>1 DEF LastDispatch, Depth
    <3> QED
      BY <2>1, <3>2 DEF LastDispatch, FromExec
  <2>2. LoopOf(stack, Depth) = Len(eventLoops)
    BY DEF StackInv, LoopsCounted
  <2>3. TestsNext => FromExec
    BY DEF TestsNext, In
  <2>4. \A k \in 1 .. Len(eventLoops) :
          eventLoops[k].exit /\ ~eventLoops[k].hidden
            => Interrupting \/ (k = Len(eventLoops) /\ FromExec)
    BY <2>1, <2>2, <2>3 DEF ExitsSeen
  <2>5. FromExec => TestsNext'
    <3>1. stack' # <<>>
      BY <1>1, <1>2, <1>3, EmptySeq DEF Depth
    <3> QED
      BY <1>3, <3>1 DEF FromExec, TestsNext, In
  <2>6. Interrupting' = Interrupting
    BY DEF Interrupting
  <2> QED
    BY <2>4, <2>5, <2>6 DEF ExitsSeen
<1> QED
  BY <1>4, <1>6, <1>7, <1>9, <1>10, <1>11, <1>12, <1>13, <1>14 DEF StackInv

\* An interrupted dispatcher returns at once.
LEMMA InterruptedStep ==
  ASSUME IInv, TestInterrupt, Interrupted
  PROVE  IInv'
<1>1. /\ stack # <<>> /\ Top.fn = "processEvents" /\ Top.at \in {"block", "sampled"} /\ Pop
      /\ UNCHANGED <<eventLoops, threadVars, interrupt, wakeUps, pipe, queueVars, call>>
      /\ wakeUps \in {0, 1}
  BY DEF TestInterrupt, In, dispatcherVars, callVars, IInv, TypeOK
<1>2. /\ TypeOK' /\ StackInv' /\ QueueKnown' /\ WalksLoops' /\ QuitTold'
      /\ ~Draining' /\ WaitersSignalled' /\ FreshSignalled' /\ ExitsSeen'
  BY <1>1, DispatcherReturns
<1>3. OneByte'
  BY <1>1, <1>2, BytesKept DEF IInv, Draining, In
<1> QED
  BY <1>2, <1>3 DEF IInv

\* A dispatcher that does not wait finds nothing to read.
LEMMA SelectNothingStep ==
  ASSUME IInv, SelectNothing
  PROVE  IInv'
<1>1. /\ stack # <<>> /\ Top.fn = "processEvents" /\ Top.at = "select" /\ Pop
      /\ UNCHANGED <<eventLoops, threadVars, interrupt, wakeUps, pipe, queueVars, call>>
      /\ wakeUps \in {0, 1}
  BY DEF SelectNothing, In, dispatcherVars, callVars, IInv, TypeOK
<1>2. /\ TypeOK' /\ StackInv' /\ QueueKnown' /\ WalksLoops' /\ QuitTold'
      /\ ~Draining' /\ WaitersSignalled' /\ FreshSignalled' /\ ExitsSeen'
  BY <1>1, DispatcherReturns
<1>3. OneByte'
  BY <1>1, <1>2, BytesKept DEF IInv, Draining, In
<1> QED
  BY <1>2, <1>3 DEF IInv

\* wakeUps is reset after the drain.
LEMMA SelectClearStep ==
  ASSUME IInv, SelectClear
  PROVE  IInv'
<1>1. /\ stack # <<>> /\ Top.fn = "processEvents" /\ Top.at = "clear" /\ Pop
      /\ UNCHANGED <<eventLoops, threadVars, interrupt, pipe, queueVars, call>>
      /\ wakeUps' = 0 /\ Draining
  BY DEF SelectClear, ClearedWakeUps, In, callVars, Draining
<1>2. /\ TypeOK' /\ StackInv' /\ QueueKnown' /\ WalksLoops' /\ QuitTold'
      /\ ~Draining' /\ WaitersSignalled' /\ FreshSignalled' /\ ExitsSeen'
  BY <1>1, DispatcherReturns
<1>3. OneByte'
  BY <1>1, <1>2 DEF IInv, OneByte, Writers
<1> QED
  BY <1>2, <1>3 DEF IInv

\* A call is made by exec, whose loop has not been told to exit, or by a
\* handler or slot.
LEMMA CallMade ==
  ASSUME IInv, stack # <<>>, NEW fn \in {"exec", "processEvents"}, Call(fn),
         \/ Top.fn = "exec" /\ Top.at = "test"
         \/ Top.fn = "processEvents" /\ Top.at \in Callers \ {"return", "test"},
         Top.fn = "exec" => ~eventLoops[Len(eventLoops)].exit,
         UNCHANGED <<eventLoops, threadVars, dispatcherVars, queueVars, call>>
  PROVE  IInv'
<1> USE DEF IInv
<1>1. /\ Depth \in Nat /\ Depth \in 1 .. Depth /\ stack[Depth] = Top /\ Top \in Frame
      /\ \A k \in 1 .. Depth : stack[k] \in Frame
  BY TopFrame DEF Top
<1>2. /\ stack' \in Seq(Frame) /\ Depth' = Depth + 1 /\ Top' = NewFrame(fn)
      /\ stack'[Depth + 1] = NewFrame(fn)
      /\ \A k \in 1 .. Depth : stack'[k] = stack[k]
  BY Called DEF Top
<1>3. /\ NewFrame(fn).fn = fn /\ NewFrame(fn).at = "begin" /\ NewFrame(fn).n = 0
      /\ ~NewFrame(fn).waits
  BY DEF NewFrame
<1>4. /\ \A k \in 1 .. Depth + 1 : k = Depth + 1 \/ k \in 1 .. Depth
      /\ \A k \in 1 .. Depth : k \in 1 .. Depth + 1 /\ k # Depth + 1 /\ k <= Depth
  BY <1>1
<1>5. TypeOK'
  <2>1. FlagTypes'
    BY TypesOfState DEF FlagTypes, threadVars, dispatcherVars, queueVars
  <2> QED
    BY <1>2, <2>1, TypeAgain, TypesOfState
<1>6. Shape(stack')
  <2> SUFFICES ASSUME NEW k \in 1 .. Depth + 1
               PROVE  /\ stack'[k].fn = "threadExec" <=> k = 1
                      /\ stack'[k].fn = "threadExec" => stack'[k].at = "return"
                      /\ stack'[k].fn = "exec" => stack'[k].at \in {"begin", "test", "leave"}
                      /\ stack'[k].fn = "processEvents"
                           => stack'[k].at \notin {"test", "leave", "return"}
                      /\ k < Depth + 1 => stack'[k].at \in Callers
                      /\ stack'[k].fn = "processEvents" /\ stack'[k].waits
                           => stack'[k - 1].fn = "exec"
    BY <1>2 DEF Shape, Depth
  <2>1. CASE k = Depth + 1
    BY <1>1, <1>2, <1>3, <2>1
  <2>2. CASE k \in 1 .. Depth
    <3>1. k = Depth \/ k < Depth
      BY <1>1, <2>2
    <3>2. k > 1 => k - 1 \in 1 .. Depth
      BY <1>1, <2>2
    <3> QED
      BY <1>1, <1>2, <2>2, <3>1, <3>2 DEF StackInv, Shape, Depth, Callers
  <2> QED
    BY <1>4, <2>1, <2>2
<1>7. SendsNest(stack')
  <2>1. \A k \in 1 .. Depth : \A j \in 1 .. k - 1 : j \in 1 .. Depth
    BY <1>1
  <2>2. \A k \in 1 .. Depth :
          /\ stack'[k].n > 0 => /\ stack'[k].fn = "processEvents"
                                /\ stack'[k].at \in {"deliver", "handler"}
          /\ stack'[k].fn = "processEvents" /\ stack'[k].at \notin {"begin", "awake"}
               => \A j \in 1 .. k - 1 : stack'[j].n = 0
    BY <1>2, <2>1 DEF StackInv, SendsNest, Depth
  <2>3. ~(stack'[Depth + 1].n > 0) /\ stack'[Depth + 1].at = "begin"
    BY <1>2, <1>3
  <2> QED
    BY <1>2, <1>4, <2>2, <2>3 DEF SendsNest, Depth
<1>8. \A d \in 1 .. Depth : LoopOf(stack', d) = LoopOf(stack, d)
  <2> TAKE d \in 1 .. Depth
  <2>1. \A k \in 1 .. d : k \in 1 .. Depth
    BY <1>1
  <2> QED
    BY <1>2, <2>1, LoopOfKept
<1>9. LoopsCounted'
  <2>1. LoopOf(stack', Depth) \in Nat /\ LoopOf(stack', Depth + 1) = LoopOf(stack', Depth) + 0
    <3>1. ~(stack'[Depth + 1].fn = "exec" /\ stack'[Depth + 1].at # "begin")
      BY <1>2, <1>3
    <3> QED
      BY <1>1, <3>1, LoopOfNext
  <2> QED
    BY <1>1, <1>2, <1>8, <2>1 DEF StackInv, LoopsCounted
<1>10. QueueKnown'
  <2>1. \A k \in 1 .. Depth + 1 : stack'[k].n <= pending
    BY <1>2, <1>3, <1>4 DEF QueueKnown, TypeOK
  <2>2. canWait => pending = 0 \/ \E k \in 1 .. Depth + 1 : stack'[k].n = pending
    BY <1>2, <1>4 DEF QueueKnown
  <2> QED
    BY <1>2, <2>1, <2>2 DEF QueueKnown, queueVars
<1>11. WalksLoops' /\ QuitTold'
  BY CallsKept DEF QuitTold, Told, threadVars
<1>12. ~Draining /\ ~Draining' /\ ~GoingToWait'
  BY <1>2, <1>3 DEF Draining, GoingToWait, Sampled, Callers, In
<1>13. OneByte' /\ WaitersSignalled'
  BY <1>12, BytesKept DEF WaitersSignalled, dispatcherVars
<1>14. FreshSignalled'
  <2>1. FromExec' => Top.fn = "exec"
    BY <1>1, <1>2 DEF FromExec
  <2> QED
    BY <2>1 DEF FreshSignalled, Fresh
<1>15. ExitsSeen'
  <2>1. ASSUME NEW d \in 1 .. Depth, LastDispatch(stack, d)
        PROVE  LastDispatch(stack', d) /\ d \in 1 .. Depth'
    <3>1. \A j \in d + 1 .. Depth + 1 : j = Depth + 1 \/ j \in d + 1 .. Depth
      BY <1>1
    <3>2. \A j \in d + 1 .. Depth : j \in 1 .. Depth
      BY <1>1
    <3>3. \A j \in d + 1 .. Depth + 1 : stack'[j].fn = "processEvents" => stack'[j].at = "begin"
      BY <1>2, <1>3, <2>1, <3>1, <3>2 DEF LastDispatch, Depth
    <3>4. d > 1 => d - 1 \in 1 .. Depth
      BY <1>1
    <3>5. Len(stack') = Depth + 1 /\ d \in 1 .. Depth'
      BY <1>2, <1>4 DEF Depth
    <3> QED
      BY <1>2, <2>1, <3>3, <3>4, <3>5 DEF LastDispatch
  <2>2. TestsNext => ~eventLoops[Len(eventLoops)].exit
    BY <1>12 DEF TestsNext, In
  <2>3. Interrupting' = Interrupting /\ Signalled' = Signalled
    BY DEF Interrupting, Signalled, WakeUpUnderWay, dispatcherVars
  <2> QED
    BY <1>8, <2>1, <2>2, <2>3 DEF ExitsSeen
<1>16. Shape(stack)' /\ SendsNest(stack)'
  BY <1>6, <1>7 DEF Shape, SendsNest
<1> QED
  BY <1>5, <1>9, <1>10, <1>11, <1>13, <1>14, <1>15, <1>16 DEF StackInv

\* A handler enters a nested loop or calls processEvents.
LEMMA NestStep ==
  ASSUME IInv, NEW fn \in {"exec", "processEvents"}, Nest(fn)
  PROVE  IInv'
<1>1. /\ stack # <<>> /\ Call(fn) /\ Top.fn = "processEvents"
      /\ Top.at \in Callers \ {"return", "test"}
      /\ UNCHANGED <<eventLoops, threadVars, dispatcherVars, queueVars, call>>
  BY DEF Nest, UserCode, InCallback, In, Callers, callVars
<1> QED
  BY <1>1, CallMade

\* exec enters its loop (from begin) or ends it (from test).
LEMMA ExecMoves ==
  ASSUME IInv, stack # <<>>, Top.fn = "exec",
         (Top.at = "begin" /\ Goto("test")) \/ (Top.at = "test" /\ Goto("leave")),
         eventLoops' \in Seq(LoopType),
         Len(eventLoops') = Len(eventLoops) + (IF Top.at = "begin" THEN 1 ELSE 0),
         \A k \in 1 .. Len(eventLoops) : eventLoops'[k] = eventLoops[k],
         Top.at = "begin" => ~quitNow /\ ~eventLoops'[Len(eventLoops) + 1].exit,
         UNCHANGED <<threadVars, dispatcherVars, queueVars, call>>
  PROVE  IInv'
<1>0. PICK at \in {"test", "leave"} :
        Goto(at) /\ ((Top.at = "begin" /\ at = "test") \/ (Top.at = "test" /\ at = "leave"))
  <2>1. CASE Top.at = "begin" /\ Goto("test")
    <3> WITNESS "test" \in {"test", "leave"}
    <3> QED
      BY <2>1
  <2>2. CASE Top.at = "test" /\ Goto("leave")
    <3> WITNESS "leave" \in {"test", "leave"}
    <3> QED
      BY <2>2
  <2> QED
    BY <2>1, <2>2
<1> USE DEF IInv
<1>1. /\ Depth \in Nat /\ Depth \in 1 .. Depth /\ stack[Depth] = Top /\ Top \in Frame
      /\ \A k \in 1 .. Depth : stack[k] \in Frame
  BY TopFrame DEF Top
<1>2. /\ stack' \in Seq(Frame) /\ Depth' = Depth /\ Top' = [Top EXCEPT !.at = at]
      /\ \A k \in 1 .. Depth - 1 : stack'[k] = stack[k]
  BY <1>0, WentTo DEF Places
<1>3. /\ Top'.fn = "exec" /\ Top'.at = at /\ Top'.n = Top.n /\ Top'.waits = Top.waits
      /\ stack'[Depth] = Top'
  BY <1>0, <1>1, <1>2 DEF Frame, Top
<1>4. /\ \A k \in 1 .. Depth : k = Depth \/ k \in 1 .. Depth - 1
      /\ \A k \in 1 .. Depth - 1 : k \in 1 .. Depth /\ k < Depth
      /\ \A k \in 1 .. Depth : stack'[k].n = stack[k].n /\ stack'[k].fn = stack[k].fn
                               /\ stack'[k].waits = stack[k].waits
  <2>1. \A k \in 1 .. Depth : k = Depth \/ k \in 1 .. Depth - 1
    BY <1>1
  <2>2. \A k \in 1 .. Depth - 1 : k \in 1 .. Depth /\ k < Depth
    BY <1>1
  <2> QED
    BY <1>1, <1>2, <1>3, <2>1, <2>2
<1>5. TypeOK'
  <2>1. FlagTypes'
    BY TypesOfState DEF FlagTypes, threadVars, dispatcherVars, queueVars
  <2> QED
    BY <1>2, <2>1, TypeAgain
<1>6. Shape(stack')
  <2>1. \A k \in 1 .. Depth : k > 1 => k - 1 \in 1 .. Depth
    BY <1>1
  <2>2. \A k \in 1 .. Depth : stack'[k].fn = "processEvents" /\ stack'[k].waits
                                => stack'[k - 1].fn = "exec"
    <3> SUFFICES ASSUME NEW k \in 1 .. Depth, stack'[k].fn = "processEvents", stack'[k].waits
                 PROVE  stack'[k - 1].fn = "exec"
      OBVIOUS
    <3>1. stack[k].fn = "processEvents" /\ stack[k].waits
      BY <1>4
    <3>2. stack[k].fn # "threadExec"
      BY <3>1
    <3>3. k # 1 /\ stack[k - 1].fn = "exec"
      BY <3>1, <3>2 DEF StackInv, Shape, Depth
    <3>4. k - 1 \in 1 .. Depth
      BY <1>1, <3>3
    <3> QED
      BY <1>4, <3>3, <3>4
  <2>3. \A k \in 1 .. Depth - 1 : stack'[k].at = stack[k].at
    BY <1>2
  <2>4. Len(stack) = Depth /\ Len(stack') = Depth
    BY <1>2 DEF Depth
  <2>5. \A k \in 1 .. Depth :
          /\ stack'[k].fn = "threadExec" <=> k = 1
          /\ stack'[k].fn = "threadExec" => stack'[k].at = "return"
          /\ stack'[k].fn = "exec" => stack'[k].at \in {"begin", "test", "leave"}
          /\ stack'[k].fn = "processEvents" => stack'[k].at \notin {"test", "leave", "return"}
          /\ k < Depth => stack'[k].at \in Callers
    BY <1>0, <1>1, <1>3, <1>4, <2>3, <2>4 DEF StackInv, Shape
  <2> QED
    BY <2>2, <2>4, <2>5 DEF Shape
<1>7. SendsNest(stack')
  <2>1. \A k \in 1 .. Depth : \A j \in 1 .. k - 1 : j \in 1 .. Depth
    BY <1>1
  <2>2. \A k \in 1 .. Depth : stack'[k].fn = "processEvents" => stack'[k].at = stack[k].at
    BY <1>2, <1>3, <1>4
  <2>3. Len(stack) = Depth /\ Len(stack') = Depth
    BY <1>2 DEF Depth
  <2> QED
    BY <1>4, <2>1, <2>2, <2>3 DEF StackInv, SendsNest
<1>8. \A d \in 1 .. Depth - 1 : LoopOf(stack', d) = LoopOf(stack, d)
  <2> TAKE d \in 1 .. Depth - 1
  <2>1. \A k \in 1 .. d : k \in 1 .. Depth - 1
    BY <1>1
  <2> QED
    BY <1>2, <2>1, LoopOfKept
<1>9. LoopsCounted'
  <2>1. LoopOf(stack', Depth - 1) = LoopOf(stack, Depth - 1)
    <3>1. \A k \in 1 .. Depth - 1 : stack'[k] = stack[k]
      BY <1>2
    <3> QED
      BY <3>1, LoopOfKept
  <2>2. Depth - 1 \in Nat /\ (Depth - 1) + 1 = Depth
    BY <1>1
  <2>3. /\ LoopOf(stack', Depth - 1) \in Nat
        /\ LoopOf(stack', (Depth - 1) + 1) = LoopOf(stack', Depth - 1) + 1
    <3>1. stack'[(Depth - 1) + 1].fn = "exec" /\ stack'[(Depth - 1) + 1].at # "begin"
      BY <1>0, <1>3, <2>2
    <3> QED
      BY <2>2, <3>1, LoopOfNext
  <2>4. LoopOf(stack, (Depth - 1) + 1)
          = LoopOf(stack, Depth - 1) + (IF Top.at = "begin" THEN 0 ELSE 1)
    <3>1. LoopOf(stack, (Depth - 1) + 1)
            = LoopOf(stack, Depth - 1)
                + (IF stack[(Depth - 1) + 1].fn = "exec" /\ stack[(Depth - 1) + 1].at # "begin"
                     THEN 1 ELSE 0)
      BY <2>2, LoopOfNext
    <3>2. stack[(Depth - 1) + 1] = Top
      BY <1>1, <2>2
    <3>3. Top.fn = "exec"
      BY <1>0, <1>3
    <3> QED
      BY <3>1, <3>2, <3>3
  <2>5. Len(eventLoops) = LoopOf(stack, Depth)
    BY DEF StackInv, LoopsCounted
  <2> QED
    BY <1>2, <2>1, <2>2, <2>3, <2>4, <2>5 DEF LoopsCounted
<1>10. QueueKnown'
  BY <1>2, <1>4 DEF QueueKnown, queueVars
<1>11. Len(eventLoops) \in Nat
       /\ \A k \in 1 .. Len(eventLoops') :
            k \in 1 .. Len(eventLoops) \/ (Top.at = "begin" /\ k = Len(eventLoops) + 1)
  BY <1>0, LoopTypes
<1>12. WalksLoops' /\ QuitTold'
  BY <1>11, CallsKept DEF QuitTold, Told, threadVars
<1>13. ~Draining /\ ~Draining' /\ ~GoingToWait' /\ ~Fresh'
  BY <1>0, <1>3 DEF Draining, GoingToWait, Sampled, Fresh, In
<1>14. OneByte' /\ WaitersSignalled' /\ FreshSignalled'
  BY <1>13, BytesKept DEF WaitersSignalled, FreshSignalled, dispatcherVars
<1>15. ExitsSeen'
  <2>1. ASSUME NEW d \in 1 .. Depth, LastDispatch(stack, d)
        PROVE  LastDispatch(stack', d) /\ d \in 1 .. Depth - 1
    <3>1. d # Depth /\ d \in 1 .. Depth - 1 /\ d > 1
      BY <1>1, <1>4, <2>1 DEF LastDispatch
    <3>2. d - 1 \in 1 .. Depth - 1
      BY <1>1, <3>1
    <3>3. \A j \in d + 1 .. Depth : j \in 1 .. Depth
      BY <1>1
    <3>4. \A j \in d + 1 .. Depth : stack'[j].fn = "processEvents" => stack'[j].at = "begin"
      <4> TAKE j \in d + 1 .. Depth
      <4>1. CASE j = Depth
        BY <1>3, <4>1
      <4>2. CASE j \in 1 .. Depth - 1
        <5>1. stack'[j] = stack[j]
          BY <1>2, <4>2
        <5>2. stack[j].fn = "processEvents" => stack[j].at = "begin"
          BY <2>1 DEF LastDispatch, Depth
        <5> QED
          BY <5>1, <5>2
      <4> QED
        BY <1>4, <3>3, <4>1, <4>2
    <3>5. Len(stack') = Depth
      BY <1>2 DEF Depth
    <3> QED
      BY <1>2, <2>1, <3>1, <3>2, <3>4, <3>5 DEF LastDispatch
  <2>2. Interrupting' = Interrupting /\ Signalled' = Signalled
    BY DEF Interrupting, Signalled, WakeUpUnderWay, dispatcherVars
  <2>3. CASE Top.at = "begin"
    <3>1. ~TestsNext
      BY <1>13, <2>3 DEF TestsNext, In
    <3> QED
      BY <1>2, <1>4, <1>8, <1>11, <2>1, <2>2, <3>1 DEF ExitsSeen
  <2>4. CASE Top.at = "test"
    <3>1. TestsNext'
      <4>1. stack' # <<>>
        BY <1>1, <1>2, EmptySeq DEF Depth
      <4> QED
        BY <1>0, <1>3, <2>4, <4>1 DEF TestsNext, In
    <3>2. Len(eventLoops') = Len(eventLoops)
      BY <1>11, <2>4
    <3> QED
      BY <1>2, <1>4, <1>8, <1>11, <2>1, <2>2, <3>1, <3>2 DEF ExitsSeen
  <2> QED
    BY <1>0, <2>3, <2>4
<1>16. Shape(stack)' /\ SendsNest(stack)'
  BY <1>6, <1>7 DEF Shape, SendsNest
<1> QED
  BY <1>5, <1>9, <1>10, <1>12, <1>14, <1>15, <1>16 DEF StackInv

\* A loop is entered.
LEMMA ExecBeginStep ==
  ASSUME IInv, ExecBegin
  PROVE  IInv'
<1>1. /\ stack # <<>> /\ Top.fn = "exec" /\ Top.at = "begin" /\ ~quitNow /\ Goto("test")
      /\ UNCHANGED <<threadVars, dispatcherVars, queueVars, call>>
  BY DEF ExecBegin, In, MayStart, callVars
<1>2. NewLoop \in LoopType /\ ~NewLoop.exit
  BY DEF NewLoop, LoopType
<1>3. /\ eventLoops' \in Seq(LoopType) /\ Len(eventLoops') = Len(eventLoops) + 1
      /\ \A k \in 1 .. Len(eventLoops) : eventLoops'[k] = eventLoops[k]
      /\ eventLoops'[Len(eventLoops) + 1] = NewLoop
  BY <1>2, LoopTypes, AppendProperties DEF IInv, ExecBegin
<1>4. /\ Len(eventLoops') = Len(eventLoops) + (IF Top.at = "begin" THEN 1 ELSE 0)
      /\ Top.at = "begin" => ~quitNow /\ ~eventLoops'[Len(eventLoops) + 1].exit
  BY <1>1, <1>2, <1>3
<1>5. (Top.at = "begin" /\ Goto("test")) \/ (Top.at = "test" /\ Goto("leave"))
  BY <1>1
<1>6. stack # <<>> /\ Top.fn = "exec"
      /\ UNCHANGED <<threadVars, dispatcherVars, queueVars, call>>
  BY <1>1
<1> QED
  BY <1>3, <1>4, <1>5, <1>6, ExecMoves

\* exec looks at its flag before it calls the dispatcher.
LEMMA ExecTestStep ==
  ASSUME IInv, ExecTest
  PROVE  IInv'
<1>1. /\ stack # <<>> /\ Top.fn = "exec" /\ Top.at = "test"
      /\ UNCHANGED <<eventLoops, threadVars, dispatcherVars, queueVars, call>>
  BY DEF ExecTest, In, callVars
<1>2. CASE eventLoops[Len(eventLoops)].exit
  <2>1. Goto("leave")
    BY <1>2 DEF ExecTest
  <2>2. /\ eventLoops' \in Seq(LoopType) /\ Len(eventLoops) \in Nat
        /\ Len(eventLoops') = Len(eventLoops) + 0
    BY <1>1, LoopTypes DEF IInv
  <2> QED
    BY <1>1, <2>1, <2>2, ExecMoves
<1>3. CASE ~eventLoops[Len(eventLoops)].exit
  <2>1. Call("processEvents")
    BY <1>3 DEF ExecTest
  <2>2. /\ \/ Top.fn = "exec" /\ Top.at = "test"
           \/ Top.fn = "processEvents" /\ Top.at \in Callers \ {"return", "test"}
        /\ Top.fn = "exec" => ~eventLoops[Len(eventLoops)].exit
    BY <1>1, <1>3
  <2>3. "processEvents" \in {"exec", "processEvents"}
    OBVIOUS
  <2> QED
    BY <1>1, <2>1, <2>2, <2>3, CallMade
<1> QED
  BY <1>2, <1>3

\* exec returns, before it has entered its loop (from begin) or after it has
\* left it.
LEMMA ExecReturns ==
  ASSUME IInv, stack # <<>>, Top.fn = "exec", Top.at \in {"begin", "leave"},
         NEW code \in Codes \cup {NoCode}, Return(code),
         eventLoops' \in Seq(LoopType),
         Len(eventLoops') = Len(eventLoops) - (IF Top.at = "begin" THEN 0 ELSE 1),
         \A k \in 1 .. Len(eventLoops') : eventLoops'[k] = eventLoops[k],
         UNCHANGED <<threadVars, dispatcherVars, queueVars, call>>
  PROVE  IInv'
<1> USE DEF IInv
<1>1. /\ Depth \in Nat /\ Depth \in 1 .. Depth /\ stack[Depth] = Top /\ Top \in Frame
      /\ \A k \in 1 .. Depth : stack[k] \in Frame
  BY TopFrame DEF Top
<1>2. Depth > 1
  BY <1>1 DEF StackInv, Shape, Depth
<1>3. /\ stack' \in Seq(Frame) /\ Depth' = Depth - 1
      /\ \A k \in 1 .. Depth - 2 : stack'[k] = stack[k]
      /\ stack'[Depth - 1] = [stack[Depth - 1] EXCEPT !.code = code]
  BY <1>2, ReturnedCode
<1>4. /\ \A k \in 1 .. Depth - 1 : k \in 1 .. Depth /\ k < Depth
      /\ \A k \in 1 .. Depth : k = Depth \/ k \in 1 .. Depth - 1
      /\ \A k \in 1 .. Depth - 1 : /\ stack'[k].fn = stack[k].fn /\ stack'[k].at = stack[k].at
                                   /\ stack'[k].n = stack[k].n
                                   /\ stack'[k].waits = stack[k].waits
  <2>1. \A k \in 1 .. Depth - 1 : k = Depth - 1 \/ k \in 1 .. Depth - 2
    BY <1>1
  <2>2. Depth - 1 \in 1 .. Depth
    BY <1>1, <1>2
  <2>3. /\ stack'[Depth - 1].fn = stack[Depth - 1].fn /\ stack'[Depth - 1].at = stack[Depth - 1].at
        /\ stack'[Depth - 1].n = stack[Depth - 1].n
        /\ stack'[Depth - 1].waits = stack[Depth - 1].waits
    BY <1>1, <1>3, <2>2 DEF Frame
  <2>4. \A k \in 1 .. Depth - 1 : k \in 1 .. Depth /\ k < Depth
    BY <1>1
  <2>5. \A k \in 1 .. Depth : k = Depth \/ k \in 1 .. Depth - 1
    BY <1>1
  <2> QED
    BY <1>3, <2>1, <2>3, <2>4, <2>5
<1>5. TypeOK'
  <2>1. FlagTypes'
    BY TypesOfState DEF FlagTypes, threadVars, dispatcherVars, queueVars
  <2> QED
    BY <1>3, <2>1, TypeAgain
<1>6. Len(stack) = Depth /\ Len(stack') = Depth - 1
  BY <1>3 DEF Depth
<1>7. Shape(stack)'
  <2>1. \A k \in 1 .. Depth - 1 : k > 1 => k - 1 \in 1 .. Depth - 1
    BY <1>1
  <2>2. \A k \in 1 .. Depth - 1 : stack'[k].waits /\ stack'[k].fn = "processEvents"
                                    => stack'[k - 1].fn = "exec"
    <3>1. \A k \in 1 .. Depth - 1 : stack[k].waits /\ stack[k].fn = "processEvents"
                                      => stack[k - 1].fn = "exec" /\ k # 1
      BY <1>4, <1>6 DEF StackInv, Shape
    <3>2. \A k \in 1 .. Depth - 1 : k # 1 => k - 1 \in 1 .. Depth - 1
      BY <1>1
    <3> QED
      BY <1>4, <3>1, <3>2
  <2> QED
    BY <1>4, <1>6, <2>2 DEF StackInv, Shape
<1>8. SendsNest(stack)'
  <2>1. \A k \in 1 .. Depth - 1 : \A j \in 1 .. k - 1 : j \in 1 .. Depth - 1
    BY <1>1
  <2> QED
    BY <1>4, <1>6, <2>1 DEF StackInv, SendsNest
<1>9. \A d \in 1 .. Depth - 1 : LoopOf(stack', d) = LoopOf(stack, d)
  <2> TAKE d \in 1 .. Depth - 1
  <2>1. \A k \in 1 .. d : k \in 1 .. Depth - 1
    BY <1>1
  <2> QED
    BY <1>4, <2>1, LoopOfKept
<1>10. LoopsCounted'
  <2>1. Depth - 1 \in Nat /\ (Depth - 1) + 1 = Depth /\ Depth - 1 \in 1 .. Depth - 1
    BY <1>1, <1>2
  <2>2. LoopOf(stack, Depth - 1) \in Nat
        /\ LoopOf(stack, (Depth - 1) + 1)
             = LoopOf(stack, Depth - 1) + (IF Top.at = "begin" THEN 0 ELSE 1)
    BY <1>1, <2>1, LoopOfNext
  <2>3. Len(eventLoops) = LoopOf(stack, Depth)
    BY DEF StackInv, LoopsCounted
  <2> QED
    BY <1>3, <1>9, <2>1, <2>2, <2>3 DEF LoopsCounted
<1>11. QueueKnown'
  <2>1. Top.n = 0
    BY <1>1, <1>6 DEF StackInv, SendsNest, Frame
  <2>2. \A k \in 1 .. Depth - 1 : stack'[k].n <= pending
    BY <1>4 DEF QueueKnown
  <2>3. canWait => pending = 0 \/ \E k \in 1 .. Depth - 1 : stack'[k].n = pending
    BY <1>1, <1>4, <2>1 DEF QueueKnown
  <2> QED
    BY <1>3, <2>2, <2>3 DEF QueueKnown, queueVars
<1>12. Len(eventLoops) \in Nat /\ Len(eventLoops') \in Nat
  BY LoopTypes, LenProperties
<1>13. WalksLoops' /\ QuitTold'
  <2>1. Len(eventLoops') \in 0 .. Len(eventLoops)
    BY <1>12
  <2> QED
    BY <2>1, CallsKept, QuitKept DEF threadVars
<1>14. Top' = stack'[Depth - 1] /\ Depth - 1 \in 1 .. Depth - 1
  BY <1>1, <1>2, <1>3 DEF Top
<1>15. /\ ~Draining /\ ~Draining' /\ ~Fresh' /\ (GoingToWait' => Sampled')
       /\ ~MayNestInBlock => ~GoingToWait'
  <2>1. Top'.at \in Callers
    BY <1>4, <1>6, <1>14 DEF StackInv, Shape
  <2> QED
    BY <2>1 DEF Draining, GoingToWait, Sampled, Fresh, In, Callers
<1>16. OneByte' /\ WaitersSignalled' /\ FreshSignalled'
  BY <1>15, BytesKept DEF WaitersSignalled, FreshSignalled, dispatcherVars
<1>17. ExitsSeen'
  <2>1. ASSUME NEW d \in 1 .. Depth, LastDispatch(stack, d)
        PROVE  LastDispatch(stack', d) /\ d \in 1 .. Depth - 1
    <3>1. d # Depth /\ d \in 1 .. Depth - 1 /\ d > 1
      BY <1>1, <1>4, <2>1 DEF LastDispatch
    <3>2. d - 1 \in 1 .. Depth - 1
      BY <1>1, <3>1
    <3>3. \A j \in d + 1 .. Depth - 1 : j \in 1 .. Depth - 1 /\ j \in d + 1 .. Depth
      BY <1>1
    <3> QED
      BY <1>4, <1>6, <2>1, <3>1, <3>2, <3>3 DEF LastDispatch
  <2>2. Interrupting' = Interrupting /\ Signalled' = Signalled
    BY DEF Interrupting, Signalled, WakeUpUnderWay, dispatcherVars
  <2>3. \A k \in 1 .. Len(eventLoops') :
          k \in 1 .. Len(eventLoops) /\ (TestsNext => k # Len(eventLoops))
    <3>1. TestsNext => Top.at = "leave"
      BY <1>15 DEF TestsNext, In
    <3> QED
      BY <1>12, <3>1
  <2> QED
    BY <1>3, <1>9, <2>1, <2>2, <2>3 DEF ExitsSeen
<1> QED
  BY <1>5, <1>7, <1>8, <1>10, <1>11, <1>13, <1>16, <1>17 DEF StackInv

\* exec returns without a loop, as the thread was told to quit.
LEMMA ExecQuitNowStep ==
  ASSUME IInv, ExecQuitNow
  PROVE  IInv'
<1>1. /\ stack # <<>> /\ Top.fn = "exec" /\ Top.at = "begin" /\ Return(NoCode)
      /\ UNCHANGED <<eventLoops, threadVars, dispatcherVars, queueVars, call>>
  BY DEF ExecQuitNow, In, callVars
<1>2. eventLoops \in Seq(LoopType) /\ Len(eventLoops) \in Nat
  BY LoopTypes DEF IInv
<1>3. /\ Len(eventLoops') = Len(eventLoops) - (IF Top.at = "begin" THEN 0 ELSE 1)
      /\ eventLoops' \in Seq(LoopType)
      /\ \A k \in 1 .. Len(eventLoops') : eventLoops'[k] = eventLoops[k]
  BY <1>1, <1>2
<1> QED
  BY <1>1, <1>3, ExecReturns

\* A loop is left; the loops below keep their positions.
LEMMA ExecLeaveStep ==
  ASSUME IInv, ExecLeave
  PROVE  IInv'
<1> DEFINE n == Len(eventLoops)
<1>1. /\ stack # <<>> /\ Top.fn = "exec" /\ Top.at = "leave"
      /\ Return(eventLoops[n].returnCode) /\ eventLoops' = SubSeq(eventLoops, 1, n - 1)
      /\ UNCHANGED <<threadVars, dispatcherVars, queueVars, call>>
  BY DEF ExecLeave, In, callVars
<1>2. /\ eventLoops \in Seq(LoopType) /\ n \in Nat
      /\ \A k \in 1 .. n : eventLoops[k] \in LoopType
  BY LoopTypes DEF IInv
<1>3. n > 0
  <2>1. /\ Depth - 1 \in Nat /\ (Depth - 1) + 1 = Depth /\ stack[Depth] = Top
    BY <1>1, TopFrame DEF IInv, Top
  <2>2. /\ LoopOf(stack, Depth - 1) \in Nat
        /\ LoopOf(stack, (Depth - 1) + 1) = LoopOf(stack, Depth - 1) + 1
    BY <1>1, <2>1, LoopOfNext
  <2> QED
    BY <2>1, <2>2 DEF IInv, StackInv, LoopsCounted
<1>4. eventLoops[n].returnCode \in Codes \cup {NoCode}
  BY <1>2, <1>3 DEF LoopType
<1>5. /\ eventLoops' \in Seq(LoopType) /\ Len(eventLoops') = n - 1
      /\ \A k \in 1 .. n - 1 : eventLoops'[k] = eventLoops[k]
  <2> DEFINE new == SubSeq(eventLoops, 1, n - 1)
  <2>1. n - 1 \in 0 .. n /\ 1 \in 1 .. (n - 1) + 1
        /\ \A k \in 1 .. n - 1 : eventLoops[k] \in LoopType
    BY <1>2, <1>3
  <2>2. new \in Seq(LoopType)
    BY <1>2, <2>1, SubSeqProperties
  <2>3. 1 \in Int /\ n - 1 \in Int /\ n - 1 >= 0 /\ (n - 1) - 1 + 1 = n - 1
        /\ \A k \in 1 .. n - 1 : 1 + k - 1 = k
    BY <1>2, <1>3
  <2>4. Len(new) = IF 1 <= n - 1 THEN (n - 1) - 1 + 1 ELSE 0
    BY <2>1, <2>3, SubSeqProperties
  <2>5. \A k \in 1 .. (n - 1) - 1 + 1 : new[k] = eventLoops[1 + k - 1]
    BY <2>1, <2>3, SubSeqProperties
  <2>6. Len(new) = n - 1
    BY <1>2, <1>3, <2>4
  <2>7. \A k \in 1 .. n - 1 : new[k] = eventLoops[k]
    BY <2>3, <2>5
  <2> QED
    BY <1>1, <2>2, <2>6, <2>7
<1>6. Len(eventLoops') = Len(eventLoops) - (IF Top.at = "begin" THEN 0 ELSE 1)
  BY <1>1, <1>5
<1> QED
  BY <1>1, <1>4, <1>5, <1>6, ExecReturns

-----------------------------------------------------------------------------
(* QThread::exec and its end                                               *)

\* Outside of QThread::exec's loop nothing is left of a loop or a send.
LEMMA NoLoopYet ==
  ASSUME TypeOK, StackInv, QueueKnown, Depth <= 1
  PROVE  /\ Len(eventLoops) = 0 /\ ~Draining
         /\ canWait => pending = 0
<1>1. /\ Depth \in Nat /\ (stack # <<>> <=> Depth > 0)
      /\ \A k \in 1 .. Depth : stack[k] \in Frame
  BY TopFrame
<1>2. CASE Depth = 0
  <2>1. Len(eventLoops) = 0
    BY <1>2, LoopOfNext DEF StackInv, LoopsCounted
  <2>2. canWait => pending = 0
    BY <1>2 DEF QueueKnown
  <2> QED
    BY <1>1, <1>2, <2>1, <2>2 DEF Draining, In
<1>3. CASE Depth = 1
  <2>1. stack[1].fn = "threadExec" /\ stack[1].n = 0 /\ Top = stack[1]
    BY <1>1, <1>3 DEF StackInv, Shape, SendsNest, Depth, Top, Frame
  <2>2. LoopOf(stack, 0) = 0 /\ LoopOf(stack, 0 + 1) = LoopOf(stack, 0) + 0
    BY <2>1, LoopOfNext
  <2>3. Len(eventLoops) = 0
    BY <1>3, <2>2 DEF StackInv, LoopsCounted
  <2>4. canWait => pending = 0
    BY <1>3, <2>1 DEF QueueKnown
  <2> QED
    BY <2>1, <2>3, <2>4 DEF Draining, In
<1> QED
  BY <1>1, <1>2, <1>3

\* QThread::exec begins, with its loop's exec, or has ended.
LEMMA OutsideLoops ==
  ASSUME IInv, Depth <= 1, stack' \in Seq(Frame), Depth' \in {0, 2},
         Depth' = 2 => /\ stack'[1].fn = "threadExec" /\ stack'[1].at = "return"
                       /\ stack'[2].fn = "exec" /\ stack'[2].at = "begin"
                       /\ stack'[1].n = 0 /\ stack'[2].n = 0,
         FlagTypes', UNCHANGED <<eventLoops, mutex, dispatcherVars, queueVars, call>>
  PROVE  IInv'
<1> USE DEF IInv
<1>1. Len(eventLoops) = 0 /\ ~Draining /\ (canWait => pending = 0)
  BY NoLoopYet
<1>2. \A k \in 1 .. Depth' : k = 1 \/ k = 2
  OBVIOUS
<1>3. Len(stack') = Depth'
  BY DEF Depth
<1>4. TypeOK'
  BY LoopTypes, TypeAgain
<1>5. Shape(stack)' /\ SendsNest(stack)'
  <2>1. \A k \in 1 .. Depth' : /\ stack'[k].n = 0 /\ stack'[k].fn # "processEvents"
                               /\ stack'[k].fn = "threadExec" <=> k = 1
                               /\ stack'[k].fn = "threadExec" => stack'[k].at = "return"
                               /\ stack'[k].fn = "exec" => stack'[k].at = "begin"
                               /\ k < Depth' => stack'[k].at = "return"
    BY <1>2
  <2> QED
    BY <1>3, <2>1 DEF Shape, Callers, SendsNest
<1>6. LoopsCounted'
  <2>1. \A k \in 1 .. Depth' : ~(stack'[k].fn = "exec" /\ stack'[k].at # "begin")
    BY <1>2
  <2>2. Started(stack', Depth') = {}
    BY <2>1 DEF Started
  <2>3. LoopOf(stack', Depth') = 0
    BY <2>2, FS_EmptySet DEF LoopOf
  <2> QED
    BY <1>1, <2>3 DEF LoopsCounted
<1>7. QueueKnown'
  <2>1. \A k \in 1 .. Depth' : stack'[k].n <= pending
    BY <1>2 DEF TypeOK
  <2> QED
    BY <1>1, <2>1 DEF QueueKnown, queueVars
<1>8. WalksLoops' /\ QuitTold'
  BY <1>1, CallsKept DEF QuitTold
<1>9. ~Draining' /\ ~GoingToWait' /\ ~Fresh'
  <2>1. stack' # <<>> => Depth' = 2
    BY EmptySeq DEF Depth
  <2>2. stack' # <<>> => Top'.fn = "exec"
    BY <2>1 DEF Top
  <2> QED
    BY <2>2 DEF Draining, GoingToWait, Sampled, Fresh, In
<1>10. OneByte' /\ WaitersSignalled' /\ FreshSignalled'
  BY <1>1, <1>9, BytesKept DEF WaitersSignalled, FreshSignalled, dispatcherVars
<1>11. ExitsSeen'
  BY <1>1 DEF ExitsSeen
<1> QED
  BY <1>4, <1>5, <1>6, <1>7, <1>8, <1>10, <1>11 DEF StackInv

\* QThread::exec forgets quitNow; no loop runs yet.
LEMMA ThreadExecStep ==
  ASSUME IInv, ThreadExec
  PROVE  IInv'
<1>1. /\ stack = <<>> /\ quitNow' = FALSE /\ exited' \in BOOLEAN
      /\ UNCHANGED <<eventLoops, returnCode, mutex, dispatcherVars, queueVars, call>>
  BY DEF ThreadExec, callVars, IInv, TypeOK
<1>2. FlagTypes'
  BY <1>1 DEF IInv, TypeOK, FlagTypes, dispatcherVars, queueVars
<1>3. Depth = 0
  BY <1>1, EmptySeq DEF Depth
<1>4. CASE stack' = stack
  BY <1>1, <1>2, <1>3, <1>4, OutsideLoops DEF IInv, TypeOK, Depth
<1>5. CASE stack' # stack
  <2> DEFINE first == [NewFrame("threadExec") EXCEPT !.at = "return"]
             second == NewFrame("exec")
  <2>1. stack' = <<first, second>>
    BY <1>5 DEF ThreadExec
  <2>2. /\ first \in Frame /\ first.fn = "threadExec" /\ first.at = "return" /\ first.n = 0
        /\ second \in Frame /\ second.fn = "exec" /\ second.at = "begin" /\ second.n = 0
    BY DEF NewFrame, Frame
  <2> HIDE DEF first, second
  <2>3. stack' \in Seq(Frame) /\ Len(stack') = 2 /\ stack'[1] = first /\ stack'[2] = second
    BY <2>1, <2>2
  <2> QED
    BY <1>1, <1>2, <1>3, <2>2, <2>3, OutsideLoops DEF Depth
<1> QED
  BY <1>4, <1>5

\* QThread::exec returns when its loop has been left.
LEMMA ThreadExecEndStep ==
  ASSUME IInv, ThreadExecEnd
  PROVE  IInv'
<1>1. /\ stack # <<>> /\ Top.fn = "threadExec" /\ Pop
      /\ exited' = FALSE /\ returnCode' = NoCode
      /\ UNCHANGED <<eventLoops, quitNow, mutex, dispatcherVars, queueVars, call>>
  BY DEF ThreadExecEnd, In, callVars
<1>2. FlagTypes'
  BY <1>1 DEF IInv, TypeOK, FlagTypes, dispatcherVars, queueVars
<1>3. Depth = 1
  <2>1. Depth \in 1 .. Len(stack) /\ stack[Depth].fn = "threadExec"
    BY <1>1, TopFrame DEF IInv, Top, Depth
  <2> QED
    BY <2>1 DEF IInv, StackInv, Shape
<1>4. stack' \in Seq(Frame) /\ Depth' = Depth - 1
  BY <1>1, Popped DEF IInv
<1> QED
  BY <1>1, <1>2, <1>3, <1>4, OutsideLoops

-----------------------------------------------------------------------------
(* The invariant                                                           *)

\* The invariant holds initially.
LEMMA InitialInvariant ==
  ASSUME Init
  PROVE  IInv
<1> USE DEF Init
<1>1. Depth = 0 /\ Len(eventLoops) = 0
  BY EmptySeq DEF Depth
<1>2. TypeOK
  <2>1. NoCall \in CallType
    BY DEF NoCall, CallType
  <2>2. stack \in Seq(Frame) /\ eventLoops \in Seq(LoopType)
    BY EmptySeq
  <2>3. FlagTypes /\ CallTypes
    BY <2>1 DEF FlagTypes, CallTypes
  <2> QED
    BY <2>2, <2>3 DEF TypeOK, FlagTypes, CallTypes, CallType, LoopType
<1>3. StackInv
  <2>1. LoopOf(stack, 0) = 0
    BY LoopOfNext
  <2> QED
    BY <1>1, <2>1 DEF StackInv, Shape, SendsNest, LoopsCounted, Depth
<1>4. QueueKnown
  BY <1>1 DEF QueueKnown
<1>5. \A u \in Threads : call[u].fn = "none" /\ ~call[u].all /\ mutex # u
  BY LoopAssumption DEF NoCall, Threads
<1>6. WalksLoops /\ QuitTold
  BY <1>5 DEF WalksLoops, QuitTold
<1>7. ~Draining /\ ~GoingToWait /\ ~Fresh
  BY DEF Draining, GoingToWait, Sampled, Fresh, In
<1>8. OneByte
  BY <1>5, <1>7 DEF OneByte, Writers
<1> QED
  BY <1>1, <1>2, <1>3, <1>4, <1>6, <1>7, <1>8
     DEF IInv, WaitersSignalled, FreshSignalled, ExitsSeen

\* A step that changes nothing.
LEMMA InvariantStutters ==
  ASSUME IInv, UNCHANGED vars
  PROVE  IInv'
<1>1. /\ UNCHANGED <<stack, eventLoops, quitNow, exited, returnCode, mutex, interrupt,
                     wakeUps, pipe, canWait, pending, call>>
  BY DEF vars, threadVars, dispatcherVars, queueVars, callVars
<1>2. /\ TypeOK' = TypeOK /\ QueueKnown' = QueueKnown /\ WalksLoops' = WalksLoops
      /\ QuitTold' = QuitTold
  BY <1>1 DEF TypeOK, QueueKnown, WalksLoops, QuitTold, Told, Depth
<1>3. StackInv'
  BY <1>1, StackKept DEF IInv
<1>4. OneByte' = OneByte
  BY <1>1 DEF OneByte, Writers, Draining, In, Top, Depth
<1>5. WaitersSignalled' /\ FreshSignalled' /\ ExitsSeen'
  BY <1>1, SignalsKept DEF IInv, Signalled, WakeUpUnderWay, Interrupting
<1> QED
  BY <1>2, <1>3, <1>4, <1>5 DEF IInv

\* Every step keeps the invariant.
LEMMA InvariantStep ==
  ASSUME IInv, [Next]_vars
  PROVE  IInv'
<1>1. CASE ThreadExecEnd
  BY <1>1, ThreadExecEndStep
<1>2. CASE ExecQuitNow
  BY <1>2, ExecQuitNowStep
<1>3. CASE ExecBegin
  BY <1>3, ExecBeginStep
<1>4. CASE ExecTest
  BY <1>4, ExecTestStep
<1>5. CASE ExecLeave
  BY <1>5, ExecLeaveStep
<1>6. CASE DispatchBegin
  BY <1>6, DispatchBeginStep
<1>7. CASE SendBegin
  BY <1>7, SendBeginStep
<1>8. CASE Deliver
  BY <1>8, DeliverStep
<1>9. CASE HandlerReturn
  BY <1>9, HandlerReturnStep
<1>10. CASE Sample
  BY <1>10, SampleStep
<1>11. CASE TestInterrupt
  BY <1>11, InterruptedStep, NotInterruptedStep
<1>12. CASE SelectNothing
  BY <1>12, SelectNothingStep
<1>13. CASE SelectDrain
  BY <1>13, SelectDrainStep
<1>14. CASE SelectClear
  BY <1>14, SelectClearStep
<1>15. CASE ThreadExec
  BY <1>15, ThreadExecStep
<1>16. ASSUME NEW fn \in {"exec", "processEvents"}, Nest(fn)
       PROVE  IInv'
  BY <1>16, NestStep
<1>17. ASSUME NEW u \in Threads, CallStep(u)
       PROVE  IInv'
  BY <1>17, ExitNextStep, InterruptStep, WakeUpStep, WakeUpWriteStep DEF CallStep
<1>18. ASSUME NEW u \in Threads, Post(u)
       PROVE  IInv'
  BY <1>18, PostStep
<1>19. ASSUME NEW u \in Threads, NEW code \in Codes, ThreadExit(u, code)
       PROVE  IInv'
  BY <1>19, ThreadExitStep
<1>20. ASSUME NEW u \in Threads, NEW code \in Codes,
              NEW k \in 1 .. Len(eventLoops), LoopExit(u, k, code)
       PROVE  IInv'
  BY <1>20, LoopExitStep
<1>21. CASE UNCHANGED vars
  BY <1>21, InvariantStutters
<1>22. CASE LoopStep
  BY <1>1, <1>2, <1>3, <1>4, <1>5, <1>6, <1>7, <1>8, <1>9, <1>10, <1>11, <1>12,
     <1>13, <1>14, <1>22 DEF LoopStep
<1> QED
  BY <1>15, <1>16, <1>17, <1>18, <1>19, <1>20, <1>21, <1>22 DEF Next

\* The stack of calls, the flags and the bytes in the pipe agree, whatever the
\* threads do and however deep the loops nest.
THEOREM LoopsInvariance == Spec => []IInv
<1>1. IInv /\ [Next]_vars => IInv'
  BY InvariantStep
<1>2. Init => IInv
  BY InitialInvariant
<1> QED
  BY <1>1, <1>2, PTL DEF Spec

-----------------------------------------------------------------------------
(* What the invariant shows                                                *)

\* Every variable keeps its type.
THEOREM LoopTypeCorrect == Spec => []TypeOK
<1>1. IInv => TypeOK
  BY DEF IInv
<1> QED
  BY <1>1, LoopsInvariance, PTL

\* The dispatcher has drained exactly the byte that wakeUps stands for: its
\* testAndSetRelease(1, 0) does not fail and leaves nothing in the pipe.
THEOREM PipeDrainedOnce == Spec => []DrainedOnce
<1>1. IInv => DrainedOnce
  BY DEF IInv, OneByte, Draining, DrainedOnce
<1> QED
  BY <1>1, LoopsInvariance, PTL

\* A loop does not sleep on a posted event that nobody is about to wake it
\* for, as long as slots of aboutToBlock() run no nested loops and do not call
\* processEvents.
THEOREM PostsWakeLoops ==
  ASSUME ~MayNestInBlock
  PROVE  Spec => []PostWakesLoop
<1>1. ASSUME IInv, Blocked, ~WakeUpUnderWay
      PROVE  pending = 0
  <2>1. GoingToWait /\ ~(pipe > 0)
    BY <1>1 DEF Blocked, GoingToWait
  <2>2. ~(pending > 0) /\ pending \in Nat
    BY <1>1, <2>1 DEF IInv, WaitersSignalled, Signalled, TypeOK
  <2> QED
    BY <2>2
<1>2. IInv => PostWakesLoop
  BY <1>1 DEF PostWakesLoop
<1> QED
  BY <1>2, LoopsInvariance, PTL

\* QThread::exit leaves no loop of its thread that has not been told to exit,
\* whether the loop was entered before or while it went through them.
THEOREM QuitReachesLoops == Spec => []QuitReachesEveryLoop
<1>1. ASSUME IInv, quitNow, Free
      PROVE  \A k \in DOMAIN eventLoops : eventLoops[k].exit
  <2>1. \A u \in Threads : ~call[u].all
    BY <1>1, LoopAssumption DEF IInv, WalksLoops, Free, Threads
  <2>2. DOMAIN eventLoops = 1 .. Len(eventLoops)
    BY <1>1, LoopTypes, LenProperties DEF IInv
  <2> QED
    BY <1>1, <2>1, <2>2 DEF IInv, QuitTold
<1>2. IInv => QuitReachesEveryLoop
  BY <1>1 DEF QuitReachesEveryLoop
<1> QED
  BY <1>2, LoopsInvariance, PTL

\* A loop that was told to exit does not sleep, unless a nested call of
\* processEvents has reset interrupt since.
THEOREM ExitsWakeLoops == Spec => []ExitWakesLoop
<1>1. ASSUME IInv, Blocked, ~WakeUpUnderWay, eventLoops[Len(eventLoops)].exit
      PROVE  eventLoops[Len(eventLoops)].hidden
  <2>1. /\ Depth \in Nat /\ Depth \in 1 .. Len(stack) /\ stack[Depth] = Top
        /\ Top.fn = "processEvents" /\ Top.at = "select" /\ Top.waits /\ ~(pipe > 0)
    BY <1>1, TopFrame DEF IInv, Blocked, In, Top, Depth
  <2>2. ~Signalled /\ GoingToWait /\ ~Sampled
    BY <1>1, <2>1 DEF Signalled, Blocked, GoingToWait, Sampled, In
  <2>3. ~Interrupting
    BY <1>1, <2>2 DEF IInv, WaitersSignalled, Interrupting, WakeUpUnderWay
  <2>4. ~TestsNext
    BY <2>1 DEF TestsNext, Draining, In
  <2>5. stack[Depth - 1].fn = "exec" /\ Depth > 1
    <3>1. stack[Depth - 1].fn = "exec" /\ Depth # 1
      BY <1>1, <2>1 DEF IInv, StackInv, Shape
    <3> QED
      BY <2>1, <3>1
  <2>6. Len(eventLoops) \in 1 .. Len(eventLoops)
    <3>1. Depth - 2 \in Nat /\ (Depth - 2) + 1 = Depth - 1 /\ Depth - 1 \in Nat
          /\ (Depth - 1) + 1 = Depth /\ Depth - 1 \in 1 .. Len(stack) /\ Depth - 1 < Len(stack)
      BY <2>1, <2>5 DEF Depth
    <3>2. stack[Depth - 1].at # "begin"
      BY <1>1, <3>1 DEF IInv, StackInv, Shape, Callers
    <3>3. /\ LoopOf(stack, Depth - 2) \in Nat
          /\ LoopOf(stack, (Depth - 2) + 1) = LoopOf(stack, Depth - 2) + 1
      BY <2>5, <3>1, <3>2, LoopOfNext
    <3>4. LoopOf(stack, (Depth - 1) + 1) = LoopOf(stack, Depth - 1) + 0
      BY <2>1, <3>1, LoopOfNext
    <3> QED
      BY <1>1, <3>1, <3>3, <3>4 DEF IInv, StackInv, LoopsCounted
  <2> QED
    BY <1>1, <2>2, <2>3, <2>4, <2>6 DEF IInv, ExitsSeen
<1>2. IInv => ExitWakesLoop
  BY <1>1 DEF ExitWakesLoop
<1> QED
  BY <1>2, LoopsInvariance, PTL
=============================================================================
