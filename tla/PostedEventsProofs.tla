------------------------- MODULE PostedEventsProofs -------------------------
(***************************************************************************)
(* Proofs about PostedEvents, for any threads, objects and requests.       *)
(***************************************************************************)
EXTENDS PostedEventsProperties, SequenceTheorems, FiniteSetTheorems, TLAPS

(* Operators on lists.                                                     *)

LEMMA InsertProperties ==
  ASSUME NEW S, NEW l \in Seq(S), NEW k \in 0 .. Len(l), NEW e \in S
  PROVE  /\ Insert(l, k, e) \in Seq(S)
         /\ Len(Insert(l, k, e)) = Len(l) + 1
<1> DEFINE front == SubSeq(l, 1, k)
           back == SubSeq(l, k + 1, Len(l))
<1>1. Len(l) \in Nat /\ \A i \in 1 .. Len(l) : l[i] \in S
  BY LenProperties, ElementOfSeq
<1>2. front \in Seq(S) /\ Len(front) = k
  BY <1>1, SubSeqProperties
<1>3. back \in Seq(S) /\ Len(back) = Len(l) - k
  BY <1>1, SubSeqProperties
<1>4. <<e>> \in Seq(S) /\ Len(<<e>>) = 1
  OBVIOUS
<1>5. front \o <<e>> \in Seq(S) /\ Len(front \o <<e>>) = k + 1
  BY <1>2, <1>4, ConcatProperties
<1> DEFINE upTo == front \o <<e>>
<1>6. upTo \in Seq(S) /\ Len(upTo) = k + 1
  BY <1>5
<1> HIDE DEF front, back, upTo
<1>7. upTo \o back \in Seq(S) /\ Len(upTo \o back) = Len(upTo) + Len(back)
  BY <1>3, <1>6, ConcatProperties
<1>8. Len(upTo \o back) = Len(l) + 1
  BY <1>1, <1>3, <1>6, <1>7
<1> QED
  BY <1>7, <1>8 DEF Insert, upTo, front, back

\* The entries of a list with one more inserted.
LEMMA InsertedEntries ==
  ASSUME NEW S, NEW l \in Seq(S), NEW k \in 0 .. Len(l), NEW e \in S
  PROVE  /\ Len(Insert(l, k, e)) = Len(l) + 1
         /\ \A i \in 1 .. Len(l) + 1 :
              Insert(l, k, e)[i] = IF i <= k THEN l[i] ELSE IF i = k + 1 THEN e ELSE l[i - 1]
<1> DEFINE front == SubSeq(l, 1, k)
           back == SubSeq(l, k + 1, Len(l))
           upTo == front \o <<e>>
<1>1. Len(l) \in Nat /\ \A i \in 1 .. Len(l) : l[i] \in S
  BY LenProperties, ElementOfSeq
<1>2. front \in Seq(S) /\ Len(front) = k /\ \A i \in 1 .. k : front[i] = l[i]
  BY <1>1, SubSeqProperties
<1>3. back \in Seq(S) /\ Len(back) = Len(l) - k
      /\ \A i \in 1 .. Len(l) - k : back[i] = l[k + i]
  BY <1>1, SubSeqProperties
<1>4. <<e>> \in Seq(S) /\ Len(<<e>>) = 1 /\ <<e>>[1] = e
  OBVIOUS
<1> HIDE DEF front, back
<1>5. /\ upTo \in Seq(S) /\ Len(upTo) = k + 1
      /\ \A i \in 1 .. k : upTo[i] = front[i]
      /\ upTo[k + 1] = e
  BY <1>2, <1>4, ConcatProperties
<1> HIDE DEF upTo
<1>6. /\ Len(upTo \o back) = Len(l) + 1
      /\ \A i \in 1 .. Len(upTo) + Len(back) :
           (upTo \o back)[i] = IF i <= Len(upTo) THEN upTo[i] ELSE back[i - Len(upTo)]
  <2>1. /\ Len(upTo \o back) = Len(upTo) + Len(back)
        /\ \A i \in 1 .. Len(upTo) + Len(back) :
             (upTo \o back)[i] = IF i <= Len(upTo) THEN upTo[i] ELSE back[i - Len(upTo)]
    BY <1>3, <1>5, ConcatProperties
  <2>2. Len(upTo) + Len(back) = Len(l) + 1
    BY <1>1, <1>3, <1>5
  <2> QED
    BY <2>1, <2>2
<1>7. ASSUME NEW i \in 1 .. Len(l) + 1
      PROVE  (upTo \o back)[i] = IF i <= k THEN l[i] ELSE IF i = k + 1 THEN e ELSE l[i - 1]
  <2>1. (upTo \o back)[i] = IF i <= k + 1 THEN upTo[i] ELSE back[i - (k + 1)]
    <3>1. i \in 1 .. Len(upTo) + Len(back)
      BY <1>1, <1>3, <1>5
    <3> QED
      BY <1>5, <1>6, <3>1
  <2>2. CASE i <= k
    <3>1. i <= k + 1 /\ i \in 1 .. k
      BY <2>2
    <3> QED
      BY <1>2, <1>5, <2>1, <2>2, <3>1
  <2>3. CASE i = k + 1
    <3>1. ~(i <= k) /\ i <= k + 1
      BY <2>3
    <3> QED
      BY <1>5, <2>1, <2>3, <3>1
  <2>4. CASE i > k + 1
    <3>1. ~(i <= k) /\ i # k + 1 /\ ~(i <= k + 1) /\ i - (k + 1) \in 1 .. Len(l) - k
          /\ k + (i - (k + 1)) = i - 1
      BY <1>1, <2>4
    <3> QED
      BY <1>3, <2>1, <3>1
  <2>5. i <= k \/ i = k + 1 \/ i > k + 1
    BY <1>1
  <2> QED
    BY <2>2, <2>3, <2>4, <2>5
<1> QED
  BY <1>6, <1>7 DEF Insert, upTo, front, back

LEMMA AddPositionsBounded ==
  ASSUME NEW l \in Seq(Entry), NEW offset \in Nat, NEW p \in Int
  PROVE  AddPositions(l, offset, p) \subseteq 0 .. Len(l)
  BY LenProperties DEF AddPositions

LEMMA NulledType == ASSUME NEW p \in Int PROVE Nulled(p) \in Entry
  BY DEF Nulled, Entry

-----------------------------------------------------------------------------
(* The inductive invariant.  That the offsets stay within the list rests   *)
(* on who may shorten it: the end of a global send, which starts the       *)
(* offsets anew, and a removal outside any send, while they are 0.  So the *)
(* counter of sends must be right, and the mutex exclusive.                *)

\* The sets the variables are in.  That the counters are not negative and the
\* positions within the lists (TypeOK) takes the invariants below.
Typed ==
  /\ list \in [Threads -> Seq(Entry)]
  /\ startOffset \in [Threads -> Nat]
  /\ insertionOffset \in [Threads -> Int]
  /\ recursion \in [Threads -> Int]
  /\ canWait \in [Threads -> BOOLEAN]
  /\ loopLevel \in [Threads -> Int]
  /\ threadData \in [Objects -> Threads]
  /\ postedEvents \in [Objects -> Int]
  /\ alive \in [Objects -> BOOLEAN]
  /\ stack \in [Threads -> Seq(Frame)]
  /\ call \in [Threads -> Call]
  /\ \A t \in Threads : call[t] \in CallOf(t)
  /\ woken \subseteq Threads
  /\ lastEvent \in Nat

Sends(t) == {k \in 1 .. Len(stack[t]) : stack[t][k].fn = "send"}

\* Thread u holds the mutex of the list of t in a removal or a move.
Holds(u, t) == \/ call[u].fn = "removing" /\ call[u].data = t
               \/ call[u].fn = "moving" /\ t \in {call[u].data, call[u].to}

MutexExclusive ==
  \A t, u \in Threads : Holds(u, t) =>
    ~InSend(t, "scan") /\ \A v \in Threads : Holds(v, t) => v = u

\* A send that has called something is delivering an event.
LowerSendsDeliver ==
  \A t \in Threads : \A k \in 1 .. Len(stack[t]) - 1 :
    stack[t][k].fn = "send" => stack[t][k].at = "deliver"

\* Queue operations are called by application code only: outside every call,
\* in a handler or in a slot of the dispatcher.
InApplication(t) == stack[t] = <<>> \/ InSend(t, "deliver") \/ InSlot(t)

CalledByUserCode ==
  \A t \in Threads : call[t].fn # "none" => InApplication(t)

OffsetsInList ==
  \A t \in Threads : /\ startOffset[t] <= insertionOffset[t]
                     /\ startOffset[t] <= Len(list[t])

RecursionCountsSends == \A t \in Threads : recursion[t] = Cardinality(Sends(t))

OffsetOfGlobalSend ==
  \A t \in Threads : startOffset[t] # 0 =>
    \E k \in Sends(t) : Global(stack[t][k]) /\ stack[t][k].at # "enter"

RemovalInList ==
  \A t \in Threads :
    /\ call[t].fn = "remove" => call[t].i = 0 /\ call[t].j = 0
    /\ call[t].fn = "removing" =>
         call[t].j <= call[t].i /\ call[t].i <= Len(list[call[t].data])

IInv == /\ Typed /\ MutexExclusive /\ LowerSendsDeliver /\ CalledByUserCode
        /\ OffsetsInList /\ RecursionCountsSends /\ OffsetOfGlobalSend
        /\ RemovalInList

-----------------------------------------------------------------------------
(* Type correctness of the parts of a step.                                *)

LEMMA InitialType == Init => Typed
<1> SUFFICES ASSUME Init PROVE Typed
  OBVIOUS
<1>1. \A t \in Threads : Idle(t) \in Call /\ Idle(t) \in CallOf(t)
  BY ConstantsAssumption DEF Idle, Call, CallOf
<1>2. threadData \in [Objects -> Threads]
  BY ConstantsAssumption DEF Init
<1> QED
  BY <1>1, <1>2 DEF Init, Typed

\* The top of a stack is a frame, and the stack stays one of frames when it
\* is popped, pushed or replaced.
LEMMA TopType ==
  ASSUME Typed, NEW t \in Threads, stack[t] # <<>>
  PROVE  /\ Len(stack[t]) \in Nat \ {0}
         /\ Top(t) \in Frame
  BY EmptySeq, ElementOfSeq, LenProperties DEF Typed, Top

LEMMA StackType ==
  ASSUME Typed, NEW t \in Threads
  PROVE  /\ \A f \in Frame : Push(t, f) \in [Threads -> Seq(Frame)]
         /\ Len(stack[t]) \in Nat
         /\ \A n \in 0 .. Len(stack[t]) : SubSeq(stack[t], 1, n) \in Seq(Frame)
         /\ stack[t] # <<>> =>
              /\ Pop(t) \in [Threads -> Seq(Frame)]
              /\ \A f \in Frame : Becomes(t, f) \in [Threads -> Seq(Frame)]
<1>1. stack[t] \in Seq(Frame) /\ Len(stack[t]) \in Nat
  BY LenProperties DEF Typed
<1>2. ASSUME NEW f \in Frame PROVE Push(t, f) \in [Threads -> Seq(Frame)]
  BY <1>1 DEF Push, Typed
<1>3. ASSUME NEW n \in 0 .. Len(stack[t])
      PROVE  SubSeq(stack[t], 1, n) \in Seq(Frame)
  BY <1>1, SubSeqProperties, ElementOfSeq
<1>4. ASSUME stack[t] # <<>>
      PROVE  /\ Pop(t) \in [Threads -> Seq(Frame)]
             /\ \A f \in Frame : Becomes(t, f) \in [Threads -> Seq(Frame)]
  <2>1. Len(stack[t]) \in 1 .. Len(stack[t]) /\ Len(stack[t]) - 1 \in 0 .. Len(stack[t])
    BY <1>1, <1>4, EmptySeq
  <2>2. SubSeq(stack[t], 1, Len(stack[t]) - 1) \in Seq(Frame)
    BY <1>3, <2>1
  <2>3. \A f \in Frame : [stack[t] EXCEPT ![Len(stack[t])] = f] \in Seq(Frame)
    BY <1>1, <2>1, ExceptSeq
  <2> QED
    BY <2>2, <2>3 DEF Pop, Becomes, Typed
<1> QED
  BY <1>1, <1>2, <1>3, <1>4

LEMMA FrameTypes ==
  /\ LoopFrame("exec") \in Frame /\ LoopFrame("process") \in Frame
  /\ \A r \in Objects \cup {None}, ty \in Types \cup {Any} : SendFrame(r, ty) \in Frame
  /\ Nulled(0) \in Entry
  BY NulledType DEF LoopFrame, SendFrame, Frame

LEMMA CallTypes ==
  ASSUME Typed, NEW t \in Threads
  PROVE  /\ Idle(t) \in Call /\ Idle(t) \in CallOf(t)
         /\ call[t] \in Call /\ call[t] \in CallOf(t)
         /\ \A r \in Objects \cup {None}, ty \in Types \cup {Any} :
              RemoveCall(t, r, ty) \in CallOf(t)
<1>1. Idle(t) \in Call /\ Idle(t) \in CallOf(t)
  BY ConstantsAssumption DEF Idle, Call, CallOf
<1>2. \A r \in Objects \cup {None} : (IF r = None THEN t ELSE threadData[r]) \in Threads
  BY DEF Typed
<1>3. \A r \in Objects \cup {None}, ty \in Types \cup {Any} : RemoveCall(t, r, ty) \in CallOf(t)
  BY <1>2, ConstantsAssumption DEF RemoveCall, Idle, Call, CallOf
<1> QED
  BY <1>1, <1>3 DEF Typed

LEMMA OffsetTypes ==
  ASSUME Typed, OffsetsInList, NEW t \in Threads
  PROVE  /\ list[t] \in Seq(Entry) /\ Len(list[t]) \in Nat
         /\ \A k \in 1 .. Len(list[t]) : list[t][k] \in Entry
         /\ insertionOffset[t] \in Nat /\ startOffset[t] \in Nat
         /\ startOffset[t] <= insertionOffset[t] /\ startOffset[t] <= Len(list[t])
  BY LenProperties, ElementOfSeq DEF Typed, OffsetsInList

LEMMA CanWaitType ==
  ASSUME Typed, NEW t, NEW waits \in BOOLEAN
  PROVE  [canWait EXCEPT ![t] = waits] \in [Threads -> BOOLEAN]
  BY Zenon DEF Typed

LEMMA MayNotWaitType ==
  ASSUME Typed, NEW t
  PROVE  MayNotWait(t) \in [Threads -> BOOLEAN]
  BY CanWaitType DEF MayNotWait

LEMMA CountType ==
  ASSUME Typed, NEW r
  PROVE  /\ [postedEvents EXCEPT ![r] = @ + 1] \in [Objects -> Int]
         /\ Uncounted(r) \in [Objects -> Int]
<1>1. CASE r \in Objects
  BY <1>1 DEF Uncounted, Typed
<1>2. CASE r \notin Objects
  BY <1>2 DEF Uncounted, Typed
<1> QED
  BY <1>1, <1>2

\* The step of a thread inside an operation leaves the calls typed.
LEMMA CallType ==
  ASSUME Typed, NEW t \in Threads, NEW c \in CallOf(t),
         call' = [call EXCEPT ![t] = c]
  PROVE  /\ call' \in [Threads -> Call]
         /\ \A u \in Threads : call'[u] \in CallOf(u)
  BY DEF Typed, CallOf

-----------------------------------------------------------------------------
(* Every action preserves the types.                                       *)

LEMMA PostedEntryType ==
  ASSUME Typed, NEW t \in Threads
  PROVE  PostedEntry(t, call[t]) \in Entry
<1>1. call[t].priority \in Int /\ call[t].receiver \in Objects \cup {None}
      /\ call[t].type \in Types \cup {Any}
  BY CallTypes DEF Call
<1>2. Running(t) \in Nat
  <2>1. CASE InSend(t, "deliver")
    <3>1. Top(t) \in Frame
      BY <2>1, TopType DEF InSend
    <3> QED
      BY <3>1 DEF Running, Frame, Entry
  <2> QED
    BY <2>1 DEF Running
<1> QED
  BY <1>1, <1>2 DEF PostedEntry, Entry, Typed

\* A queue operation shortens a list only when a removal ends.
NotShortened == \A u \in Threads : Len(list[u]) <= Len(list'[u])

LEMMA PostType ==
  ASSUME Typed, OffsetsInList, NEW t \in Threads, Post(t)
  PROVE  Typed'
<1> USE DEF queueVars, objectVars, dataVars
<1>1. /\ Idle(t) \in Call /\ Idle(t) \in CallOf(t)
      /\ call[t] \in Call /\ call[t] \in CallOf(t)
  BY CallTypes
<1>2. ASSUME NEW r \in Objects, NEW p \in Priorities, NEW ty \in Types,
             PostBegin(t, r, ty, p)
      PROVE  Typed'
  <2> DEFINE c == [Idle(t) EXCEPT !.fn = "post", !.receiver = r, !.type = ty,
                                  !.priority = p, !.data = threadData[r]]
  <2>1. c \in CallOf(t)
    BY <1>1, ConstantsAssumption DEF Typed, Call, CallOf
  <2>2. call' = [call EXCEPT ![t] = c]
    BY <1>2 DEF PostBegin
  <2> HIDE DEF c
  <2> QED
    BY <1>2, <2>1, <2>2, CallType DEF PostBegin, Typed
<1>3. CASE PostFollow(t)
  <2> DEFINE c == [call[t] EXCEPT !.data = threadData[call[t].receiver]]
  <2>0. call[t].fn = "post"
    BY <1>3 DEF PostFollow
  <2>1. call[t].receiver \in Objects
    <3>1. call[t].receiver # None
      BY <1>1, <2>0 DEF CallOf
    <3> QED
      BY <1>1, <3>1 DEF Call
  <2>2. c \in CallOf(t)
    BY <1>1, <1>3, <2>1 DEF PostFollow, Typed, Call, CallOf
  <2>3. call' = [call EXCEPT ![t] = c] /\ UNCHANGED <<dataVars, stack, woken>>
    BY <1>3 DEF PostFollow
  <2> HIDE DEF c
  <2> QED
    BY <2>2, <2>3, CallType DEF Typed
<1>4. CASE PostCompress(t)
  BY <1>1, <1>4, CallType DEF PostCompress, Typed
<1>5. CASE PostAdd(t)
  <2> DEFINE u == call[t].data
             e == PostedEntry(t, call[t])
             c == [Idle(t) EXCEPT !.fn = "wake", !.data = u]
  <2>1. u \in Threads /\ call[t].priority \in Int
        /\ call[t].receiver \in Objects \cup {None} /\ call[t].type \in Types \cup {Any}
    BY <1>1 DEF Call
  <2>2. c \in CallOf(t)
    BY <1>1, <2>1 DEF Call, CallOf
  <2>4. e \in Entry
    BY PostedEntryType
  <2>5. PICK k \in AddPositions(list[u], insertionOffset[u], call[t].priority) :
          list' = [list EXCEPT ![u] = Insert(@, k, e)]
    BY <1>5 DEF PostAdd
  <2>6. list[u] \in Seq(Entry) /\ insertionOffset[u] \in Nat
    BY <2>1, OffsetTypes
  <2>7. Insert(list[u], k, e) \in Seq(Entry)
    BY <2>1, <2>4, <2>6, AddPositionsBounded, InsertProperties
  <2>8. list' \in [Threads -> Seq(Entry)]
    BY <2>5, <2>7 DEF Typed
  <2>9. call' = [call EXCEPT ![t] = c]
    BY <1>5 DEF PostAdd
  <2>10. /\ lastEvent' = lastEvent + 1 /\ canWait' = MayNotWait(u)
         /\ postedEvents' = [postedEvents EXCEPT ![call[t].receiver] = @ + 1]
         /\ UNCHANGED <<startOffset, insertionOffset, recursion, threadData, alive,
                        loopLevel, stack, woken>>
    BY <1>5 DEF PostAdd
  <2> HIDE DEF c, u
  <2>11. canWait' \in [Threads -> BOOLEAN]
    BY <2>10, MayNotWaitType
  <2>13. postedEvents' \in [Objects -> Int]
    BY <2>10, CountType
  <2>14. lastEvent' \in Nat
    BY <2>10 DEF Typed
  <2>12. /\ call' \in [Threads -> Call]
         /\ \A v \in Threads : call'[v] \in CallOf(v)
    BY <2>2, <2>9, CallType
  <2> QED
    BY <2>8, <2>10, <2>11, <2>12, <2>13, <2>14 DEF Typed
<1>6. CASE PostWakeUp(t)
  BY <1>1, <1>6, CallType DEF PostWakeUp, Typed, Call
<1> QED
  BY <1>2, <1>3, <1>4, <1>5, <1>6 DEF Post

LEMMA CurrentType ==
  ASSUME Typed, NEW t \in Threads, Scanning(t)
  PROVE  /\ stack[t] # <<>> /\ Top(t) \in Frame /\ Position(t, Top(t)) \in Nat
         /\ Position(t, Top(t)) < insertionOffset[t]
         /\ At(t) \in 1 .. Len(list[t]) /\ Current(t) \in Entry
<1>1. stack[t] # <<>> /\ Position(t, Top(t)) < Len(list[t])
      /\ Position(t, Top(t)) < insertionOffset[t]
  BY DEF Scanning, InSend
<1>2. Top(t) \in Frame
  BY <1>1, TopType
<1>3. Position(t, Top(t)) \in Nat
  BY <1>2 DEF Position, Frame, Typed
<1>4. list[t] \in Seq(Entry) /\ Len(list[t]) \in Nat
  BY LenProperties DEF Typed
<1>5. At(t) \in 1 .. Len(list[t])
  BY <1>1, <1>3, <1>4 DEF At
<1> QED
  BY <1>1, <1>2, <1>3, <1>4, <1>5, ElementOfSeq DEF Current

LEMMA AdvanceType ==
  ASSUME Typed, NEW t \in Threads, stack[t] # <<>>, NEW f \in Frame, Advance(t, f)
  PROVE  /\ startOffset' \in [Threads -> Nat]
         /\ stack' \in [Threads -> Seq(Frame)]
<1>1. CASE Global(f)
  <2>1. startOffset' = [startOffset EXCEPT ![t] = @ + 1] /\ stack' = Becomes(t, f)
    BY <1>1 DEF Advance
  <2>2. startOffset' \in [Threads -> Nat]
    BY <2>1 DEF Typed
  <2> QED
    BY <2>1, <2>2, StackType
<1>2. CASE ~Global(f)
  <2>1. [f EXCEPT !.i = @ + 1] \in Frame
    BY DEF Frame
  <2>2. startOffset' = startOffset /\ stack' = Becomes(t, [f EXCEPT !.i = @ + 1])
    BY <1>2 DEF Advance
  <2> QED
    BY <2>1, <2>2, StackType DEF Typed
<1> QED
  BY <1>1, <1>2

LEMMA CleanUpType ==
  ASSUME Typed, OffsetsInList, NEW t \in Threads, NEW waits \in BOOLEAN,
         CleanUp(t, waits)
  PROVE  /\ canWait' \in [Threads -> BOOLEAN] /\ recursion' \in [Threads -> Int]
         /\ woken' \subseteq Threads
         /\ list' \in [Threads -> Seq(Entry)] /\ startOffset' \in [Threads -> Nat]
         /\ insertionOffset' \in [Threads -> Int]
<1>1. canWait' \in [Threads -> BOOLEAN]
  BY CanWaitType DEF CleanUp
<1>2. recursion' \in [Threads -> Int] /\ woken' \subseteq Threads
  BY DEF CleanUp, Typed
<1>3. CASE Global(Top(t))
  <2>1. SubSeq(list[t], startOffset[t] + 1, Len(list[t])) \in Seq(Entry)
    BY OffsetTypes, SubSeqProperties
  <2>2. list' = [list EXCEPT ![t] = SubSeq(@, startOffset[t] + 1, Len(@))]
        /\ insertionOffset' = [insertionOffset EXCEPT ![t] = InsertionLeft(t)]
        /\ startOffset' = [startOffset EXCEPT ![t] = 0]
    BY <1>3 DEF CleanUp
  <2>3. InsertionLeft(t) \in Int
    BY DEF InsertionLeft, Typed
  <2> QED
    BY <1>1, <1>2, <2>1, <2>2, <2>3 DEF Typed
<1>4. CASE ~Global(Top(t))
  BY <1>1, <1>2, <1>4 DEF CleanUp, Typed
<1> QED
  BY <1>3, <1>4

\* What an exception unwinds: the send and the loop that called it.
LEMMA ThrownStack ==
  ASSUME Typed, NEW t \in Threads, HandlerThrow(t)
  PROVE  \E n \in 0 .. Len(stack[t]) :
           /\ stack' = [stack EXCEPT ![t] = SubSeq(@, 1, n)] /\ n < Len(stack[t])
           /\ \A k \in n + 1 .. Len(stack[t]) - 1 : stack[t][k].fn # "send"
<1>1. Len(stack[t]) \in Nat \ {0} /\ (Len(stack[t]) - 1 > 0 <=> Len(stack[t]) > 1)
  BY TopType DEF HandlerThrow, InSend
<1> DEFINE below == IF Len(stack[t]) - 1 > 0 /\ stack[t][Len(stack[t]) - 1].at = "check"
                      THEN stack[t][Len(stack[t]) - 1].fn ELSE "send"
<1>0. stack' = [stack EXCEPT ![t] = SubSeq(@, 1, Len(@) - (IF below = "send" THEN 1 ELSE 2))]
  BY DEF HandlerThrow
<1>2. CASE /\ Len(stack[t]) > 1 /\ stack[t][Len(stack[t]) - 1].at = "check"
           /\ stack[t][Len(stack[t]) - 1].fn # "send"
  <2>1. stack' = [stack EXCEPT ![t] = SubSeq(@, 1, Len(@) - 2)]
    BY <1>0, <1>1, <1>2
  <2>2. Len(stack[t]) - 2 \in 0 .. Len(stack[t]) /\ Len(stack[t]) - 2 < Len(stack[t])
    BY <1>1, <1>2
  <2>3. stack' = [stack EXCEPT ![t] = SubSeq(@, 1, Len(stack[t]) - 2)]
    BY <2>1 DEF Typed
  <2>4. \A k \in Len(stack[t]) - 2 + 1 .. Len(stack[t]) - 1 : k = Len(stack[t]) - 1
    BY <1>1
  <2> DEFINE n == Len(stack[t]) - 2
  <2>5. /\ n \in 0 .. Len(stack[t]) /\ n < Len(stack[t])
        /\ stack' = [stack EXCEPT ![t] = SubSeq(@, 1, n)]
        /\ \A k \in n + 1 .. Len(stack[t]) - 1 : stack[t][k].fn # "send"
    BY <1>2, <2>2, <2>3, <2>4
  <2> HIDE DEF n
  <2> QED
    BY <2>5
<1>3. CASE ~(/\ Len(stack[t]) > 1 /\ stack[t][Len(stack[t]) - 1].at = "check"
             /\ stack[t][Len(stack[t]) - 1].fn # "send")
  <2>1. stack' = [stack EXCEPT ![t] = SubSeq(@, 1, Len(@) - 1)]
    BY <1>0, <1>1, <1>3
  <2>2. Len(stack[t]) - 1 \in 0 .. Len(stack[t]) /\ Len(stack[t]) - 1 < Len(stack[t])
    BY <1>1
  <2>3. stack' = [stack EXCEPT ![t] = SubSeq(@, 1, Len(stack[t]) - 1)]
    BY <2>1 DEF Typed
  <2>4. Len(stack[t]) - 1 + 1 .. Len(stack[t]) - 1 = {}
    BY <1>1
  <2> QED
    BY <2>2, <2>3, <2>4
<1> QED
  BY <1>2, <1>3

LEMMA SendType ==
  ASSUME Typed, OffsetsInList, NEW t \in Threads, Send(t)
  PROVE  Typed'
<1> USE DEF queueVars, objectVars, dataVars
<1>1. ASSUME NEW r \in Objects \cup {None}, NEW ty \in Types \cup {Any},
             SendBegin(t, r, ty)
      PROVE  Typed'
  <2>1. stack' \in [Threads -> Seq(Frame)]
    BY <1>1, StackType, FrameTypes DEF SendBegin
  <2>2. recursion' \in [Threads -> Int]
    BY <1>1 DEF SendBegin, Typed
  <2> QED
    BY <1>1, <2>1, <2>2 DEF SendBegin, Typed
<1>2. CASE SendNothing(t)
  <2>1. stack' \in [Threads -> Seq(Frame)]
    BY <1>2, StackType DEF SendNothing, InSend
  <2>2. canWait' \in [Threads -> BOOLEAN]
    BY <1>2, CanWaitType DEF SendNothing
  <2>3. recursion' \in [Threads -> Int]
    BY <1>2 DEF SendNothing, Typed
  <2> QED
    BY <1>2, <2>1, <2>2, <2>3 DEF SendNothing, Typed
<1>3. CASE SendStart(t)
  <2>1. stack[t] # <<>> /\ Top(t) \in Frame
    BY <1>3, TopType DEF SendStart, InSend
  <2>2. [Top(t) EXCEPT !.at = "scan", !.i = startOffset[t]] \in Frame
    BY <2>1 DEF Frame, Typed
  <2>3. stack' \in [Threads -> Seq(Frame)]
    BY <1>3, <2>1, <2>2, StackType DEF SendStart
  <2>4. canWait' \in [Threads -> BOOLEAN]
    BY <1>3, CanWaitType DEF SendStart
  <2>5. insertionOffset' \in [Threads -> Int]
    BY <1>3, OffsetTypes DEF SendStart, Typed
  <2> QED
    BY <1>3, <2>3, <2>4, <2>5 DEF SendStart, Typed
<1>4. CASE ScanNull(t)
  <2>1. startOffset' \in [Threads -> Nat] /\ stack' \in [Threads -> Seq(Frame)]
    BY <1>4, CurrentType, AdvanceType DEF ScanNull
  <2> QED
    BY <1>4, <2>1 DEF ScanNull, Typed
<1>5. CASE ScanOther(t)
  <2>1. startOffset' \in [Threads -> Nat] /\ stack' \in [Threads -> Seq(Frame)]
    BY <1>5, CurrentType, AdvanceType DEF ScanOther
  <2>2. canWait' \in [Threads -> BOOLEAN]
    BY <1>5, MayNotWaitType DEF ScanOther
  <2> QED
    BY <1>5, <2>1, <2>2 DEF ScanOther, Typed
<1>6. CASE ScanHold(t)
  <2> DEFINE e == Current(t)
             l == [list[t] EXCEPT ![At(t)] = Nulled(e.priority)]
  <2>1. e \in Entry /\ e.priority \in Int /\ At(t) \in 1 .. Len(list[t])
    BY <1>6, CurrentType DEF ScanHold, Entry
  <2>2. l \in Seq(Entry)
    BY <2>1, OffsetTypes, NulledType, ExceptSeq
  <2>3. startOffset' \in [Threads -> Nat] /\ stack' \in [Threads -> Seq(Frame)]
    BY <1>6, CurrentType, AdvanceType DEF ScanHold
  <2>4. list' \in [Threads -> Seq(Entry)]
    <3>1. CASE Global(Top(t))
      <4>1. PICK k \in AddPositions(l, insertionOffset[t], e.priority) :
              list' = [list EXCEPT ![t] = Insert(l, k, e)]
        BY <1>6, <3>1 DEF ScanHold
      <4> HIDE DEF l, e
      <4>2. k \in 0 .. Len(l)
        BY <2>1, <2>2, OffsetTypes, AddPositionsBounded
      <4>3. Insert(l, k, e) \in Seq(Entry)
        BY <2>1, <2>2, <4>2, InsertProperties
      <4> QED
        BY <4>1, <4>3 DEF Typed
    <3>2. CASE ~Global(Top(t))
      BY <1>6, <3>2 DEF ScanHold, Typed
    <3> QED
      BY <3>1, <3>2
  <2> QED
    BY <1>6, <2>3, <2>4 DEF ScanHold, Typed
<1>7. CASE ScanDeliver(t)
  <2> DEFINE e == Current(t)
  <2>1. /\ e \in Entry /\ e.priority \in Int /\ At(t) \in 1 .. Len(list[t])
        /\ stack[t] # <<>> /\ Top(t) \in Frame
    BY <1>7, CurrentType DEF ScanDeliver, Entry
  <2>2. [list[t] EXCEPT ![At(t)] = Nulled(e.priority)] \in Seq(Entry)
    BY <2>1, OffsetTypes, NulledType, ExceptSeq
  <2>3. [Top(t) EXCEPT !.at = "deliver", !.event = e] \in Frame
    BY <2>1 DEF Frame
  <2>4. startOffset' \in [Threads -> Nat] /\ stack' \in [Threads -> Seq(Frame)]
    BY <1>7, <2>1, <2>3, AdvanceType DEF ScanDeliver
  <2>5. list' \in [Threads -> Seq(Entry)]
    BY <1>7, <2>2 DEF ScanDeliver, Typed
  <2>6. postedEvents' \in [Objects -> Int]
    BY <1>7, CountType DEF ScanDeliver
  <2>7. loopLevel' \in [Threads -> Int]
    BY <1>7 DEF ScanDeliver, Typed
  <2> QED
    BY <1>7, <2>4, <2>5, <2>6, <2>7 DEF ScanDeliver, Typed
<1>8. CASE HandlerReturn(t)
  <2>1. stack[t] # <<>> /\ Top(t) \in Frame
    BY <1>8, TopType DEF HandlerReturn, InSend
  <2>2. [Top(t) EXCEPT !.at = "scan", !.event = Nulled(0)] \in Frame
    BY <2>1, FrameTypes DEF Frame
  <2>3. stack' \in [Threads -> Seq(Frame)]
    BY <1>8, <2>1, <2>2, StackType DEF HandlerReturn
  <2>4. loopLevel' \in [Threads -> Int]
    BY <1>8 DEF HandlerReturn, Typed
  <2> QED
    BY <1>8, <2>3, <2>4 DEF HandlerReturn, Typed
<1>9. CASE HandlerThrow(t)
  <2>1. CleanUp(t, FALSE) /\ stack[t] # <<>>
    BY <1>9 DEF HandlerThrow, InSend
  <2>2. Len(stack[t]) \in Nat \ {0}
    BY <2>1, TopType
  <2>3. PICK n \in 0 .. Len(stack[t]) :
          stack' = [stack EXCEPT ![t] = SubSeq(@, 1, n)]
    BY <1>9, ThrownStack
  <2>4. stack' \in [Threads -> Seq(Frame)]
    BY <2>3, StackType DEF Typed
  <2>5. \E m \in {1, 2} : loopLevel' = [loopLevel EXCEPT ![t] = @ - m]
    BY <1>9 DEF HandlerThrow
  <2>6. loopLevel' \in [Threads -> Int]
    BY <2>5 DEF Typed
  <2>7. UNCHANGED <<objectVars, lastEvent, call>>
    BY <1>9 DEF HandlerThrow
  <2> QED
    BY <2>1, <2>4, <2>6, <2>7, CleanUpType DEF Typed
<1>10. CASE SendEnd(t)
  <2>1. CleanUp(t, canWait[t]) /\ canWait[t] \in BOOLEAN /\ stack[t] # <<>>
    BY <1>10 DEF SendEnd, InSend, Typed
  <2>2. stack' \in [Threads -> Seq(Frame)]
    BY <1>10, <2>1, StackType DEF SendEnd
  <2>3. UNCHANGED <<objectVars, loopLevel, lastEvent, call>>
    BY <1>10 DEF SendEnd
  <2> QED
    BY <2>1, <2>2, <2>3, CleanUpType DEF Typed
<1>11. ASSUME NEW q \in SendRequests, SendBegin(t, q[1], q[2]) PROVE Typed'
  BY <1>1, <1>11, ConstantsAssumption
<1> QED
  BY <1>2, <1>3, <1>4, <1>5, <1>6, <1>7, <1>8, <1>9, <1>10, <1>11 DEF Send

LEMMA LoopType ==
  ASSUME Typed, NEW t \in Threads, Loop(t)
  PROVE  Typed'
<1> USE DEF queueVars, objectVars, dataVars
<1>1. ASSUME NEW fn \in {"exec", "process"}, LoopBegin(t, fn) PROVE Typed'
  <2>1. stack' \in [Threads -> Seq(Frame)]
    BY <1>1, StackType, FrameTypes DEF LoopBegin
  <2>2. \E n \in {0, 1} : loopLevel' = [loopLevel EXCEPT ![t] = @ + n]
    BY <1>1 DEF LoopBegin
  <2>3. loopLevel' \in [Threads -> Int]
    BY <2>2 DEF Typed
  <2> QED
    BY <1>1, <2>1, <2>3 DEF LoopBegin, Typed
<1>2. CASE LoopSend(t)
  <2> DEFINE n == Len(stack[t])
             f == [stack[t][n] EXCEPT !.at = "check"]
             below == [stack[t] EXCEPT ![n] = f]
  <2>1. stack[t] # <<>> /\ Top(t) \in Frame /\ n \in Nat \ {0}
    BY <1>2, TopType DEF LoopSend, InLoop
  <2>2. f \in Frame /\ n \in 1 .. n
    BY <2>1 DEF Top, Frame
  <2>3. below \in Seq(Frame)
    BY <2>2, ExceptSeq DEF Typed
  <2>4. SendFrame(None, Any) \in Frame
    BY FrameTypes
  <2>5. Append(below, SendFrame(None, Any)) \in Seq(Frame)
    BY <2>3, <2>4, AppendProperties
  <2>6. stack' = [stack EXCEPT ![t] = Append(below, SendFrame(None, Any))]
    BY <1>2 DEF LoopSend, Typed
  <2>7. stack' \in [Threads -> Seq(Frame)]
    BY <2>5, <2>6 DEF Typed
  <2>8. recursion' \in [Threads -> Int]
    BY <1>2 DEF LoopSend, Typed
  <2> QED
    BY <1>2, <2>7, <2>8 DEF LoopSend, Typed
<1>3. CASE LoopCheck(t)
  <2>1. stack[t] # <<>> /\ Top(t) \in Frame
    BY <1>3, TopType DEF LoopCheck, InLoop
  <2>2. PICK a \in {"block", "poll"} : stack' = Becomes(t, [Top(t) EXCEPT !.at = a])
    BY <1>3 DEF LoopCheck
  <2>3. [Top(t) EXCEPT !.at = a] \in Frame
    BY <2>1 DEF Frame
  <2>4. stack' \in [Threads -> Seq(Frame)]
    BY <2>1, <2>2, <2>3, StackType
  <2> QED
    BY <1>3, <2>4 DEF LoopCheck, Typed
<1>4. CASE LoopSelect(t)
  <2>1. stack[t] # <<>> /\ Top(t) \in Frame
    BY <1>4, TopType DEF LoopSelect, InLoop
  <2>2. [Top(t) EXCEPT !.at = "test"] \in Frame
    BY <2>1 DEF Frame
  <2>3. stack' \in {Becomes(t, [Top(t) EXCEPT !.at = "test"]), Pop(t)}
    BY <1>4 DEF LoopSelect
  <2>4. stack' \in [Threads -> Seq(Frame)]
    BY <2>1, <2>2, <2>3, StackType
  <2> QED
    BY <1>4, <2>4 DEF LoopSelect, Typed
<1>5. CASE LoopEnd(t)
  <2>1. stack' \in [Threads -> Seq(Frame)]
    BY <1>5, StackType DEF LoopEnd, InLoop
  <2>2. loopLevel' \in [Threads -> Int]
    BY <1>5 DEF LoopEnd, Typed
  <2> QED
    BY <1>5, <2>1, <2>2 DEF LoopEnd, Typed
<1>6. CASE LoopAwake(t) \/ LoopBlock(t)
  <2>1. stack[t] # <<>> /\ Top(t) \in Frame
    BY <1>6, TopType DEF LoopAwake, LoopBlock, InLoop
  <2>2. PICK a \in {"awake", "wait"} : stack' = Becomes(t, [Top(t) EXCEPT !.at = a])
    BY <1>6 DEF LoopAwake, LoopBlock
  <2>3. [Top(t) EXCEPT !.at = a] \in Frame
    BY <2>1 DEF Frame
  <2>4. stack' \in [Threads -> Seq(Frame)]
    BY <2>1, <2>2, <2>3, StackType
  <2> QED
    BY <1>6, <2>4 DEF LoopAwake, LoopBlock, Typed
<1> QED
  BY <1>1, <1>2, <1>3, <1>4, <1>5, <1>6 DEF Loop

\* The indices of a removal or a move advance.
LEMMA AdvancedCallType ==
  ASSUME NEW t, NEW c \in CallOf(t)
  PROVE  /\ [c EXCEPT !.i = @ + 1] \in CallOf(t)
         /\ \A n \in Nat : [c EXCEPT !.i = @ + 1, !.j = @ + n] \in CallOf(t)
<1>1. c \in Call /\ c.i + 1 \in Nat /\ \A n \in Nat : c.j + n \in Nat
  BY DEF Call, CallOf
<1>2. [c EXCEPT !.i = c.i + 1] \in CallOf(t)
  BY <1>1 DEF Call, CallOf
<1>3. ASSUME NEW n \in Nat PROVE [c EXCEPT !.i = c.i + 1, !.j = c.j + n] \in CallOf(t)
  BY <1>1 DEF Call, CallOf
<1> QED
  BY <1>2, <1>3

\* What a removal looks at and exchanges.
LEMMA RemovingType ==
  ASSUME Typed, RemovalInList, NEW t \in Threads, Removing(t)
  PROVE  /\ call[t].data \in Threads /\ call[t].i \in Nat /\ call[t].j \in Nat
         /\ list[call[t].data] \in Seq(Entry)
         /\ Len(list[call[t].data]) \in Nat
         /\ call[t].i + 1 \in 1 .. Len(list[call[t].data])
         /\ call[t].j + 1 \in 1 .. Len(list[call[t].data])
         /\ \A k \in 1 .. Len(list[call[t].data]) : list[call[t].data][k] \in Entry
<1>1. call[t].data \in Threads /\ call[t].i \in Nat /\ call[t].j \in Nat
  BY CallTypes DEF Call
<1>2. list[call[t].data] \in Seq(Entry)
  BY <1>1 DEF Typed
<1>3. Len(list[call[t].data]) \in Nat
  BY <1>2, LenProperties
<1>4. call[t].j <= call[t].i /\ call[t].i < Len(list[call[t].data])
  BY DEF RemovalInList, Removing
<1> QED
  BY <1>1, <1>2, <1>3, <1>4, ElementOfSeq

LEMMA RemoveType ==
  ASSUME Typed, OffsetsInList, RemovalInList, NEW t \in Threads, Remove(t)
  PROVE  Typed'
<1> USE DEF queueVars, objectVars, dataVars
<1> DEFINE u == call[t].data
           i == call[t].i + 1
           j == call[t].j + 1
<1>0. call[t] \in Call /\ call[t] \in CallOf(t) /\ Idle(t) \in Call /\ Idle(t) \in CallOf(t)
  BY CallTypes
<1>1. ASSUME NEW r \in Objects \cup {None}, NEW ty \in Types \cup {Any},
             RemoveBegin(t, r, ty)
      PROVE  Typed'
  BY <1>1, CallTypes, CallType DEF RemoveBegin, Typed
<1>2. CASE RemoveStart(t)
  <2>1. [call[t] EXCEPT !.fn = "removing"] \in CallOf(t)
    BY <1>0 DEF Call, CallOf
  <2>2. \E c \in {Idle(t), [call[t] EXCEPT !.fn = "removing"]} :
          call' = [call EXCEPT ![t] = c]
    BY <1>2 DEF RemoveStart
  <2> QED
    BY <1>0, <1>2, <2>1, <2>2, CallType DEF RemoveStart, Typed
<1>3. CASE RemoveMatch(t)
  <2>1. /\ u \in Threads /\ list[u] \in Seq(Entry) /\ i \in 1 .. Len(list[u])
        /\ list[u][i] \in Entry /\ call[t].i \in Nat
    BY <1>3, RemovingType DEF RemoveMatch
  <2>2. Nulled(list[u][i].priority) \in Entry
    BY <2>1, NulledType DEF Entry
  <2>3. [list[u] EXCEPT ![i] = Nulled(list[u][i].priority)] \in Seq(Entry)
    BY <2>1, <2>2, ExceptSeq
  <2>4. list' \in [Threads -> Seq(Entry)]
    BY <1>3, <2>1, <2>3 DEF RemoveMatch, Typed
  <2>5. postedEvents' \in [Objects -> Int]
    BY <1>3, CountType DEF RemoveMatch
  <2>6. [call[t] EXCEPT !.i = @ + 1] \in CallOf(t)
    BY <1>0, AdvancedCallType
  <2>7. call' = [call EXCEPT ![t] = [call[t] EXCEPT !.i = @ + 1]]
    BY <1>3 DEF RemoveMatch, Typed
  <2>9. call' \in [Threads -> Call]
        /\ \A v \in Threads : call'[v] \in CallOf(v)
    BY <2>6, <2>7, CallType
  <2> QED
    BY <1>3, <2>4, <2>5, <2>9 DEF RemoveMatch, Typed
<1>4. CASE RemoveKeep(t)
  <2>1. /\ u \in Threads /\ list[u] \in Seq(Entry) /\ call[t].i \in Nat /\ call[t].j \in Nat
        /\ i \in 1 .. Len(list[u]) /\ j \in 1 .. Len(list[u])
        /\ list[u][i] \in Entry /\ list[u][j] \in Entry
    BY <1>4, RemovingType DEF RemoveKeep
  <2> DEFINE once == [list[u] EXCEPT ![i] = list[u][j]]
  <2>2. once \in Seq(Entry) /\ Len(once) = Len(list[u])
    BY <2>1, ExceptSeq
  <2> HIDE DEF once
  <2>3. [once EXCEPT ![j] = list[u][i]] \in Seq(Entry)
    BY <2>1, <2>2, ExceptSeq
  <2>4. list' = list \/ list' = [list EXCEPT ![u] = [once EXCEPT ![j] = list[u][i]]]
    BY <1>4, <2>1 DEF RemoveKeep, Typed, once
  <2>5. list' \in [Threads -> Seq(Entry)]
    BY <2>1, <2>3, <2>4 DEF Typed
  <2>6. [call[t] EXCEPT !.i = @ + 1] \in CallOf(t)
    BY <1>0, AdvancedCallType
  <2>10. [call[t] EXCEPT !.i = @ + 1, !.j = @ + 1] \in CallOf(t)
    BY <1>0, AdvancedCallType
  <2>7. \/ call' = [call EXCEPT ![t] = [call[t] EXCEPT !.i = @ + 1, !.j = @ + 1]]
        \/ call' = [call EXCEPT ![t] = [call[t] EXCEPT !.i = @ + 1]]
    BY <1>4 DEF RemoveKeep, Typed
  <2>9. call' \in [Threads -> Call]
        /\ \A v \in Threads : call'[v] \in CallOf(v)
    BY <2>6, <2>7, <2>10, CallType
  <2> QED
    BY <1>4, <2>5, <2>9 DEF RemoveKeep, Typed
<1>5. CASE RemoveEnd(t)
  <2>1. u \in Threads /\ list[u] \in Seq(Entry) /\ call[t].j \in Nat /\ call[t].i \in Nat
        /\ Len(list[u]) \in Nat /\ \A k \in 1 .. Len(list[u]) : list[u][k] \in Entry
    BY <1>0, LenProperties, ElementOfSeq DEF Call, Typed
  <2>2. call[t].j <= Len(list[u])
    BY <1>5, <2>1 DEF RemoveEnd, RemovalInList
  <2>3. SubSeq(list[u], 1, call[t].j) \in Seq(Entry)
    BY <2>1, <2>2, SubSeqProperties
  <2>4. list' = list \/ list' = [list EXCEPT ![u] = SubSeq(@, 1, call[t].j)]
    BY <1>5 DEF RemoveEnd
  <2>5. list' \in [Threads -> Seq(Entry)]
    BY <2>1, <2>3, <2>4 DEF Typed
  <2> QED
    BY <1>0, <1>5, <2>5, CallType DEF RemoveEnd, Typed
<1>6. ASSUME NEW k \in 1 .. Len(list[t]), RemoveEvent(t, k) PROVE Typed'
  <2>1. Nulled(list[t][k].priority) \in Entry
    BY OffsetTypes, NulledType DEF Entry
  <2>2. [list[t] EXCEPT ![k] = Nulled(list[t][k].priority)] \in Seq(Entry)
    BY <2>1, OffsetTypes, ExceptSeq
  <2>3. list' \in [Threads -> Seq(Entry)]
    BY <1>6, <2>2 DEF RemoveEvent, Typed
  <2>4. postedEvents' \in [Objects -> Int]
    BY <1>6, CountType DEF RemoveEvent
  <2> QED
    BY <1>6, <2>3, <2>4 DEF RemoveEvent, Typed
<1>7. ASSUME NEW q \in RemoveRequests, RemoveBegin(t, q[1], q[2]) PROVE Typed'
  BY <1>1, <1>7, ConstantsAssumption
<1> QED
  BY <1>2, <1>3, <1>4, <1>5, <1>6, <1>7 DEF Remove

\* An entry that moves is nulled in the one list and added to the other.
LEMMA MoveLists ==
  ASSUME Typed, OffsetsInList, NEW t \in Threads, MoveStep(t)
  PROVE  list' \in [Threads -> Seq(Entry)] /\ NotShortened
<1> DEFINE k == call[t].i + 1
           e == list[t][k]
           u == call[t].to
           moved == [e EXCEPT !.by = 0]
           nulled == [list EXCEPT ![t] = [list[t] EXCEPT ![k] = Nulled(e.priority)]]
<1>1. u \in Threads /\ u # t /\ call[t].i \in Nat
  BY CallTypes DEF Call, CallOf, MoveStep, Moving
<1>2. list[t] \in Seq(Entry) /\ k \in 1 .. Len(list[t])
  BY <1>1, OffsetTypes DEF MoveStep, Moving
<1>3. e \in Entry
  BY <1>2, OffsetTypes
<1>4. moved \in Entry /\ e.priority \in Int
  BY <1>3 DEF Entry
<1>5. /\ [list[t] EXCEPT ![k] = Nulled(e.priority)] \in Seq(Entry)
      /\ Len([list[t] EXCEPT ![k] = Nulled(e.priority)]) = Len(list[t])
  BY <1>2, <1>4, NulledType, ExceptSeq
<1>6. nulled \in [Threads -> Seq(Entry)] /\ nulled[u] = list[u]
  BY <1>1, <1>5 DEF Typed
<1>7. list[u] \in Seq(Entry) /\ insertionOffset[u] \in Nat
  BY <1>1, OffsetTypes
<1>8. ASSUME NEW n \in AddPositions(list[u], insertionOffset[u], e.priority)
      PROVE  /\ Insert(list[u], n, moved) \in Seq(Entry)
             /\ Len(Insert(list[u], n, moved)) = Len(list[u]) + 1
  <2>1. n \in 0 .. Len(list[u])
    BY <1>4, <1>7, <1>8, AddPositionsBounded
  <2> QED
    BY <1>4, <1>7, <2>1, InsertProperties
<1>9. \/ list' = list
      \/ \E n \in AddPositions(list[u], insertionOffset[u], e.priority) :
           list' = [list EXCEPT ![t][k] = Nulled(e.priority),
                                ![u] = Insert(list[u], n, moved)]
  BY DEF MoveStep
<1>10. ASSUME NEW l
       PROVE  [list EXCEPT ![t][k] = Nulled(e.priority), ![u] = l]
                = [nulled EXCEPT ![u] = l]
  <2>1. list \in [Threads -> Seq(Entry)]
    BY DEF Typed
  <2> HIDE DEF k, e, u
  <2> QED
    BY <1>1, <2>1
<1>11. \A v \in Threads : Len(list[v]) \in Nat /\ Len(nulled[v]) = Len(list[v])
  BY <1>5, LenProperties DEF Typed
<1>12. list \in [Threads -> Seq(Entry)]
  BY DEF Typed
<1>13. CASE list' = list
  BY <1>11, <1>12, <1>13 DEF NotShortened
<1>14. ASSUME NEW n \in AddPositions(list[u], insertionOffset[u], e.priority),
              list' = [list EXCEPT ![t][k] = Nulled(e.priority),
                                   ![u] = Insert(list[u], n, moved)]
       PROVE  list' \in [Threads -> Seq(Entry)] /\ NotShortened
  <2> DEFINE l == Insert(list[u], n, moved)
  <2>1. l \in Seq(Entry) /\ Len(l) = Len(list[u]) + 1
    BY <1>8
  <2>2. list' = [nulled EXCEPT ![u] = l]
    BY <1>10, <1>14
  <2> HIDE DEF k, e, u, nulled, moved, l
  <2>3. list' \in [Threads -> Seq(Entry)]
    BY <1>6, <2>1, <2>2
  <2>4. list'[u] = l /\ \A v \in Threads : v # u => list'[v] = nulled[v]
    BY <1>1, <1>6, <2>2
  <2>5. \A v \in Threads : Len(list[v]) <= Len(list'[v])
    BY <1>11, <2>1, <2>4
  <2> QED
    BY <2>3, <2>5 DEF NotShortened
<1> HIDE DEF k, e, u, nulled, moved
<1> QED
  BY <1>9, <1>13, <1>14

LEMMA MoveType ==
  ASSUME Typed, OffsetsInList, NEW t \in Threads, Move(t)
  PROVE  Typed'
<1> USE DEF queueVars, objectVars, dataVars
<1>0. call[t] \in Call /\ call[t] \in CallOf(t) /\ Idle(t) \in Call /\ Idle(t) \in CallOf(t)
  BY CallTypes
<1>1. ASSUME NEW r \in Objects, NEW u \in Threads, MoveBegin(t, r, u) PROVE Typed'
  <2> DEFINE c == [Idle(t) EXCEPT !.fn = "moving", !.receiver = r, !.to = u]
  <2>1. c \in CallOf(t)
    BY <1>0, <1>1 DEF MoveBegin, Call, CallOf
  <2>2. call' = [call EXCEPT ![t] = c]
    BY <1>1 DEF MoveBegin
  <2> HIDE DEF c
  <2> QED
    BY <1>1, <2>1, <2>2, CallType DEF MoveBegin, Typed
<1>2. CASE MoveStep(t)
  <2>11. list' \in [Threads -> Seq(Entry)]
    BY <1>2, MoveLists
  <2>12. PICK n \in {0, 1} : call' = [call EXCEPT ![t] =
                                       [call[t] EXCEPT !.i = @ + 1, !.j = @ + n]]
    BY <1>2 DEF MoveStep, Typed
  <2>13. [call[t] EXCEPT !.i = @ + 1, !.j = @ + n] \in CallOf(t)
    BY <1>0, AdvancedCallType
  <2>14. call' \in [Threads -> Call]
         /\ \A v \in Threads : call'[v] \in CallOf(v)
    BY <2>12, <2>13, CallType
  <2> QED
    BY <1>2, <2>11, <2>14 DEF MoveStep, Typed
<1>3. CASE MoveEnd(t)
  <2>1. call[t].to \in Threads
    BY <1>0 DEF Call
  <2>2. canWait' \in [Threads -> BOOLEAN] /\ woken' \subseteq Threads
    <3>1. CASE call[t].j > 0
      <4>1. canWait' = MayNotWait(call[t].to) /\ woken' = woken \cup {call[t].to}
        BY <1>3, <3>1 DEF MoveEnd
      <4>2. MayNotWait(call[t].to) \in [Threads -> BOOLEAN]
        BY MayNotWaitType
      <4> QED
        BY <2>1, <4>1, <4>2 DEF Typed
    <3>2. CASE ~(call[t].j > 0)
      BY <1>3, <3>2 DEF MoveEnd, Typed
    <3> QED
      BY <3>1, <3>2
  <2>3. threadData' \in [Objects -> Threads]
    BY <1>3, <2>1 DEF MoveEnd, Typed
  <2> QED
    BY <1>0, <1>3, <2>2, <2>3, CallType DEF MoveEnd, Typed
<1> QED
  BY <1>1, <1>2, <1>3, ConstantsAssumption DEF Move

LEMMA DestroyType ==
  ASSUME Typed, NEW t \in Threads, NEW r \in Objects, Destroy(t, r)
  PROVE  Typed'
<1> USE DEF queueVars, objectVars, dataVars
<1>1. alive' \in [Objects -> BOOLEAN]
  <2>1. alive' = [alive EXCEPT ![r] = FALSE]
    BY DEF Destroy
  <2> QED
    BY <2>1, Zenon DEF Typed
<1>2. RemoveCall(t, r, Any) \in CallOf(t)
  BY CallTypes
<1>3. call' = call \/ call' = [call EXCEPT ![t] = RemoveCall(t, r, Any)]
  BY DEF Destroy
<1>4. call' \in [Threads -> Call]
      /\ \A v \in Threads : call'[v] \in CallOf(v)
  BY <1>2, <1>3, CallType DEF Typed
<1> QED
  BY <1>1, <1>4 DEF Destroy, Typed

LEMMA TypeStep ==
  ASSUME Typed, OffsetsInList, RemovalInList, [Next]_vars
  PROVE  Typed'
<1>1. CASE UNCHANGED vars
  BY <1>1 DEF vars, dataVars, queueVars, objectVars, Typed
<1>2. ASSUME NEW t \in Threads,
             \/ Post(t) \/ Send(t) \/ Loop(t) \/ Remove(t) \/ Move(t)
             \/ \E r \in Objects : Destroy(t, r)
      PROVE  Typed'
  BY <1>2, PostType, SendType, LoopType, RemoveType, MoveType, DestroyType
<1> QED
  BY <1>1, <1>2 DEF Next

-----------------------------------------------------------------------------
(* The stack after a step.                                                 *)

OthersKept(t) == \A u \in Threads : u # t => stack'[u] = stack[u]

LEMMA PushedStack ==
  ASSUME Typed, NEW t \in Threads, NEW f \in Frame, stack' = Push(t, f)
  PROVE  /\ OthersKept(t) /\ stack'[t] # <<>> /\ Top(t)' = f
         /\ Len(stack[t]) \in Nat /\ Len(stack'[t]) = Len(stack[t]) + 1
         /\ \A k \in 1 .. Len(stack[t]) : stack'[t][k] = stack[t][k]
         /\ stack'[t][Len(stack[t]) + 1] = f
<1>1. stack[t] \in Seq(Frame) /\ Len(stack[t]) \in Nat
  BY LenProperties DEF Typed
<1>2. stack'[t] = Append(stack[t], f) /\ OthersKept(t)
  BY DEF Push, Typed, OthersKept
<1>3. /\ Len(stack'[t]) = Len(stack[t]) + 1
      /\ \A k \in 1 .. Len(stack[t]) : stack'[t][k] = stack[t][k]
      /\ stack'[t][Len(stack[t]) + 1] = f
  BY <1>1, <1>2, AppendProperties
<1>4. stack'[t] # <<>>
  BY <1>1, <1>3, EmptySeq
<1>5. Top(t)' = f
  BY <1>1, <1>3 DEF Top
<1> QED
  BY <1>1, <1>2, <1>3, <1>4, <1>5

LEMMA PoppedStack ==
  ASSUME Typed, NEW t \in Threads, NEW n \in 0 .. Len(stack[t]),
         stack' = [stack EXCEPT ![t] = SubSeq(@, 1, n)]
  PROVE  /\ OthersKept(t) /\ Len(stack'[t]) = n
         /\ \A k \in 1 .. n : stack'[t][k] = stack[t][k]
         /\ n > 0 => Top(t)' = stack[t][n]
<1>1. stack[t] \in Seq(Frame) /\ Len(stack[t]) \in Nat /\ n \in Nat
  BY LenProperties DEF Typed
<1>2. stack'[t] = SubSeq(stack[t], 1, n) /\ OthersKept(t)
  BY DEF Typed, OthersKept
<1>3. \A k \in 1 .. n : stack[t][k] \in Frame
  BY <1>1, ElementOfSeq
<1>4. Len(stack'[t]) = n /\ \A k \in 1 .. n : stack'[t][k] = stack[t][k]
  BY <1>1, <1>2, <1>3, SubSeqProperties
<1> QED
  BY <1>1, <1>2, <1>4 DEF Top

LEMMA ReplacedStack ==
  ASSUME Typed, NEW t \in Threads, stack[t] # <<>>, NEW f \in Frame,
         stack' = Becomes(t, f)
  PROVE  /\ OthersKept(t) /\ Len(stack[t]) \in Nat \ {0}
         /\ Len(stack'[t]) = Len(stack[t]) /\ stack'[t] # <<>> /\ Top(t)' = f
         /\ \A k \in 1 .. Len(stack[t]) - 1 : stack'[t][k] = stack[t][k]
         /\ stack'[t][Len(stack[t])] = f
<1>1. stack[t] \in Seq(Frame) /\ Len(stack[t]) \in Nat \ {0}
  BY TopType DEF Typed
<1>2. stack'[t] = [stack[t] EXCEPT ![Len(stack[t])] = f] /\ OthersKept(t)
  BY DEF Becomes, Typed, OthersKept
<1>3. /\ Len(stack'[t]) = Len(stack[t])
      /\ \A k \in 1 .. Len(stack[t]) - 1 : stack'[t][k] = stack[t][k]
      /\ stack'[t][Len(stack[t])] = f
  BY <1>1, <1>2, ExceptSeq
<1>4. stack'[t] # <<>> /\ Top(t)' = f
  BY <1>1, <1>3, EmptySeq DEF Top
<1> QED
  BY <1>1, <1>2, <1>3, <1>4

(* The sends of a stack, which is finite.                                  *)

LEMMA SendsFinite ==
  ASSUME Typed, NEW t \in Threads
  PROVE  IsFiniteSet(Sends(t)) /\ Cardinality(Sends(t)) \in Nat
<1>1. Len(stack[t]) \in Nat
  BY LenProperties DEF Typed
<1>2. IsFiniteSet(1 .. Len(stack[t]))
  BY <1>1, FS_Interval
<1>3. Sends(t) \in SUBSET (1 .. Len(stack[t]))
  BY DEF Sends
<1> QED
  BY <1>2, <1>3, FS_Subset, FS_CardinalityType

LEMMA PushedSends ==
  ASSUME Typed, NEW t \in Threads, NEW f \in Frame, stack' = Push(t, f)
  PROVE  /\ \A u \in Threads : u # t => Sends(u)' = Sends(u)
         /\ f.fn # "send" => Sends(t)' = Sends(t)
         /\ f.fn = "send" => /\ Sends(t)' = Sends(t) \cup {Len(stack[t]) + 1}
                             /\ Cardinality(Sends(t)') = Cardinality(Sends(t)) + 1
<1>1. /\ OthersKept(t)
      /\ Len(stack[t]) \in Nat /\ Len(stack'[t]) = Len(stack[t]) + 1
      /\ \A k \in 1 .. Len(stack[t]) : stack'[t][k] = stack[t][k]
      /\ stack'[t][Len(stack[t]) + 1] = f
  BY PushedStack
<1>2. \A u \in Threads : u # t => Sends(u)' = Sends(u)
  BY <1>1 DEF Sends, OthersKept
<1>3. f.fn # "send" => Sends(t)' = Sends(t)
  BY <1>1 DEF Sends
<1>4. ASSUME f.fn = "send"
      PROVE  /\ Sends(t)' = Sends(t) \cup {Len(stack[t]) + 1}
             /\ Len(stack[t]) + 1 \notin Sends(t)
  BY <1>1, <1>4 DEF Sends
<1>5. ASSUME f.fn = "send" PROVE Cardinality(Sends(t)') = Cardinality(Sends(t)) + 1
  BY <1>4, <1>5, SendsFinite, FS_AddElement
<1> QED
  BY <1>2, <1>3, <1>4, <1>5

LEMMA PoppedSends ==
  ASSUME Typed, NEW t \in Threads, NEW n \in 0 .. Len(stack[t]), n < Len(stack[t]),
         stack' = [stack EXCEPT ![t] = SubSeq(@, 1, n)],
         \A k \in n + 1 .. Len(stack[t]) - 1 : stack[t][k].fn # "send"
  PROVE  /\ \A u \in Threads : u # t => Sends(u)' = Sends(u)
         /\ Top(t).fn # "send" => Sends(t)' = Sends(t)
         /\ Top(t).fn = "send" => /\ Sends(t)' = Sends(t) \ {Len(stack[t])}
                                  /\ Cardinality(Sends(t)') = Cardinality(Sends(t)) - 1
<1>1. Len(stack[t]) \in Nat
  BY LenProperties DEF Typed
<1>2. /\ OthersKept(t) /\ Len(stack'[t]) = n
      /\ \A k \in 1 .. n : stack'[t][k] = stack[t][k]
  BY <1>1, PoppedStack
<1>3. ASSUME NEW u \in Threads, u # t PROVE Sends(u)' = Sends(u)
  <2>1. stack'[u] = stack[u]
    BY <1>2, <1>3 DEF OthersKept
  <2> QED
    BY <2>1 DEF Sends
<1>4. ASSUME Top(t).fn # "send" PROVE Sends(t)' = Sends(t)
  BY <1>1, <1>2, <1>4 DEF Sends, Top
<1>5. ASSUME Top(t).fn = "send"
      PROVE  Sends(t)' = Sends(t) \ {Len(stack[t])} /\ Len(stack[t]) \in Sends(t)
  BY <1>1, <1>2, <1>5 DEF Sends, Top
<1>6. ASSUME Top(t).fn = "send" PROVE Cardinality(Sends(t)') = Cardinality(Sends(t)) - 1
  BY <1>5, <1>6, SendsFinite, FS_RemoveElement
<1> QED
  BY <1>3, <1>4, <1>5, <1>6

LEMMA ReplacedSends ==
  ASSUME Typed, NEW t \in Threads, stack[t] # <<>>, NEW f \in Frame,
         stack' = Becomes(t, f), f.fn = "send" <=> Top(t).fn = "send"
  PROVE  \A u \in Threads : Sends(u)' = Sends(u)
<1>1. /\ OthersKept(t) /\ Len(stack[t]) \in Nat \ {0}
      /\ Len(stack'[t]) = Len(stack[t])
      /\ \A k \in 1 .. Len(stack[t]) - 1 : stack'[t][k] = stack[t][k]
      /\ stack'[t][Len(stack[t])] = f
  BY ReplacedStack
<1>2. Sends(t)' = Sends(t)
  BY <1>1 DEF Sends, Top
<1>3. ASSUME NEW u \in Threads, u # t PROVE Sends(u)' = Sends(u)
  BY <1>1, <1>3 DEF Sends, OthersKept
<1> QED
  BY <1>2, <1>3

-----------------------------------------------------------------------------
(* The steps of queue operations: posting, removing, moving, deleting.     *)

CallStepOf(t) == Post(t) \/ Remove(t) \/ Move(t) \/ \E r \in Objects : Destroy(t, r)

LEMMA CallStepKeeps ==
  ASSUME NEW t \in Threads, CallStepOf(t)
  PROVE  UNCHANGED <<stack, startOffset, insertionOffset, recursion>>
<1> USE DEF queueVars, objectVars, dataVars
<1>1. CASE Post(t)
  BY <1>1 DEF Post, PostBegin, PostFollow, PostCompress, PostAdd, PostWakeUp
<1>2. CASE Remove(t)
  BY <1>2 DEF Remove, RemoveBegin, RemoveStart, RemoveMatch, RemoveKeep,
              RemoveEnd, RemoveEvent
<1>3. CASE Move(t)
  BY <1>3 DEF Move, MoveBegin, MoveStep, MoveEnd
<1>4. CASE \E r \in Objects : Destroy(t, r)
  BY <1>4 DEF Destroy
<1> QED
  BY <1>1, <1>2, <1>3, <1>4 DEF CallStepOf

\* An operation begins in application code, and takes a mutex that is free.
CallKept(t) ==
  /\ \A u \in Threads : u # t => call'[u] = call[u]
  /\ call'[t].fn # "none" =>
       call[t].fn # "none" \/ InApplication(t)
  /\ \A u \in Threads : Holds(t, u)' => Holds(t, u) \/ MutexFree(u)

LEMMA PostCalls ==
  ASSUME Typed, NEW t \in Threads, Post(t)
  PROVE  CallKept(t) /\ call'[t].fn \in {"none", "post", "wake"}
<1>1. PICK c : call' = [call EXCEPT ![t] = c]
                 /\ c.fn \in {"none", "post", "wake"}
                 /\ (call[t].fn # "none" \/ UserCode(t))
  <2>1. ASSUME NEW r, NEW p, NEW ty, PostBegin(t, r, ty, p)
        PROVE  \E c : /\ call' = [call EXCEPT ![t] = c]
                      /\ c.fn \in {"none", "post", "wake"}
                      /\ (call[t].fn # "none" \/ UserCode(t))
    BY <2>1 DEF PostBegin, Idle
  <2>2. CASE PostFollow(t)
    <3>1. call' = [call EXCEPT ![t] = [call[t] EXCEPT !.data = threadData[call[t].receiver]]]
          /\ call[t].fn = "post"
      BY <2>2 DEF PostFollow, Typed
    <3>2. [call[t] EXCEPT !.data = threadData[call[t].receiver]].fn = "post"
      BY <3>1, CallTypes DEF Call
    <3> QED
      BY <3>1, <3>2
  <2>3. CASE PostCompress(t)
    BY <2>3 DEF PostCompress, Idle
  <2>4. CASE PostAdd(t)
    BY <2>4 DEF PostAdd, Idle
  <2>5. CASE PostWakeUp(t)
    BY <2>5 DEF PostWakeUp, Idle
  <2> QED
    BY <2>1, <2>2, <2>3, <2>4, <2>5 DEF Post
<1>2. call'[t] = c /\ \A u \in Threads : u # t => call'[u] = call[u]
  BY <1>1 DEF Typed
<1>3. ASSUME NEW u \in Threads PROVE ~Holds(t, u)'
  BY <1>1, <1>2 DEF Holds
<1> QED
  BY <1>1, <1>2, <1>3 DEF CallKept, UserCode, InApplication

LEMMA RemoveCalls ==
  ASSUME Typed, NEW t \in Threads, Remove(t)
  PROVE  CallKept(t)
<1> USE DEF queueVars, objectVars, dataVars
<1>1. ASSUME NEW r, NEW ty, RemoveBegin(t, r, ty) PROVE CallKept(t)
  <2>1. call' = [call EXCEPT ![t] = RemoveCall(t, r, ty)]
        /\ RemoveCall(t, r, ty).fn = "remove" /\ UserCode(t)
    BY <1>1 DEF RemoveBegin, RemoveCall, Idle
  <2>2. call'[t].fn = "remove" /\ \A u \in Threads : u # t => call'[u] = call[u]
    BY <2>1 DEF Typed
  <2> QED
    BY <2>1, <2>2 DEF CallKept, Holds, UserCode, InApplication
<1>2. CASE RemoveStart(t)
  <2>1. /\ call'[t] \in {Idle(t), [call[t] EXCEPT !.fn = "removing"]}
        /\ \A u \in Threads : u # t => call'[u] = call[u]
        /\ call[t].fn = "remove" /\ MutexFree(call[t].data)
    BY <1>2 DEF RemoveStart, Typed
  <2>2. call'[t].fn = "none" \/ (call'[t].fn = "removing" /\ call'[t].data = call[t].data)
    BY <2>1, CallTypes DEF Idle, Call
  <2>3. ASSUME NEW u \in Threads, Holds(t, u)' PROVE MutexFree(u)
    BY <2>1, <2>2, <2>3 DEF Holds
  <2> QED
    BY <2>1, <2>3 DEF CallKept
<1>3. CASE RemoveMatch(t) \/ RemoveKeep(t)
  <2>1. /\ call'[t] \in {[call[t] EXCEPT !.i = @ + 1],
                         [call[t] EXCEPT !.i = @ + 1, !.j = @ + 1]}
        /\ \A u \in Threads : u # t => call'[u] = call[u]
        /\ call[t].fn = "removing"
    BY <1>3 DEF RemoveMatch, RemoveKeep, Removing, Typed
  <2>2. call'[t].fn = call[t].fn /\ call'[t].data = call[t].data
        /\ call'[t].to = call[t].to
    BY <2>1, CallTypes DEF Call
  <2> QED
    BY <2>1, <2>2 DEF CallKept, Holds
<1>4. CASE RemoveEnd(t)
  <2>1. call'[t] = Idle(t) /\ \A u \in Threads : u # t => call'[u] = call[u]
    BY <1>4 DEF RemoveEnd, Typed
  <2> QED
    BY <2>1 DEF CallKept, Holds, Idle
<1>5. ASSUME NEW k, RemoveEvent(t, k) PROVE CallKept(t)
  BY <1>5 DEF RemoveEvent, CallKept, Holds
<1> QED
  BY <1>1, <1>2, <1>3, <1>4, <1>5 DEF Remove

LEMMA MoveCalls ==
  ASSUME Typed, NEW t \in Threads, Move(t)
  PROVE  CallKept(t) /\ call'[t].fn \in {"none", "moving"}
<1>1. ASSUME NEW r, NEW u, MoveBegin(t, r, u)
      PROVE  CallKept(t) /\ call'[t].fn = "moving"
  <2>1. /\ call'[t] = [Idle(t) EXCEPT !.fn = "moving", !.receiver = r, !.to = u]
        /\ \A v \in Threads : v # t => call'[v] = call[v]
        /\ UserCode(t) /\ MutexFree(t) /\ MutexFree(u)
    BY <1>1 DEF MoveBegin, Typed
  <2>2. call'[t].fn = "moving" /\ call'[t].data = t /\ call'[t].to = u
    BY <2>1 DEF Idle
  <2>3. ASSUME NEW v \in Threads, Holds(t, v)' PROVE MutexFree(v)
    BY <2>1, <2>2, <2>3 DEF Holds
  <2> QED
    BY <2>1, <2>2, <2>3 DEF CallKept, UserCode, InApplication
<1>2. CASE MoveStep(t)
  <2>1. /\ \E n : call'[t] = [call[t] EXCEPT !.i = @ + 1, !.j = @ + n]
        /\ \A u \in Threads : u # t => call'[u] = call[u]
        /\ call[t].fn = "moving"
    BY <1>2 DEF MoveStep, Moving, Typed
  <2>2. call'[t].fn = call[t].fn /\ call'[t].data = call[t].data
        /\ call'[t].to = call[t].to
    BY <2>1, CallTypes DEF Call
  <2> QED
    BY <2>1, <2>2 DEF CallKept, Holds
<1>3. CASE MoveEnd(t)
  <2>1. call'[t] = Idle(t) /\ \A u \in Threads : u # t => call'[u] = call[u]
    BY <1>3 DEF MoveEnd, Typed
  <2> QED
    BY <2>1 DEF CallKept, Holds, Idle
<1> QED
  BY <1>1, <1>2, <1>3 DEF Move

LEMMA DestroyCalls ==
  ASSUME Typed, NEW t \in Threads, NEW r \in Objects, Destroy(t, r)
  PROVE  CallKept(t)
<1>1. InApplication(t)
  BY DEF Destroy, MustDelete, UserCode, InApplication
<1>2. CASE call' = call
  BY <1>1, <1>2 DEF CallKept, Holds
<1>3. CASE call' = [call EXCEPT ![t] = RemoveCall(t, r, Any)]
  <2>1. call'[t].fn = "remove" /\ \A u \in Threads : u # t => call'[u] = call[u]
    BY <1>3 DEF Typed, RemoveCall, Idle
  <2> QED
    BY <1>1, <2>1 DEF CallKept, Holds
<1> QED
  BY <1>2, <1>3 DEF Destroy

LEMMA UpdatedList ==
  ASSUME Typed, NEW u \in Threads, NEW l \in Seq(Entry), Len(list[u]) <= Len(l),
         list' = [list EXCEPT ![u] = l]
  PROVE  NotShortened
<1>1. \A v \in Threads : Len(list[v]) \in Nat
  BY LenProperties DEF Typed
<1> QED
  BY <1>1 DEF NotShortened, Typed

LEMMA UnchangedList == ASSUME Typed, list' = list PROVE NotShortened
<1>1. \A v \in Threads : Len(list[v]) \in Nat
  BY LenProperties DEF Typed
<1> QED
  BY <1>1 DEF NotShortened

LEMMA CallStepLists ==
  ASSUME Typed, OffsetsInList, RemovalInList, NEW t \in Threads,
         CallStepOf(t), ~RemoveEnd(t)
  PROVE  NotShortened
<1> USE DEF queueVars, objectVars, dataVars
<1> DEFINE w == call[t].data
<1>0. w \in Threads /\ call[t].to \in Threads /\ call[t].priority \in Int
      /\ call[t].i \in Nat
  BY CallTypes DEF Call
<1>1. CASE PostAdd(t)
  <2> DEFINE e == PostedEntry(t, call[t])
  <2>1. PICK k \in AddPositions(list[w], insertionOffset[w], call[t].priority) :
          list' = [list EXCEPT ![w] = Insert(list[w], k, e)]
    BY <1>1 DEF PostAdd
  <2>2. Insert(list[w], k, e) = list'[w]
    BY <1>0, <2>1 DEF Typed
  <2>3. list'[w] \in Seq(Entry)
    BY <1>0, <1>1, PostType DEF Post, Typed
  <2>4. k \in 0 .. Len(list[w]) /\ list[w] \in Seq(Entry) /\ Len(list[w]) \in Nat
    BY <1>0, <2>1, OffsetTypes, AddPositionsBounded
  <2>5. e \in Entry
    BY PostedEntryType
  <2>6. Len(list'[w]) = Len(list[w]) + 1
    BY <2>2, <2>4, <2>5, InsertProperties
  <2>7. Len(list[w]) <= Len(list'[w]) /\ list' = [list EXCEPT ![w] = list'[w]]
    BY <2>1, <2>2, <2>4, <2>6
  <2> HIDE DEF w, e
  <2> QED
    BY <1>0, <2>3, <2>7, UpdatedList
<1>2. CASE RemoveMatch(t)
  <2> DEFINE i == call[t].i + 1
             l == [list[w] EXCEPT ![i] = Nulled(list[w][i].priority)]
  <2>1. list[w] \in Seq(Entry) /\ i \in 1 .. Len(list[w]) /\ Len(list[w]) \in Nat
        /\ list[w][i] \in Entry
    BY <1>2, RemovingType DEF RemoveMatch
  <2>2. Nulled(list[w][i].priority) \in Entry
    BY <2>1, NulledType DEF Entry
  <2>3. l \in Seq(Entry) /\ Len(l) = Len(list[w])
    BY <2>1, <2>2, ExceptSeq
  <2>4. list' = [list EXCEPT ![w] = l]
    BY <1>2 DEF RemoveMatch, Typed
  <2>5. Len(list[w]) <= Len(l)
    BY <2>1, <2>3
  <2> HIDE DEF l, w
  <2> QED
    BY <1>0, <2>3, <2>4, <2>5, UpdatedList
<1>3. CASE RemoveKeep(t)
  <2> DEFINE i == call[t].i + 1
             j == call[t].j + 1
             once == [list[w] EXCEPT ![i] = list[w][j]]
             twice == [once EXCEPT ![j] = list[w][i]]
  <2>1. /\ list[w] \in Seq(Entry) /\ Len(list[w]) \in Nat
        /\ i \in 1 .. Len(list[w]) /\ j \in 1 .. Len(list[w])
        /\ list[w][i] \in Entry /\ list[w][j] \in Entry
    BY <1>3, RemovingType DEF RemoveKeep
  <2>2. once \in Seq(Entry) /\ Len(once) = Len(list[w])
    BY <2>1, ExceptSeq
  <2>3. list' = list \/ list' = [list EXCEPT ![w] = twice]
    BY <1>3, <1>0, <2>1 DEF RemoveKeep, Typed
  <2> HIDE DEF once, i, j
  <2>4. twice \in Seq(Entry) /\ Len(twice) = Len(list[w])
    BY <2>1, <2>2, ExceptSeq
  <2> HIDE DEF twice
  <2> QED
    BY <1>0, <2>1, <2>3, <2>4, UpdatedList, UnchangedList
<1>4. ASSUME NEW k \in 1 .. Len(list[t]), RemoveEvent(t, k) PROVE NotShortened
  <2> DEFINE l == [list[t] EXCEPT ![k] = Nulled(list[t][k].priority)]
  <2>1. list[t] \in Seq(Entry) /\ list[t][k] \in Entry /\ Len(list[t]) \in Nat
    BY OffsetTypes
  <2>2. Nulled(list[t][k].priority) \in Entry
    BY <2>1, NulledType DEF Entry
  <2>3. l \in Seq(Entry) /\ Len(l) = Len(list[t])
    BY <2>1, <2>2, ExceptSeq
  <2>4. list' = [list EXCEPT ![t] = l]
    BY <1>4 DEF RemoveEvent, Typed
  <2>5. Len(list[t]) <= Len(l)
    BY <2>1, <2>3
  <2> HIDE DEF l
  <2> QED
    BY <2>3, <2>4, <2>5, UpdatedList
<1>5. CASE MoveStep(t)
  BY <1>5, MoveLists
<1>6. CASE list' = list
  BY <1>6, UnchangedList
<1>7. CASE Post(t)
  BY <1>1, <1>6, <1>7 DEF Post, PostBegin, PostFollow, PostCompress, PostWakeUp
<1>8. CASE Remove(t)
  BY <1>2, <1>3, <1>4, <1>6, <1>8 DEF Remove, RemoveBegin, RemoveStart
<1>9. CASE Move(t)
  BY <1>5, <1>6, <1>9 DEF Move, MoveBegin, MoveEnd
<1>10. CASE \E r \in Objects : Destroy(t, r)
  BY <1>6, <1>10 DEF Destroy
<1> QED
  BY <1>7, <1>8, <1>9, <1>10 DEF CallStepOf

\* The indices of a removal start at 0 and stay in the list.
LEMMA RemovalIndices ==
  ASSUME Typed, OffsetsInList, RemovalInList, NEW t \in Threads, CallStepOf(t)
  PROVE  /\ call'[t].fn = "remove" => call'[t].i = 0 /\ call'[t].j = 0
         /\ call'[t].fn = "removing" =>
              /\ ~RemoveEnd(t) /\ call'[t].j <= call'[t].i
              /\ call'[t].i <= Len(list[call'[t].data])
<1> DEFINE Goal == /\ call'[t].fn = "remove" => call'[t].i = 0 /\ call'[t].j = 0
                   /\ call'[t].fn = "removing" =>
                        /\ ~RemoveEnd(t) /\ call'[t].j <= call'[t].i
                        /\ call'[t].i <= Len(list[call'[t].data])
<1>0. call[t] \in Call /\ \A u \in Threads : Len(list[u]) \in Nat
  BY CallTypes, OffsetTypes
<1>2. ASSUME NEW r, NEW ty, call' = [call EXCEPT ![t] = RemoveCall(t, r, ty)]
      PROVE  Goal
  <2>1. call'[t] = RemoveCall(t, r, ty)
    BY <1>2 DEF Typed
  <2>2. call'[t].fn = "remove" /\ call'[t].i = 0 /\ call'[t].j = 0
    BY <2>1 DEF RemoveCall, Idle
  <2> QED
    BY <2>2
<1>3. CASE call'[t].fn \notin {"remove", "removing"}
  BY <1>3
<1>4. CASE Post(t)
  BY <1>3, <1>4, PostCalls
<1>5. CASE Move(t)
  BY <1>3, <1>5, MoveCalls
<1>6. CASE Remove(t)
  <2>1. ASSUME NEW k, RemoveEvent(t, k) PROVE Goal
    <3>1. call' = call /\ call[t].fn = "none"
      BY <2>1 DEF RemoveEvent, UserCode
    <3> QED
      BY <1>3, <3>1
  <2>2. CASE RemoveStart(t)
    <3>1. call[t].fn = "remove" /\ call[t].i = 0 /\ call[t].j = 0
      BY <2>2 DEF RemoveStart, RemovalInList
    <3>2. call'[t] \in {Idle(t), [call[t] EXCEPT !.fn = "removing"]}
      BY <2>2 DEF RemoveStart, Typed
    <3>3. CASE call'[t] = Idle(t)
      BY <1>3, <3>3 DEF Idle
    <3>4. CASE call'[t] = [call[t] EXCEPT !.fn = "removing"]
      BY <1>0, <3>1, <3>4 DEF Call, RemoveEnd
    <3> QED
      BY <3>2, <3>3, <3>4
  <2>3. CASE RemoveMatch(t) \/ RemoveKeep(t)
    <3>1. Removing(t) /\ call[t].fn = "removing"
      BY <2>3 DEF RemoveMatch, RemoveKeep, Removing
    <3>2. call'[t] \in {[call[t] EXCEPT !.i = @ + 1],
                       [call[t] EXCEPT !.i = @ + 1, !.j = @ + 1]}
      BY <2>3 DEF RemoveMatch, RemoveKeep, Typed
    <3>3. /\ call'[t].data = call[t].data /\ call'[t].i = call[t].i + 1
          /\ call'[t].j \in {call[t].j, call[t].j + 1} /\ call'[t].fn = "removing"
      BY <1>0, <3>1, <3>2 DEF Call
    <3>4. /\ call[t].i \in Nat /\ call[t].j \in Nat /\ call[t].data \in Threads
          /\ call[t].j <= call[t].i /\ call[t].i < Len(list[call[t].data])
      BY <3>1, RemovingType DEF RemovalInList, Removing
    <3>5. ~RemoveEnd(t)
      BY <3>1 DEF RemoveEnd
    <3>6. call[t].i + 1 <= Len(list[call[t].data])
          /\ \A j \in {call[t].j, call[t].j + 1} : j <= call[t].i + 1
      BY <1>0, <3>4
    <3> QED
      BY <3>3, <3>5, <3>6
  <2>4. CASE RemoveEnd(t)
    <3>1. call'[t].fn = "none"
      BY <2>4 DEF RemoveEnd, Idle, Typed
    <3> QED
      BY <1>3, <3>1
  <2> QED
    BY <1>2, <1>6, <2>1, <2>2, <2>3, <2>4 DEF Remove, RemoveBegin
<1>7. ASSUME NEW r \in Objects, Destroy(t, r) PROVE Goal
  <2>1. CASE call' = call
    <3>1. call[t].fn = "none"
      BY <1>7 DEF Destroy
    <3> QED
      BY <1>3, <2>1, <3>1
  <2> QED
    BY <1>2, <1>7, <2>1 DEF Destroy
<1> QED
  BY <1>4, <1>5, <1>6, <1>7 DEF CallStepOf

LEMMA MutexHolders ==
  ASSUME NEW t \in Threads
  PROVE  MutexFree(t) <=> ~InSend(t, "scan") /\ \A u \in Threads : ~Holds(u, t)
  BY DEF MutexFree, Holds

\* No sends, no offset: what a removal that erases relies on.
LEMMA NoSendNoOffset ==
  ASSUME Typed, RecursionCountsSends, OffsetOfGlobalSend, NEW t \in Threads,
         recursion[t] = 0
  PROVE  startOffset[t] = 0
<1>1. Cardinality(Sends(t)) = 0 /\ IsFiniteSet(Sends(t))
  BY SendsFinite DEF RecursionCountsSends
<1>2. Sends(t) = {}
  BY <1>1, FS_EmptySet
<1> QED
  BY <1>2 DEF OffsetOfGlobalSend

LEMMA CallStepInvariant ==
  ASSUME IInv, NEW t \in Threads, CallStepOf(t)
  PROVE  /\ MutexExclusive' /\ LowerSendsDeliver' /\ CalledByUserCode'
         /\ OffsetsInList' /\ RecursionCountsSends' /\ OffsetOfGlobalSend'
         /\ RemovalInList'
<1> USE DEF IInv
<1>1. UNCHANGED <<stack, startOffset, insertionOffset, recursion>>
  BY CallStepKeeps
<1>2. CallKept(t)
  BY PostCalls, RemoveCalls, MoveCalls, DestroyCalls DEF CallStepOf
<1>3. LowerSendsDeliver' /\ RecursionCountsSends' /\ OffsetOfGlobalSend'
  BY <1>1 DEF LowerSendsDeliver, RecursionCountsSends, OffsetOfGlobalSend, Sends, Global
<1>4. CalledByUserCode'
  BY <1>1, <1>2 DEF CalledByUserCode, InApplication, CallKept, InSend, InSlot, InLoop, Top
<1>5. MutexExclusive'
  <2>1. \A u, v \in Threads : u # t => (Holds(u, v)' <=> Holds(u, v))
    BY <1>2 DEF CallKept, Holds
  <2>2. \A v \in Threads : Holds(t, v)' => Holds(t, v) \/ MutexFree(v)
    BY <1>2 DEF CallKept
  <2>3. \A v \in Threads : InSend(v, "scan")' <=> InSend(v, "scan")
    BY <1>1 DEF InSend, Top
  <2>4. \A v \in Threads : MutexFree(v) =>
          ~InSend(v, "scan") /\ \A u \in Threads : ~Holds(u, v)
    BY MutexHolders
  <2> QED
    BY <2>1, <2>2, <2>3, <2>4 DEF MutexExclusive
<1>6. \A u \in Threads : u # t /\ RemoveEnd(t) /\ call[u].fn = "removing" =>
        list'[call[u].data] = list[call[u].data]
  <2> SUFFICES ASSUME NEW u \in Threads, u # t, RemoveEnd(t), call[u].fn = "removing"
               PROVE  list'[call[u].data] = list[call[u].data]
    OBVIOUS
  <2>1. call[u].data \in Threads /\ call[t].data \in Threads
    BY CallTypes DEF Call
  <2>2. call[u].data # call[t].data
    BY <2>1 DEF MutexExclusive, Holds, RemoveEnd
  <2> QED
    BY <2>1, <2>2 DEF RemoveEnd, Typed
<1>7. \A u \in Threads : Len(list[u]) \in Nat /\ startOffset[u] \in Nat
  BY OffsetTypes
<1>8. OffsetsInList'
  <2>1. CASE ~RemoveEnd(t)
    <3>1. NotShortened
      BY <2>1, CallStepLists
    <3> QED
      BY <1>1, <1>7, <3>1 DEF NotShortened, OffsetsInList
  <2>2. CASE RemoveEnd(t)
    <3>1. \A u \in Threads : list'[u] = list[u] \/ recursion[u] = 0
      BY <2>2 DEF RemoveEnd, Compacting, Typed
    <3> QED
      BY <1>1, <1>7, <3>1, NoSendNoOffset DEF OffsetsInList
  <2> QED
    BY <2>1, <2>2
<1>9. RemovalInList'
  <2>1. ASSUME NEW u \in Threads, u # t
        PROVE  /\ call'[u].fn = "remove" => call'[u].i = 0 /\ call'[u].j = 0
               /\ call'[u].fn = "removing" => call'[u].j <= call'[u].i
                                    /\ call'[u].i <= Len(list'[call'[u].data])
    <3>1. call'[u] = call[u] /\ call[u].i \in Nat /\ call[u].data \in Threads
      BY <1>2, <2>1, CallTypes DEF CallKept, Call
    <3> QED
      BY <1>6, <1>7, <2>1, <3>1, CallStepLists DEF RemovalInList, NotShortened
  <2>2. /\ call'[t].fn = "remove" => call'[t].i = 0 /\ call'[t].j = 0
        /\ call'[t].fn = "removing" => call'[t].j <= call'[t].i
                                    /\ call'[t].i <= Len(list'[call'[t].data])
    <3>0. Typed'
      BY TypeStep DEF Next, CallStepOf
    <3>1. \A u \in Threads : call'[u] \in Call /\ list'[u] \in Seq(Entry)
      BY <3>0 DEF Typed
    <3>2. call'[t].data \in Threads /\ call'[t].i \in Nat
          /\ Len(list'[call'[t].data]) \in Nat
      BY <3>1, LenProperties DEF Call
    <3>3. ~RemoveEnd(t) => Len(list[call'[t].data]) <= Len(list'[call'[t].data])
      BY <3>2, CallStepLists DEF NotShortened
    <3> QED
      BY <1>7, <3>2, <3>3, RemovalIndices
  <2> QED
    BY <2>1, <2>2 DEF RemovalInList
<1> QED
  BY <1>3, <1>4, <1>5, <1>8, <1>9

-----------------------------------------------------------------------------
(* The steps of sends and loops: they push, replace or pop a frame.        *)

StackKept(t) ==
  /\ InSend(t, "scan")' => InSend(t, "scan") \/ MutexFree(t)
  /\ \A k \in 1 .. Len(stack'[t]) - 1 :
       stack'[t][k].fn = "send" => stack'[t][k].at = "deliver"
  /\ recursion'[t] = Cardinality(Sends(t)')
  /\ startOffset'[t] # 0 =>
       \E k \in Sends(t)' : Global(stack'[t][k]) /\ stack'[t][k].at # "enter"

LEMMA PushKept ==
  ASSUME IInv, NEW t \in Threads, NEW f \in Frame, stack' = Push(t, f),
         f.at # "scan", InApplication(t),
         startOffset'[t] = startOffset[t],
         recursion'[t] = recursion[t] + (IF f.fn = "send" THEN 1 ELSE 0)
  PROVE  StackKept(t)
<1> USE DEF IInv
<1>1. /\ stack'[t] # <<>> /\ Top(t)' = f
      /\ Len(stack[t]) \in Nat /\ Len(stack'[t]) = Len(stack[t]) + 1
      /\ \A k \in 1 .. Len(stack[t]) : stack'[t][k] = stack[t][k]
  BY PushedStack
<1>2. ~InSend(t, "scan")'
  BY <1>1 DEF InSend
<1>3. ASSUME NEW k \in 1 .. Len(stack'[t]) - 1, stack'[t][k].fn = "send"
      PROVE  stack'[t][k].at = "deliver"
  <2>1. k \in 1 .. Len(stack[t]) /\ stack'[t][k] = stack[t][k]
    BY <1>1
  <2>2. CASE k = Len(stack[t])
    <3>1. stack[t] # <<>>
      BY <2>1, <2>2
    <3> QED
      BY <1>3, <2>1, <2>2, <3>1 DEF InApplication, InSend, InSlot, InLoop, Top
  <2>3. CASE k # Len(stack[t])
    BY <1>1, <1>3, <2>1, <2>3 DEF LowerSendsDeliver
  <2> QED
    BY <2>2, <2>3
<1>4. recursion'[t] = Cardinality(Sends(t)') /\ Sends(t) \subseteq Sends(t)'
  BY PushedSends, SendsFinite DEF RecursionCountsSends
<1>5. ASSUME startOffset'[t] # 0
      PROVE  \E k \in Sends(t)' : Global(stack'[t][k]) /\ stack'[t][k].at # "enter"
  <2>1. PICK k \in Sends(t) : Global(stack[t][k]) /\ stack[t][k].at # "enter"
    BY <1>5 DEF OffsetOfGlobalSend
  <2>2. stack'[t][k] = stack[t][k] /\ k \in Sends(t)'
    BY <1>1, <1>4 DEF Sends
  <2> QED
    BY <2>1, <2>2
<1> QED
  BY <1>2, <1>3, <1>4, <1>5 DEF StackKept

LEMMA ReplaceKept ==
  ASSUME IInv, NEW t \in Threads, stack[t] # <<>>, NEW f \in Frame,
         stack' = Becomes(t, f), f.fn = Top(t).fn,
         f.receiver = Top(t).receiver, f.type = Top(t).type,
         f.fn = "send" => f.at # "enter",
         f.fn = "send" /\ f.at = "scan" => InSend(t, "scan") \/ MutexFree(t),
         startOffset'[t] # 0 => startOffset[t] # 0 \/ (f.fn = "send" /\ Global(f)),
         recursion'[t] = recursion[t]
  PROVE  StackKept(t)
<1> USE DEF IInv
<1>1. /\ Len(stack[t]) \in Nat \ {0} /\ Len(stack'[t]) = Len(stack[t])
      /\ stack'[t] # <<>> /\ Top(t)' = f
      /\ \A k \in 1 .. Len(stack[t]) - 1 : stack'[t][k] = stack[t][k]
      /\ stack'[t][Len(stack[t])] = f
  BY ReplacedStack
<1>2. InSend(t, "scan")' => InSend(t, "scan") \/ MutexFree(t)
  BY <1>1 DEF InSend
<1>3. \A k \in 1 .. Len(stack'[t]) - 1 :
        stack'[t][k].fn = "send" => stack'[t][k].at = "deliver"
  BY <1>1 DEF LowerSendsDeliver
<1>4. recursion'[t] = Cardinality(Sends(t)') /\ Sends(t)' = Sends(t)
  BY ReplacedSends DEF RecursionCountsSends
<1>5. \A k \in Sends(t) : k \in 1 .. Len(stack[t])
  BY DEF Sends
<1>6. CASE startOffset[t] # 0
  <2>1. PICK k \in Sends(t) : Global(stack[t][k]) /\ stack[t][k].at # "enter"
    BY <1>6 DEF OffsetOfGlobalSend
  <2>2. stack[t][k].fn = "send"
    BY DEF Sends
  <2>3. Global(stack'[t][k]) /\ stack'[t][k].at # "enter"
    <3>1. CASE k = Len(stack[t])
      BY <1>1, <2>1, <2>2, <3>1 DEF Global, Top
    <3>2. CASE k # Len(stack[t])
      <4>1. stack'[t][k] = stack[t][k]
        BY <1>1, <1>5, <3>2
      <4> QED
        BY <2>1, <4>1
    <3> QED
      BY <3>1, <3>2
  <2> QED
    BY <1>2, <1>3, <1>4, <2>3 DEF StackKept
<1>7. CASE f.fn = "send" /\ Global(f)
  <2>1. Len(stack[t]) \in Sends(t)
    <3>1. stack[t][Len(stack[t])].fn = "send"
      BY <1>7 DEF Top
    <3>2. Len(stack[t]) \in 1 .. Len(stack[t])
      BY <1>1
    <3> QED
      BY <3>1, <3>2 DEF Sends
  <2> QED
    BY <1>1, <1>2, <1>3, <1>4, <1>7, <2>1 DEF StackKept
<1>8. CASE startOffset'[t] = 0
  BY <1>2, <1>3, <1>4, <1>8 DEF StackKept
<1> QED
  BY <1>6, <1>7, <1>8

LEMMA PopKept ==
  ASSUME IInv, NEW t \in Threads, NEW n \in 0 .. Len(stack[t]), n < Len(stack[t]),
         stack' = [stack EXCEPT ![t] = SubSeq(@, 1, n)],
         \A k \in n + 1 .. Len(stack[t]) - 1 : stack[t][k].fn # "send",
         startOffset'[t] # 0 =>
           /\ startOffset[t] # 0
           /\ ~(Top(t).fn = "send" /\ Global(Top(t)) /\ Top(t).at # "enter"),
         recursion'[t] = recursion[t] - (IF Top(t).fn = "send" THEN 1 ELSE 0)
  PROVE  StackKept(t)
<1> USE DEF IInv
<1>0. Len(stack[t]) \in Nat
  BY LenProperties DEF Typed
<1>1. /\ Len(stack'[t]) = n /\ \A k \in 1 .. n : stack'[t][k] = stack[t][k]
      /\ n > 0 => Top(t)' = stack[t][n]
  BY PoppedStack
<1>2. ~InSend(t, "scan")'
  <2>1. CASE n > 0
    <3>1. stack[t][n].fn = "send" => stack[t][n].at = "deliver"
      BY <1>0, <2>1 DEF LowerSendsDeliver
    <3> QED
      BY <1>1, <2>1, <3>1 DEF InSend
  <2>2. CASE n = 0
    <3>1. stack'[t] \in Seq(Frame)
      BY <1>0, <2>2, StackType DEF Typed
    <3>2. stack'[t] = <<>>
      BY <1>1, <2>2, <3>1, EmptySeq
    <3> QED
      BY <3>2 DEF InSend
  <2> QED
    BY <2>1, <2>2
<1>3. \A k \in 1 .. Len(stack'[t]) - 1 :
        stack'[t][k].fn = "send" => stack'[t][k].at = "deliver"
  BY <1>0, <1>1 DEF LowerSendsDeliver
<1>4. recursion'[t] = Cardinality(Sends(t)')
  <2>1. recursion[t] = Cardinality(Sends(t)) /\ Cardinality(Sends(t)) \in Nat
    BY SendsFinite DEF RecursionCountsSends
  <2>2. CASE Top(t).fn = "send"
    <3>1. Cardinality(Sends(t)') = Cardinality(Sends(t)) - 1
      BY <2>2, PoppedSends
    <3> QED
      BY <2>1, <2>2, <3>1
  <2>3. CASE Top(t).fn # "send"
    <3>1. Sends(t)' = Sends(t)
      BY <2>3, PoppedSends
    <3> QED
      BY <2>1, <2>3, <3>1
  <2> QED
    BY <2>2, <2>3
<1>5. ASSUME startOffset'[t] # 0
      PROVE  \E k \in Sends(t)' : Global(stack'[t][k]) /\ stack'[t][k].at # "enter"
  <2>1. PICK k \in Sends(t) : Global(stack[t][k]) /\ stack[t][k].at # "enter"
    BY <1>5 DEF OffsetOfGlobalSend
  <2>2. k \in 1 .. Len(stack[t]) /\ stack[t][k].fn = "send"
    BY DEF Sends
  <2>3. k # Len(stack[t])
    BY <1>5, <2>1, <2>2 DEF Top
  <2>4. k \in 1 .. n
    BY <1>0, <2>2, <2>3
  <2> QED
    BY <1>1, <2>1, <2>2, <2>4 DEF Sends
<1> QED
  BY <1>2, <1>3, <1>4, <1>5 DEF StackKept

LEMMA AdvanceKept ==
  ASSUME IInv, NEW t \in Threads, InSend(t, "scan"), NEW f \in Frame,
         f.fn = "send", f.receiver = Top(t).receiver, f.type = Top(t).type,
         f.at # "enter", Advance(t, f), recursion' = recursion
  PROVE  OthersKept(t) /\ StackKept(t)
<1> USE DEF IInv
<1>1. stack[t] # <<>> /\ Top(t).fn = "send"
  BY DEF InSend
<1>2. CASE Global(f)
  BY <1>1, <1>2, ReplacedStack, ReplaceKept DEF Advance
<1>3. CASE ~Global(f)
  <2> DEFINE g == [f EXCEPT !.i = @ + 1]
  <2>1. g \in Frame /\ g.fn = f.fn /\ g.receiver = f.receiver /\ g.type = f.type
        /\ g.at = f.at
    BY DEF Frame
  <2>2. stack' = Becomes(t, g) /\ startOffset' = startOffset
    BY <1>3 DEF Advance
  <2> HIDE DEF g
  <2> QED
    BY <1>1, <2>1, <2>2, ReplacedStack, ReplaceKept
<1> QED
  BY <1>2, <1>3

LEMMA SendStack ==
  ASSUME IInv, NEW t \in Threads, Send(t)
  PROVE  OthersKept(t) /\ StackKept(t)
<1> USE DEF IInv, queueVars, objectVars, dataVars
<1>0. recursion \in [Threads -> Int] /\ Len(stack[t]) \in Nat
  BY StackType DEF Typed
<1>1. ASSUME NEW r \in Objects \cup {None}, NEW ty \in Types \cup {Any},
             SendBegin(t, r, ty)
      PROVE  OthersKept(t) /\ StackKept(t)
  <2> DEFINE f == SendFrame(r, ty)
  <2>1. f \in Frame /\ f.fn = "send" /\ f.at = "enter"
    BY FrameTypes DEF SendFrame
  <2>2. /\ InApplication(t)
        /\ stack' = Push(t, f) /\ startOffset' = startOffset
        /\ recursion'[t] = recursion[t] + 1
    BY <1>0, <1>1 DEF SendBegin, UserCode, InApplication
  <2> HIDE DEF f
  <2> QED
    BY <2>1, <2>2, PushKept, PushedStack
<1>2. CASE SendNothing(t)
  <2>1. /\ stack[t] # <<>> /\ Top(t).fn = "send" /\ Top(t).at = "enter"
        /\ stack' = Pop(t) /\ startOffset' = startOffset
        /\ recursion'[t] = recursion[t] - 1
    BY <1>0, <1>2 DEF SendNothing, InSend
  <2> DEFINE n == Len(stack[t]) - 1
  <2>2. n \in 0 .. Len(stack[t]) /\ n < Len(stack[t])
    BY <2>1, TopType
  <2>3. stack' = [stack EXCEPT ![t] = SubSeq(@, 1, n)]
    BY <2>1 DEF Pop, Typed
  <2>4. \A k \in n + 1 .. Len(stack[t]) - 1 : stack[t][k].fn # "send"
    BY <1>0
  <2> HIDE DEF n
  <2> QED
    BY <2>1, <2>2, <2>3, <2>4, PopKept, PoppedStack
<1>3. CASE SendStart(t)
  <2> DEFINE f == [Top(t) EXCEPT !.at = "scan", !.i = startOffset[t]]
  <2>1. stack[t] # <<>> /\ Top(t) \in Frame /\ MutexFree(t)
    BY <1>3, TopType DEF SendStart, InSend
  <2>2. /\ f \in Frame /\ f.fn = Top(t).fn /\ f.receiver = Top(t).receiver
        /\ f.type = Top(t).type /\ f.at = "scan"
    BY <2>1 DEF Frame, Typed
  <2>3. stack' = Becomes(t, f) /\ startOffset' = startOffset /\ recursion' = recursion
    BY <1>3 DEF SendStart
  <2> HIDE DEF f
  <2> QED
    BY <2>1, <2>2, <2>3, ReplaceKept, ReplacedStack
<1>4. CASE ScanNull(t) \/ ScanOther(t) \/ ScanHold(t)
  <2>1. /\ Scanning(t) /\ InSend(t, "scan") /\ Top(t).fn = "send"
        /\ Top(t).at = "scan" /\ recursion' = recursion /\ Advance(t, Top(t))
    BY <1>4 DEF ScanNull, ScanOther, ScanHold, Scanning, InSend
  <2>2. Top(t) \in Frame
    BY <2>1, CurrentType
  <2> QED
    BY <2>1, <2>2, AdvanceKept
<1>5. CASE ScanDeliver(t)
  <2> DEFINE e == Current(t)
             f == [Top(t) EXCEPT !.at = "deliver", !.event = e]
  <2>1. /\ Scanning(t) /\ InSend(t, "scan") /\ Top(t).fn = "send"
        /\ recursion' = recursion /\ Advance(t, f)
    BY <1>5 DEF ScanDeliver, Scanning, InSend
  <2>2. e \in Entry /\ Top(t) \in Frame
    BY <2>1, CurrentType
  <2>3. /\ f \in Frame /\ f.fn = Top(t).fn /\ f.receiver = Top(t).receiver
        /\ f.type = Top(t).type /\ f.at = "deliver"
    BY <2>2 DEF Frame
  <2> HIDE DEF f
  <2> QED
    BY <2>1, <2>3, AdvanceKept
<1>6. CASE HandlerReturn(t)
  <2> DEFINE f == [Top(t) EXCEPT !.at = "scan", !.event = Nulled(0)]
  <2>1. stack[t] # <<>> /\ Top(t) \in Frame /\ MutexFree(t)
    BY <1>6, TopType DEF HandlerReturn, InSend
  <2>2. /\ f \in Frame /\ f.fn = Top(t).fn /\ f.receiver = Top(t).receiver
        /\ f.type = Top(t).type /\ f.at = "scan"
    BY <2>1, FrameTypes DEF Frame
  <2>3. stack' = Becomes(t, f) /\ startOffset' = startOffset /\ recursion' = recursion
    BY <1>6 DEF HandlerReturn
  <2> HIDE DEF f
  <2> QED
    BY <2>1, <2>2, <2>3, ReplaceKept, ReplacedStack
<1>7. ASSUME NEW waits, CleanUp(t, waits), InSend(t, "scan") \/ InSend(t, "deliver")
      PROVE  /\ stack[t] # <<>> /\ Top(t).fn = "send" /\ Top(t).at # "enter"
             /\ recursion'[t] = recursion[t] - 1
             /\ startOffset'[t] # 0 => startOffset[t] # 0 /\ ~Global(Top(t))
  <2>1. startOffset \in [Threads -> Nat]
    BY DEF Typed
  <2> QED
    BY <1>0, <1>7, <2>1 DEF CleanUp, InSend
<1>8. CASE SendEnd(t)
  <2>1. /\ stack[t] # <<>> /\ Top(t).fn = "send" /\ Top(t).at # "enter"
        /\ recursion'[t] = recursion[t] - 1
        /\ startOffset'[t] # 0 => startOffset[t] # 0 /\ ~Global(Top(t))
        /\ stack' = Pop(t)
    BY <1>7, <1>8 DEF SendEnd
  <2> DEFINE n == Len(stack[t]) - 1
  <2>2. n \in 0 .. Len(stack[t]) /\ n < Len(stack[t])
    BY <2>1, TopType
  <2>3. stack' = [stack EXCEPT ![t] = SubSeq(@, 1, n)]
    BY <2>1 DEF Pop, Typed
  <2>4. \A k \in n + 1 .. Len(stack[t]) - 1 : stack[t][k].fn # "send"
    BY <1>0
  <2> HIDE DEF n
  <2> QED
    BY <2>1, <2>2, <2>3, <2>4, PopKept, PoppedStack
<1>9. CASE HandlerThrow(t)
  <2>1. CleanUp(t, FALSE) /\ InSend(t, "deliver")
    BY <1>9 DEF HandlerThrow
  <2>2. /\ stack[t] # <<>> /\ Top(t).fn = "send" /\ Top(t).at # "enter"
        /\ recursion'[t] = recursion[t] - 1
        /\ startOffset'[t] # 0 => startOffset[t] # 0 /\ ~Global(Top(t))
    BY <1>7, <2>1
  <2>3. PICK n \in 0 .. Len(stack[t]) :
          /\ stack' = [stack EXCEPT ![t] = SubSeq(@, 1, n)] /\ n < Len(stack[t])
          /\ \A k \in n + 1 .. Len(stack[t]) - 1 : stack[t][k].fn # "send"
    BY <1>9, <2>2, ThrownStack
  <2> QED
    BY <2>2, <2>3, PopKept, PoppedStack
<1>10. ASSUME NEW q \in SendRequests, SendBegin(t, q[1], q[2])
       PROVE  OthersKept(t) /\ StackKept(t)
  BY <1>1, <1>10, ConstantsAssumption
<1> QED
  BY <1>2, <1>3, <1>4, <1>5, <1>6, <1>8, <1>9, <1>10 DEF Send

LEMMA LoopStack ==
  ASSUME IInv, NEW t \in Threads, Loop(t)
  PROVE  OthersKept(t) /\ StackKept(t)
<1> USE DEF IInv, queueVars, objectVars, dataVars
<1>0. recursion \in [Threads -> Int] /\ Len(stack[t]) \in Nat
  BY StackType DEF Typed
<1>1. ASSUME NEW fn \in {"exec", "process"}, LoopBegin(t, fn)
      PROVE  OthersKept(t) /\ StackKept(t)
  <2> DEFINE f == LoopFrame(fn)
  <2>1. f \in Frame /\ f.fn # "send" /\ f.at # "scan"
    BY FrameTypes DEF LoopFrame
  <2>2. /\ InApplication(t)
        /\ stack' = Push(t, f) /\ startOffset' = startOffset /\ recursion' = recursion
    BY <1>1 DEF LoopBegin, UserCode, InApplication
  <2> HIDE DEF f
  <2> QED
    BY <1>0, <2>1, <2>2, PushKept, PushedStack
<1>2. CASE LoopSend(t)
  <2> DEFINE n == Len(stack[t])
             f == [stack[t][n] EXCEPT !.at = "check"]
             below == [stack[t] EXCEPT ![n] = f]
             g == SendFrame(None, Any)
  <2>1. /\ stack[t] # <<>> /\ Top(t).fn # "send" /\ Top(t) \in Frame
        /\ n \in Nat \ {0} /\ stack[t] \in Seq(Frame)
    BY <1>2, TopType DEF LoopSend, InLoop, Typed
  <2>2. f \in Frame /\ f.fn # "send" /\ f.fn = stack[t][n].fn /\ stack[t][n].fn # "send"
    BY <2>1 DEF Top, Frame
  <2>3. /\ below \in Seq(Frame) /\ Len(below) = n /\ below[n] = f
        /\ \A k \in 1 .. n - 1 : below[k] = stack[t][k]
    BY <2>1, <2>2, ExceptSeq
  <2>4. g \in Frame /\ g.fn = "send" /\ g.at = "enter"
    BY FrameTypes DEF SendFrame
  <2>5. stack' = [stack EXCEPT ![t] = Append(below, g)]
    BY <1>2 DEF LoopSend, Typed
  <2>6. stack'[t] = Append(below, g) /\ OthersKept(t)
    BY <2>5 DEF OthersKept, Typed
  <2> HIDE DEF f, g, below
  <2>7. /\ Len(stack'[t]) = n + 1 /\ stack'[t][n + 1] = g
        /\ \A k \in 1 .. n : stack'[t][k] = below[k]
    BY <2>3, <2>4, <2>6, AppendProperties
  <2> HIDE DEF n
  <2>8. Sends(t)' = Sends(t) \cup {n + 1} /\ n + 1 \notin Sends(t)
    <3>1. \A k \in 1 .. n : stack'[t][k].fn = "send" <=> stack[t][k].fn = "send"
      BY <2>1, <2>2, <2>3, <2>7
    <3> QED
      BY <2>1, <2>4, <2>7, <3>1 DEF Sends, n
  <2>9. recursion'[t] = Cardinality(Sends(t)')
    <3>1. Cardinality(Sends(t)') = Cardinality(Sends(t)) + 1
      BY <2>8, SendsFinite, FS_AddElement
    <3>2. recursion'[t] = recursion[t] + 1
      BY <1>0, <1>2 DEF LoopSend
    <3> QED
      BY <3>1, <3>2 DEF RecursionCountsSends
  <2>10. \A k \in 1 .. n : stack'[t][k].fn = "send" =>
           k < n /\ stack'[t][k] = stack[t][k]
    BY <2>1, <2>2, <2>3, <2>7
  <2>11. \A k \in 1 .. Len(stack'[t]) - 1 :
           stack'[t][k].fn = "send" => stack'[t][k].at = "deliver"
    BY <2>1, <2>7, <2>10 DEF LowerSendsDeliver, n
  <2>12. ~InSend(t, "scan")'
    BY <2>1, <2>4, <2>7 DEF InSend, Top
  <2>13. ASSUME startOffset'[t] # 0
         PROVE  \E k \in Sends(t)' : Global(stack'[t][k]) /\ stack'[t][k].at # "enter"
    <3>1. startOffset[t] # 0
      BY <1>2, <2>13 DEF LoopSend
    <3>2. PICK k \in Sends(t) : Global(stack[t][k]) /\ stack[t][k].at # "enter"
      BY <3>1 DEF OffsetOfGlobalSend
    <3>3. k \in 1 .. n /\ stack[t][k].fn = "send" /\ k \in Sends(t)'
      BY <2>8 DEF Sends, n
    <3>4. stack'[t][k] = stack[t][k]
      BY <2>1, <2>2, <2>3, <2>7, <3>3
    <3> QED
      BY <3>2, <3>3, <3>4
  <2> QED
    BY <2>6, <2>9, <2>11, <2>12, <2>13 DEF StackKept
<1>3. ASSUME NEW a \in {"test", "awake", "block", "wait", "poll"}, InLoop(t, Top(t).at),
             stack' = Becomes(t, [Top(t) EXCEPT !.at = a]),
             UNCHANGED <<startOffset, recursion>>
      PROVE  OthersKept(t) /\ StackKept(t)
  <2> DEFINE f == [Top(t) EXCEPT !.at = a]
  <2>1. stack[t] # <<>> /\ Top(t) \in Frame /\ Top(t).fn # "send"
    BY <1>3, TopType DEF InLoop
  <2>2. /\ f \in Frame /\ f.fn = Top(t).fn /\ f.receiver = Top(t).receiver
        /\ f.type = Top(t).type
    BY <2>1 DEF Frame
  <2>3. stack' = Becomes(t, f)
    BY <1>3
  <2> HIDE DEF f
  <2> QED
    BY <1>3, <2>1, <2>2, <2>3, ReplaceKept, ReplacedStack
<1>4. ASSUME InLoop(t, Top(t).at), stack' = Pop(t), UNCHANGED <<startOffset, recursion>>
      PROVE  OthersKept(t) /\ StackKept(t)
  <2> DEFINE n == Len(stack[t]) - 1
  <2>1. stack[t] # <<>> /\ Top(t).fn # "send"
    BY <1>4 DEF InLoop
  <2>2. n \in 0 .. Len(stack[t]) /\ n < Len(stack[t])
    BY <2>1, TopType
  <2>3. stack' = [stack EXCEPT ![t] = SubSeq(@, 1, n)]
    BY <1>4 DEF Pop, Typed
  <2>4. \A k \in n + 1 .. Len(stack[t]) - 1 : stack[t][k].fn # "send"
    BY <1>0
  <2>5. /\ recursion'[t] = recursion[t] - (IF Top(t).fn = "send" THEN 1 ELSE 0)
        /\ startOffset'[t] = startOffset[t]
    BY <1>0, <1>4, <2>1
  <2> HIDE DEF n
  <2> QED
    BY <2>1, <2>2, <2>3, <2>4, <2>5, PopKept, PoppedStack
<1>5. CASE LoopAwake(t) \/ LoopCheck(t) \/ LoopBlock(t)
  <2>1. InLoop(t, Top(t).at) /\ UNCHANGED <<startOffset, recursion>>
    BY <1>5 DEF LoopAwake, LoopCheck, LoopBlock, InLoop
  <2>2. \E a \in {"awake", "block", "wait", "poll"} :
          stack' = Becomes(t, [Top(t) EXCEPT !.at = a])
    BY <1>5 DEF LoopAwake, LoopCheck, LoopBlock
  <2> QED
    BY <1>3, <2>1, <2>2
<1>6. CASE LoopSelect(t)
  <2>1. InLoop(t, Top(t).at) /\ UNCHANGED <<startOffset, recursion>>
    BY <1>6 DEF LoopSelect, InLoop
  <2>2. stack' = Becomes(t, [Top(t) EXCEPT !.at = "test"]) \/ stack' = Pop(t)
    BY <1>6 DEF LoopSelect
  <2> QED
    BY <1>3, <1>4, <2>1, <2>2
<1>7. CASE LoopEnd(t)
  <2>1. InLoop(t, Top(t).at) /\ UNCHANGED <<startOffset, recursion>> /\ stack' = Pop(t)
    BY <1>7 DEF LoopEnd, InLoop
  <2> QED
    BY <1>4, <2>1
<1> QED
  BY <1>1, <1>2, <1>5, <1>6, <1>7 DEF Loop

-----------------------------------------------------------------------------
(* The lists after a step of a send or a loop.                             *)

ListKept(t) ==
  /\ \A u \in Threads : u # t =>
       /\ list'[u] = list[u] /\ recursion'[u] = recursion[u]
       /\ startOffset'[u] = startOffset[u] /\ insertionOffset'[u] = insertionOffset[u]
  /\ startOffset'[t] <= insertionOffset'[t] /\ startOffset'[t] <= Len(list'[t])
  /\ Len(list[t]) <= Len(list'[t]) \/ \A u \in Threads : ~Holds(u, t)

LEMMA AdvancedOffset ==
  ASSUME Typed, OffsetsInList, NEW t \in Threads, Scanning(t), NEW f,
         f.receiver = Top(t).receiver, f.type = Top(t).type, Advance(t, f)
  PROVE  /\ \A u \in Threads : u # t => startOffset'[u] = startOffset[u]
         /\ startOffset'[t] <= insertionOffset[t] /\ startOffset'[t] <= Len(list[t])
<1>1. CASE Global(f)
  <2>1. startOffset' = [startOffset EXCEPT ![t] = @ + 1]
    BY <1>1 DEF Advance
  <2>2. Position(t, Top(t)) = startOffset[t]
    BY <1>1 DEF Position, Global
  <2>3. startOffset[t] < Len(list[t]) /\ startOffset[t] < insertionOffset[t]
    BY <2>2 DEF Scanning
  <2> QED
    BY <2>1, <2>3, OffsetTypes DEF Typed
<1>2. CASE ~Global(f)
  BY <1>2, OffsetTypes DEF Advance
<1> QED
  BY <1>1, <1>2

LEMMA CleanedList ==
  ASSUME IInv, NEW t \in Threads, NEW waits, CleanUp(t, waits),
         InSend(t, "scan") \/ MutexFree(t)
  PROVE  ListKept(t)
<1> USE DEF IInv
<1>0. /\ list[t] \in Seq(Entry) /\ Len(list[t]) \in Nat
      /\ insertionOffset[t] \in Nat /\ startOffset[t] \in Nat
      /\ startOffset[t] <= insertionOffset[t] /\ startOffset[t] <= Len(list[t])
      /\ \A k \in 1 .. Len(list[t]) : list[t][k] \in Entry
  BY OffsetTypes
<1>1. \A u \in Threads : ~Holds(u, t)
  BY MutexHolders DEF MutexExclusive
<1>2. \A u \in Threads : u # t => recursion'[u] = recursion[u]
  BY DEF CleanUp, Typed
<1>3. CASE Global(Top(t))
  <2> DEFINE l == SubSeq(list[t], startOffset[t] + 1, Len(list[t]))
  <2>1. l \in Seq(Entry) /\ Len(l) \in Nat
    BY <1>0, SubSeqProperties, LenProperties
  <2>2. /\ list' = [list EXCEPT ![t] = l]
        /\ insertionOffset' = [insertionOffset EXCEPT ![t] = InsertionLeft(t)]
        /\ startOffset' = [startOffset EXCEPT ![t] = 0]
    BY <1>3 DEF CleanUp, Typed
  <2> HIDE DEF l
  <2>3. list'[t] = l /\ insertionOffset'[t] = InsertionLeft(t) /\ startOffset'[t] = 0
    BY <2>2 DEF Typed
  <2>4. 0 <= InsertionLeft(t)
    BY <1>0 DEF InsertionLeft
  <2> QED
    BY <1>1, <1>2, <2>1, <2>2, <2>3, <2>4 DEF ListKept
<1>4. CASE ~Global(Top(t))
  BY <1>0, <1>1, <1>2, <1>4 DEF CleanUp, ListKept
<1> QED
  BY <1>3, <1>4

\* The list after an entry is taken out or posted again.
LEMMA ScannedList ==
  ASSUME Typed, OffsetsInList, NEW t \in Threads, ScanHold(t) \/ ScanDeliver(t)
  PROVE  Len(list[t]) <= Len(list'[t]) /\ Len(list'[t]) \in Nat
<1> DEFINE e == Current(t)
           l == [list[t] EXCEPT ![At(t)] = Nulled(e.priority)]
<1>0. list[t] \in Seq(Entry) /\ Len(list[t]) \in Nat /\ insertionOffset[t] \in Nat
  BY OffsetTypes
<1>1. e \in Entry /\ e.priority \in Int /\ At(t) \in 1 .. Len(list[t])
  BY CurrentType DEF ScanHold, ScanDeliver, Entry
<1>2. l \in Seq(Entry) /\ Len(l) = Len(list[t])
  BY <1>0, <1>1, NulledType, ExceptSeq
<1>3. CASE ScanDeliver(t)
  <2>1. list'[t] = l
    BY <1>3 DEF ScanDeliver, Typed
  <2> HIDE DEF l
  <2> QED
    BY <1>0, <1>2, <2>1
<1>4. CASE ScanHold(t) /\ Global(Top(t))
  <2>1. PICK k \in AddPositions(l, insertionOffset[t], e.priority) :
          list' = [list EXCEPT ![t] = Insert(l, k, e)]
    BY <1>4 DEF ScanHold
  <2> HIDE DEF l, e
  <2>2. k \in 0 .. Len(l) /\ list'[t] = Insert(l, k, e)
    BY <1>0, <1>1, <1>2, <2>1, AddPositionsBounded DEF Typed
  <2>3. Insert(l, k, e) \in Seq(Entry) /\ Len(Insert(l, k, e)) = Len(l) + 1
    BY <1>1, <1>2, <2>2, InsertProperties
  <2> QED
    BY <1>0, <1>2, <2>2, <2>3
<1>5. CASE ScanHold(t) /\ ~Global(Top(t))
  BY <1>0, <1>5 DEF ScanHold
<1> QED
  BY <1>3, <1>4, <1>5

LEMMA SendLists ==
  ASSUME IInv, NEW t \in Threads, Send(t)
  PROVE  ListKept(t)
<1> USE DEF IInv, queueVars, objectVars, dataVars
<1>0. /\ list[t] \in Seq(Entry) /\ Len(list[t]) \in Nat
      /\ insertionOffset[t] \in Nat /\ startOffset[t] \in Nat
      /\ startOffset[t] <= insertionOffset[t] /\ startOffset[t] <= Len(list[t])
  BY OffsetTypes
<1>1. ASSUME UNCHANGED <<list, startOffset, insertionOffset>>,
             \A u \in Threads : u # t => recursion'[u] = recursion[u]
      PROVE  ListKept(t)
  BY <1>0, <1>1 DEF ListKept
<1>2. ASSUME NEW r, NEW ty, SendBegin(t, r, ty) PROVE ListKept(t)
  BY <1>1, <1>2 DEF SendBegin, Typed
<1>3. CASE SendNothing(t) \/ HandlerReturn(t)
  BY <1>1, <1>3 DEF SendNothing, HandlerReturn, Typed
<1>4. CASE SendStart(t)
  BY <1>0, <1>4 DEF SendStart, ListKept, Typed
<1>5. CASE ScanNull(t) \/ ScanOther(t)
  <2>1. /\ Scanning(t) /\ Advance(t, Top(t))
        /\ UNCHANGED <<list, insertionOffset, recursion>>
    BY <1>5 DEF ScanNull, ScanOther
  <2> QED
    BY <1>0, <2>1, AdvancedOffset DEF ListKept
<1>6. CASE ScanHold(t) \/ ScanDeliver(t)
  <2>1. /\ Scanning(t) /\ UNCHANGED <<insertionOffset, recursion>>
        /\ \A u \in Threads : u # t => list'[u] = list[u]
    BY <1>6 DEF ScanHold, ScanDeliver, Typed
  <2>2. /\ \A u \in Threads : u # t => startOffset'[u] = startOffset[u]
        /\ startOffset'[t] <= insertionOffset[t] /\ startOffset'[t] <= Len(list[t])
    <3>1. CASE ScanHold(t)
      BY <2>1, <3>1, AdvancedOffset DEF ScanHold
    <3>2. CASE ScanDeliver(t)
      <4> DEFINE f == [Top(t) EXCEPT !.at = "deliver", !.event = Current(t)]
      <4>1. Advance(t, f)
        BY <3>2 DEF ScanDeliver
      <4>2. f.receiver = Top(t).receiver /\ f.type = Top(t).type
        BY <2>1, CurrentType DEF Frame
      <4> HIDE DEF f
      <4> QED
        BY <2>1, <4>1, <4>2, AdvancedOffset
    <3> QED
      BY <1>6, <3>1, <3>2
  <2>3. Len(list[t]) <= Len(list'[t]) /\ Len(list'[t]) \in Nat
    BY <1>6, ScannedList
  <2>4. startOffset'[t] \in Nat
    BY SendType DEF Typed
  <2> QED
    BY <1>0, <2>1, <2>2, <2>3, <2>4 DEF ListKept
<1>7. CASE SendEnd(t)
  BY <1>7, CleanedList DEF SendEnd
<1>8. CASE HandlerThrow(t)
  BY <1>8, CleanedList DEF HandlerThrow
<1> QED
  BY <1>2, <1>3, <1>4, <1>5, <1>6, <1>7, <1>8 DEF Send

-----------------------------------------------------------------------------
(* The invariant is inductive.                                             *)

\* Sends and loops neither begin nor end queue operations, and run only
\* while the thread is in none.
LEMMA SendCalls ==
  ASSUME IInv, NEW t \in Threads, Send(t) \/ Loop(t)
  PROVE  call' = call /\ call[t].fn = "none"
<1> USE DEF queueVars, objectVars, dataVars
<1>1. call[t].fn = "none" \/ (stack[t] # <<>> /\ ~InSend(t, "deliver") /\ ~InSlot(t))
  BY ConstantsAssumption DEF UserCode, InSlot, Send, SendBegin, SendNothing, SendStart, ScanNull, ScanOther, ScanHold,
         ScanDeliver, HandlerReturn, HandlerThrow, SendEnd, Scanning, InSend,
         Loop, LoopBegin, LoopEnd, LoopAwake, LoopSend, LoopCheck, LoopBlock,
         LoopSelect, InLoop
<1>2. call[t].fn = "none"
  BY <1>1 DEF IInv, CalledByUserCode, InApplication
<1>3. call' = call
  BY DEF Send, SendBegin, SendNothing, SendStart, ScanNull, ScanOther, ScanHold,
         ScanDeliver, HandlerReturn, HandlerThrow, SendEnd,
         Loop, LoopBegin, LoopEnd, LoopAwake, LoopSend, LoopCheck, LoopBlock,
         LoopSelect
<1> QED
  BY <1>2, <1>3

LEMMA LoopLists ==
  ASSUME IInv, NEW t \in Threads, Loop(t)
  PROVE  ListKept(t)
<1> USE DEF IInv, queueVars, objectVars, dataVars
<1>1. /\ UNCHANGED <<list, startOffset, insertionOffset>>
      /\ \A u \in Threads : u # t => recursion'[u] = recursion[u]
  BY DEF Loop, LoopBegin, LoopEnd, LoopAwake, LoopSend, LoopCheck, LoopBlock,
         LoopSelect, Typed
<1> QED
  BY <1>1, OffsetTypes DEF ListKept

LEMMA SendStepInvariant ==
  ASSUME IInv, NEW t \in Threads, Send(t) \/ Loop(t)
  PROVE  /\ MutexExclusive' /\ LowerSendsDeliver' /\ CalledByUserCode'
         /\ OffsetsInList' /\ RecursionCountsSends' /\ OffsetOfGlobalSend'
         /\ RemovalInList'
<1> USE DEF IInv
<1>1. OthersKept(t) /\ StackKept(t) /\ ListKept(t)
  BY SendStack, LoopStack, SendLists, LoopLists
<1>2. call' = call /\ call[t].fn = "none"
  BY SendCalls
<1>3. ASSUME NEW u \in Threads, u # t
      PROVE  /\ stack'[u] = stack[u] /\ Sends(u)' = Sends(u)
             /\ \A at : InSend(u, at)' <=> InSend(u, at)
             /\ InApplication(u)' <=> InApplication(u)
  BY <1>1, <1>3 DEF OthersKept, Sends, InApplication, InSend, InSlot, InLoop, Top
<1>4. MutexExclusive'
  <2>1. \A u, v \in Threads : Holds(u, v)' <=> Holds(u, v)
    BY <1>2 DEF Holds
  <2>2. InSend(t, "scan")' => \A u \in Threads : ~Holds(u, t)
    BY <1>1, MutexHolders DEF StackKept, MutexExclusive
  <2> QED
    BY <1>3, <2>1, <2>2 DEF MutexExclusive
<1>5. LowerSendsDeliver'
  BY <1>1, <1>3 DEF LowerSendsDeliver, StackKept
<1>6. CalledByUserCode'
  BY <1>2, <1>3 DEF CalledByUserCode
<1>7. RecursionCountsSends'
  BY <1>1, <1>3 DEF RecursionCountsSends, StackKept, ListKept
<1>8. OffsetOfGlobalSend'
  BY <1>1, <1>3 DEF OffsetOfGlobalSend, StackKept, ListKept, Global
<1>9. OffsetsInList'
  BY <1>1 DEF OffsetsInList, ListKept
<1>10. RemovalInList'
  <2> SUFFICES ASSUME NEW u \in Threads, call[u].fn = "removing"
               PROVE  call[u].i <= Len(list'[call[u].data])
    BY <1>2 DEF RemovalInList
  <2>1. call[u].data \in Threads /\ call[u].i \in Nat
    BY CallTypes DEF Call
  <2>2. call[u].i <= Len(list[call[u].data])
    BY DEF RemovalInList
  <2>3. CASE call[u].data = t
    <3>1. Len(list[t]) <= Len(list'[t])
      BY <1>1, <2>3 DEF ListKept, Holds
    <3>2. list'[t] \in Seq(Entry)
      BY TypeStep DEF Typed, Next
    <3> QED
      BY <2>1, <2>2, <2>3, <3>1, <3>2, OffsetTypes, LenProperties
  <2>4. CASE call[u].data # t
    BY <1>1, <2>1, <2>2, <2>4 DEF ListKept
  <2> QED
    BY <2>3, <2>4
<1> QED
  BY <1>4, <1>5, <1>6, <1>7, <1>8, <1>9, <1>10

\* Initially every list is empty and nobody runs.
LEMMA InitialInvariant == Init => IInv
<1> SUFFICES ASSUME Init PROVE IInv
  OBVIOUS
<1>1. Typed
  BY InitialType
<1>2. \A t \in Threads : /\ call[t].fn = "none" /\ stack[t] = <<>> /\ list[t] = <<>>
                         /\ startOffset[t] = 0 /\ insertionOffset[t] = 0
                         /\ recursion[t] = 0
  BY DEF Init, Idle
<1>3. \A t \in Threads : Len(stack[t]) = 0 /\ Len(list[t]) = 0
  BY <1>2
<1>4. \A t \in Threads : Sends(t) = {}
  BY <1>3 DEF Sends
<1>5. RecursionCountsSends
  BY <1>2, <1>4, FS_EmptySet DEF RecursionCountsSends
<1>6. LowerSendsDeliver
  BY <1>3 DEF LowerSendsDeliver
<1>7. MutexExclusive /\ CalledByUserCode /\ RemovalInList
  BY <1>2 DEF MutexExclusive, Holds, CalledByUserCode, RemovalInList
<1>8. OffsetsInList /\ OffsetOfGlobalSend
  BY <1>2, <1>3 DEF OffsetsInList, OffsetOfGlobalSend
<1> QED
  BY <1>1, <1>5, <1>6, <1>7, <1>8 DEF IInv

LEMMA InvariantStep == IInv /\ [Next]_vars => IInv'
<1> SUFFICES ASSUME IInv, [Next]_vars PROVE IInv'
  OBVIOUS
<1>1. Typed'
  BY TypeStep DEF IInv
<1>2. CASE UNCHANGED vars
  <2>1. UNCHANGED <<list, startOffset, insertionOffset, recursion, stack, call>>
    BY <1>2 DEF vars, dataVars, queueVars
  <2>2. /\ MutexExclusive' = MutexExclusive /\ LowerSendsDeliver' = LowerSendsDeliver
        /\ CalledByUserCode' = CalledByUserCode
    BY <2>1 DEF MutexExclusive, Holds, InSend, Top, LowerSendsDeliver, CalledByUserCode,
         InApplication, InSlot, InLoop
  <2>3. /\ OffsetsInList' = OffsetsInList /\ RecursionCountsSends' = RecursionCountsSends
        /\ OffsetOfGlobalSend' = OffsetOfGlobalSend /\ RemovalInList' = RemovalInList
    BY <2>1 DEF OffsetsInList, RecursionCountsSends, Sends, OffsetOfGlobalSend,
                Global, RemovalInList
  <2> QED
    BY <1>1, <2>2, <2>3 DEF IInv
<1>3. ASSUME NEW t \in Threads, CallStepOf(t) \/ Send(t) \/ Loop(t) PROVE IInv'
  <2>1. /\ MutexExclusive' /\ LowerSendsDeliver' /\ CalledByUserCode'
        /\ OffsetsInList' /\ RecursionCountsSends' /\ OffsetOfGlobalSend'
        /\ RemovalInList'
    BY <1>3, CallStepInvariant, SendStepInvariant
  <2> QED
    BY <1>1, <2>1 DEF IInv
<1>4. Next => \E t \in Threads : CallStepOf(t) \/ Send(t) \/ Loop(t)
  BY DEF Next, CallStepOf
<1> QED
  BY <1>2, <1>3, <1>4

THEOREM Invariance == Spec => []IInv
  BY InitialInvariant, InvariantStep, PTL DEF Spec

(***************************************************************************)
(* No posted event is erased undelivered: what is before the startOffset   *)
(* of a list, which the end of a global send erases, has been taken out    *)
(* (PassedAreTaken), for any threads, objects and requests.                *)
(***************************************************************************)

\* The first n entries of a list have been taken out.
Taken(l, n) == \A k \in 1 .. n : ~Live(l[k])

\* An event is added behind what is taken, by postEvent, moveToThread and
\* sendPostedEvents, since they look behind the insertion offset.
LEMMA InsertTaken ==
  ASSUME NEW l \in Seq(Entry), NEW n \in 0 .. Len(l), NEW offset \in Nat,
         n <= offset, NEW p \in Int, NEW e \in Entry,
         NEW k \in AddPositions(l, offset, p), Taken(l, n)
  PROVE  Taken(Insert(l, k, e), n)
<1> DEFINE front == SubSeq(l, 1, k)
           back == SubSeq(l, k + 1, Len(l))
           upTo == front \o <<e>>
<1>1. Len(l) \in Nat /\ \A i \in 1 .. Len(l) : l[i] \in Entry
  BY LenProperties, ElementOfSeq
<1>2. k \in 0 .. Len(l) /\ n <= k
  BY <1>1 DEF AddPositions
<1>3. front \in Seq(Entry) /\ Len(front) = k /\ \A i \in 1 .. k : front[i] = l[i]
  BY <1>1, <1>2, SubSeqProperties
<1>4. back \in Seq(Entry) /\ Len(back) = Len(l) - k
  BY <1>1, <1>2, SubSeqProperties
<1>5. <<e>> \in Seq(Entry) /\ Len(<<e>>) = 1
  OBVIOUS
<1> HIDE DEF front, back
<1>6. /\ upTo \in Seq(Entry) /\ Len(upTo) = k + 1
      /\ \A i \in 1 .. k : upTo[i] = front[i]
  BY <1>2, <1>3, <1>5, ConcatProperties
<1> HIDE DEF upTo
<1>7. \A i \in 1 .. k + 1 : (upTo \o back)[i] = upTo[i]
  BY <1>2, <1>4, <1>6, ConcatProperties
<1>8. \A i \in 1 .. k : (upTo \o back)[i] = l[i]
  BY <1>2, <1>3, <1>6, <1>7
<1>9. \A i \in 1 .. k : Insert(l, k, e)[i] = l[i]
  BY <1>8 DEF Insert, upTo, front, back
<1> QED
  BY <1>2, <1>9 DEF Taken

\* Nulling an entry takes it out, and leaves what is taken.
LEMMA NullTaken ==
  ASSUME NEW l \in Seq(Entry), NEW i \in 1 .. Len(l), NEW p,
         NEW n \in 0 .. Len(l), Taken(l, n)
  PROVE  /\ Taken([l EXCEPT ![i] = Nulled(p)], n)
         /\ i = n + 1 => Taken([l EXCEPT ![i] = Nulled(p)], n + 1)
<1>1. DOMAIN l = 1 .. Len(l) /\ Len(l) \in Nat
  BY LenProperties
<1>2. \A k \in 1 .. Len(l) : [l EXCEPT ![i] = Nulled(p)][k]
                               = IF k = i THEN Nulled(p) ELSE l[k]
  BY <1>1
<1>3. ~Live(Nulled(p))
  BY DEF Live, Nulled
<1> QED
  BY <1>1, <1>2, <1>3 DEF Taken

LEMMA TakenBefore ==
  ASSUME IInv, PassedAreTaken, NEW t \in Threads
  PROVE  /\ Taken(list[t], startOffset[t]) /\ startOffset[t] \in 0 .. Len(list[t])
         /\ list[t] \in Seq(Entry) /\ Len(list[t]) \in Nat
         /\ insertionOffset[t] \in Nat /\ startOffset[t] \in Nat
         /\ startOffset[t] <= insertionOffset[t]
  BY OffsetTypes DEF IInv, PassedAreTaken, Taken

-----------------------------------------------------------------------------

TakenAfter == \A u \in Threads : Taken(list'[u], startOffset'[u])

LEMMA SameTaken ==
  ASSUME IInv, PassedAreTaken, UNCHANGED <<list, startOffset>>
  PROVE  TakenAfter
  BY TakenBefore DEF TakenAfter

\* The step of a thread at the list of u.
LEMMA OneListTaken ==
  ASSUME IInv, PassedAreTaken, NEW u \in Threads, NEW l,
         list' = [list EXCEPT ![u] = l], Taken(l, startOffset'[u]),
         \A v \in Threads : v # u => startOffset'[v] = startOffset[v]
  PROVE  TakenAfter
<1>1. list'[u] = l /\ \A v \in Threads : v # u => list'[v] = list[v]
  BY DEF IInv, Typed
<1>2. ASSUME NEW v \in Threads, v # u PROVE Taken(list'[v], startOffset'[v])
  BY <1>1, <1>2, TakenBefore
<1> QED
  BY <1>1, <1>2 DEF TakenAfter

LEMMA PostTaken ==
  ASSUME IInv, PassedAreTaken, NEW t \in Threads, Post(t)
  PROVE  TakenAfter
<1> USE DEF queueVars, objectVars, dataVars
<1>1. CASE PostAdd(t)
  <2> DEFINE u == call[t].data
             p == call[t].priority
             e == PostedEntry(t, call[t])
  <2>1. u \in Threads /\ p \in Int
    BY CallTypes DEF IInv, Call
  <2>2. e \in Entry
    BY PostedEntryType DEF IInv
  <2>3. PICK k \in AddPositions(list[u], insertionOffset[u], p) :
          list' = [list EXCEPT ![u] = Insert(list[u], k, e)]
    BY <1>1 DEF PostAdd
  <2>4. startOffset' = startOffset
    BY <1>1 DEF PostAdd
  <2> HIDE DEF u, p, e
  <2>5. Taken(Insert(list[u], k, e), startOffset'[u])
    BY <2>1, <2>2, <2>3, <2>4, TakenBefore, InsertTaken
  <2> QED
    BY <2>1, <2>3, <2>4, <2>5, OneListTaken
<1>2. CASE UNCHANGED <<list, startOffset>>
  BY <1>2, SameTaken
<1> QED
  BY <1>1, <1>2 DEF Post, PostBegin, PostFollow, PostCompress, PostWakeUp

LEMMA RemoveTaken ==
  ASSUME IInv, PassedAreTaken, NEW t \in Threads, Remove(t)
  PROVE  TakenAfter
<1> USE DEF queueVars, objectVars, dataVars
<1>0. call[t].data \in Threads
  BY CallTypes DEF IInv, Call
<1>1. ASSUME NEW u \in Threads, NEW k \in 1 .. Len(list[u]), startOffset' = startOffset,
             list' = [list EXCEPT ![u][k] = Nulled(@.priority)]
      PROVE  TakenAfter
  <2> DEFINE p == list[u][k].priority
  <2>1. list' = [list EXCEPT ![u] = [list[u] EXCEPT ![k] = Nulled(p)]]
    BY <1>1 DEF IInv, Typed
  <2> HIDE DEF p
  <2>2. Taken([list[u] EXCEPT ![k] = Nulled(p)], startOffset'[u])
    BY <1>1, TakenBefore, NullTaken
  <2> QED
    BY <1>1, <2>1, <2>2, OneListTaken
<1>2. CASE RemoveMatch(t)
  <2>1. call[t].i + 1 \in 1 .. Len(list[call[t].data])
    BY <1>2, RemovingType DEF IInv, RemoveMatch
  <2>2. /\ startOffset' = startOffset
        /\ list' = [list EXCEPT ![call[t].data][call[t].i + 1] = Nulled(@.priority)]
    BY <1>2 DEF RemoveMatch
  <2> QED
    BY <1>0, <1>1, <2>1, <2>2
<1>3. CASE UNCHANGED <<list, startOffset>>
  BY <1>3, SameTaken
\* Outside any send nothing is passed, and the list may be compacted.
<1>4. ASSUME NEW l, Compacting(call[t].data), startOffset' = startOffset,
             list' = [list EXCEPT ![call[t].data] = l]
      PROVE  TakenAfter
  <2> DEFINE u == call[t].data
  <2>1. startOffset'[u] = 0
    BY <1>0, <1>4, NoSendNoOffset DEF IInv, Compacting
  <2> HIDE DEF u
  <2>2. Taken(l, startOffset'[u])
    BY <2>1 DEF Taken
  <2>3. list' = [list EXCEPT ![u] = l] /\ u \in Threads
    BY <1>0, <1>4 DEF u
  <2> QED
    BY <1>4, <2>2, <2>3, OneListTaken
<1>5. CASE RemoveKeep(t)
  <2> DEFINE i == call[t].i + 1
             j == call[t].j + 1
             u == call[t].data
             l == [list[u] EXCEPT ![i] = list[u][j], ![j] = list[u][i]]
  <2>1. CASE Compacting(u)
    <3>1. list' = [list EXCEPT ![u][i] = list[u][j], ![u][j] = list[u][i]]
          /\ startOffset' = startOffset
      BY <1>5, <2>1 DEF RemoveKeep
    <3>2. \E m : list' = [list EXCEPT ![u] = m]
      BY <1>0, <3>1 DEF IInv, Typed
    <3> QED
      BY <1>4, <2>1, <3>1, <3>2
  <2>2. CASE ~Compacting(u)
    BY <1>3, <1>5, <2>2 DEF RemoveKeep
  <2> QED
    BY <2>1, <2>2
<1>6. CASE RemoveEnd(t)
  <2>1. CASE Compacting(call[t].data)
    BY <1>4, <1>6, <2>1 DEF RemoveEnd
  <2>2. CASE ~Compacting(call[t].data)
    BY <1>3, <1>6, <2>2 DEF RemoveEnd
  <2> QED
    BY <2>1, <2>2
<1>7. ASSUME NEW k \in 1 .. Len(list[t]), RemoveEvent(t, k) PROVE TakenAfter
  BY <1>1, <1>7 DEF RemoveEvent
<1> QED
  BY <1>2, <1>3, <1>5, <1>6, <1>7 DEF Remove, RemoveBegin, RemoveStart

\* What is moved is taken out of the one list and added behind what is taken
\* in the other.
LEMMA MoveTaken ==
  ASSUME IInv, PassedAreTaken, NEW t \in Threads, Move(t)
  PROVE  TakenAfter
<1> USE DEF queueVars, objectVars, dataVars
<1>1. CASE UNCHANGED <<list, startOffset>>
  BY <1>1, SameTaken
<1>2. CASE MoveStep(t)
  <2> DEFINE k == call[t].i + 1
             e == list[t][k]
             u == call[t].to
             p == e.priority
             moved == [e EXCEPT !.by = 0]
             l == [list[t] EXCEPT ![k] = Nulled(p)]
  <2>1. u \in Threads /\ u # t /\ call[t].i \in Nat
    BY <1>2, CallTypes DEF IInv, Call, CallOf, MoveStep, Moving
  <2>2. list[t] \in Seq(Entry) /\ k \in 1 .. Len(list[t]) /\ e \in Entry
    BY <1>2, <2>1, OffsetTypes DEF IInv, MoveStep, Moving
  <2>3. moved \in Entry /\ p \in Int
    BY <2>2 DEF Entry
  <2>4. startOffset' = startOffset
    BY <1>2 DEF MoveStep
  <2>5. Taken(l, startOffset[t])
    BY <2>2, TakenBefore, NullTaken
  <2>6. ASSUME NEW n \in AddPositions(list[u], insertionOffset[u], p)
        PROVE  Taken(Insert(list[u], n, moved), startOffset[u])
    <3> HIDE DEF u, p, moved
    <3> QED
      BY <2>1, <2>3, <2>6, TakenBefore, InsertTaken
  <2>7. \/ list' = list
        \/ \E n \in AddPositions(list[u], insertionOffset[u], p) :
             list' = [list EXCEPT ![t][k] = Nulled(p),
                                  ![u] = Insert(list[u], n, moved)]
    BY <1>2 DEF MoveStep
  <2>8. ASSUME NEW m, list' = [list EXCEPT ![t][k] = Nulled(p), ![u] = m]
        PROVE  list'[t] = l /\ list'[u] = m
               /\ \A v \in Threads : v # t /\ v # u => list'[v] = list[v]
    <3>1. list \in [Threads -> Seq(Entry)]
      BY DEF IInv, Typed
    <3> HIDE DEF k, u, p
    <3> QED
      BY <2>1, <2>8, <3>1
  <2>9. ASSUME NEW n \in AddPositions(list[u], insertionOffset[u], p),
               list' = [list EXCEPT ![t][k] = Nulled(p),
                                    ![u] = Insert(list[u], n, moved)]
        PROVE  TakenAfter
    <3> DEFINE m == Insert(list[u], n, moved)
    <3>1. Taken(m, startOffset[u])
      BY <2>6
    <3>2. list'[t] = l /\ list'[u] = m
          /\ \A v \in Threads : v # t /\ v # u => list'[v] = list[v]
      BY <2>8, <2>9
    <3> HIDE DEF k, e, u, p, moved, l, m
    <3>3. ASSUME NEW v \in Threads PROVE Taken(list'[v], startOffset'[v])
      BY <2>4, <2>5, <3>1, <3>2, TakenBefore
    <3> QED
      BY <3>3 DEF TakenAfter
  <2> HIDE DEF k, e, u, p, moved, l
  <2> QED
    BY <2>4, <2>7, <2>9, SameTaken
<1> QED
  BY <1>1, <1>2 DEF Move, MoveBegin, MoveEnd

\* A global send advances over entries it has found or made null.
LEMMA AdvanceTaken ==
  ASSUME IInv, PassedAreTaken, NEW t \in Threads, Scanning(t), NEW f,
         f.receiver = Top(t).receiver, f.type = Top(t).type, Advance(t, f),
         NEW l \in Seq(Entry), Taken(l, startOffset[t]),
         Global(f) => ~Live(l[At(t)])
  PROVE  /\ Taken(l, startOffset'[t])
         /\ \A u \in Threads : u # t => startOffset'[u] = startOffset[u]
<1>1. CASE Global(f)
  <2>1. startOffset' = [startOffset EXCEPT ![t] = @ + 1] /\ startOffset[t] \in Nat
    BY <1>1, TakenBefore DEF Advance
  <2>2. At(t) = startOffset[t] + 1
    BY <1>1 DEF At, Position, Global
  <2>3. startOffset'[t] = startOffset[t] + 1
    BY <2>1 DEF IInv, Typed
  <2> QED
    BY <1>1, <2>1, <2>2, <2>3 DEF Taken
<1>2. CASE ~Global(f)
  BY <1>2 DEF Advance
<1> QED
  BY <1>1, <1>2

LEMMA SendTaken ==
  ASSUME IInv, PassedAreTaken, NEW t \in Threads, Send(t)
  PROVE  TakenAfter
<1> USE DEF queueVars, objectVars, dataVars
<1>0. list[t] \in Seq(Entry) /\ Taken(list[t], startOffset[t])
  BY TakenBefore
<1>1. CASE UNCHANGED <<list, startOffset>>
  BY <1>1, SameTaken
<1>2. CASE ScanNull(t) \/ ScanOther(t)
  <2>1. /\ Scanning(t) /\ Advance(t, Top(t)) /\ list' = list
        /\ Global(Top(t)) => ~Live(list[t][At(t)])
    BY <1>2 DEF ScanNull, ScanOther, Current, Global, Matches
  <2>2. /\ Taken(list[t], startOffset'[t])
        /\ \A u \in Threads : u # t => startOffset'[u] = startOffset[u]
    BY <1>0, <2>1, AdvanceTaken
  <2>3. list' = [list EXCEPT ![t] = list[t]]
    BY <2>1 DEF IInv, Typed
  <2> QED
    BY <2>2, <2>3, OneListTaken
<1>3. CASE ScanHold(t) \/ ScanDeliver(t)
  <2> DEFINE e == Current(t)
             p == e.priority
             l == [list[t] EXCEPT ![At(t)] = Nulled(p)]
  <2>1. Scanning(t)
    BY <1>3 DEF ScanHold, ScanDeliver
  <2>2. e \in Entry /\ p \in Int /\ At(t) \in 1 .. Len(list[t])
    BY <2>1, CurrentType DEF IInv, Entry
  <2>3. l \in Seq(Entry) /\ Len(l) = Len(list[t])
    BY <1>0, <2>2, NulledType, ExceptSeq
  <2>4. Taken(l, startOffset[t]) /\ ~Live(l[At(t)])
    <3>1. Taken(l, startOffset[t])
      BY <2>2, TakenBefore, NullTaken
    <3>2. l[At(t)] = Nulled(p)
      BY <1>0, <2>2, LenProperties
    <3> QED
      BY <3>1, <3>2 DEF Live, Nulled
  <2> HIDE DEF l
  <2>5. CASE ScanDeliver(t)
    <3> DEFINE f == [Top(t) EXCEPT !.at = "deliver", !.event = e]
    <3>1. Advance(t, f) /\ list' = [list EXCEPT ![t] = l]
      BY <2>5 DEF ScanDeliver, IInv, Typed, l
    <3>2. f.receiver = Top(t).receiver /\ f.type = Top(t).type
      BY <2>1, CurrentType DEF IInv, Frame
    <3> HIDE DEF f
    <3> QED
      BY <2>1, <2>3, <2>4, <3>1, <3>2, AdvanceTaken, OneListTaken
  <2>6. CASE ScanHold(t)
    <3>1. Advance(t, Top(t))
      BY <2>6 DEF ScanHold
    <3>2. CASE Global(Top(t))
      <4>1. PICK k \in AddPositions(l, insertionOffset[t], p) :
              list' = [list EXCEPT ![t] = Insert(l, k, e)]
        BY <2>6, <3>2 DEF ScanHold, l
      <4> HIDE DEF e, p
      <4>2. /\ Taken(l, startOffset'[t])
            /\ \A u \in Threads : u # t => startOffset'[u] = startOffset[u]
        BY <2>1, <2>3, <2>4, <3>1, AdvanceTaken
      <4>3. startOffset'[t] \in 0 .. Len(l) /\ startOffset'[t] <= insertionOffset[t]
        <5>1. /\ startOffset'[t] <= insertionOffset[t]
              /\ startOffset'[t] <= Len(list[t])
          BY <2>1, <3>1, AdvancedOffset DEF IInv
        <5>2. startOffset'[t] \in Nat
          BY SendType DEF IInv, Typed
        <5> QED
          BY <2>3, <5>1, <5>2, TakenBefore
      <4>4. Taken(Insert(l, k, e), startOffset'[t])
        BY <2>2, <2>3, <4>1, <4>2, <4>3, TakenBefore, InsertTaken
      <4> QED
        BY <4>1, <4>2, <4>4, OneListTaken
    <3>3. CASE ~Global(Top(t))
      BY <1>1, <2>6, <3>1, <3>3 DEF ScanHold, Advance
    <3> QED
      BY <3>2, <3>3
  <2> QED
    BY <1>3, <2>5, <2>6
<1>4. ASSUME NEW waits, CleanUp(t, waits) PROVE TakenAfter
  <2>1. CASE Global(Top(t))
    <3>1. /\ \E l : list' = [list EXCEPT ![t] = l]
          /\ startOffset' = [startOffset EXCEPT ![t] = 0]
      BY <1>4, <2>1 DEF CleanUp
    <3>2. startOffset'[t] = 0 /\ \A u \in Threads : u # t => startOffset'[u] = startOffset[u]
      BY <3>1 DEF IInv, Typed
    <3>3. \A l : Taken(l, startOffset'[t])
      BY <3>2 DEF Taken
    <3> QED
      BY <3>1, <3>2, <3>3, OneListTaken
  <2>2. CASE ~Global(Top(t))
    BY <1>1, <1>4, <2>2 DEF CleanUp
  <2> QED
    BY <2>1, <2>2
<1>5. CASE SendEnd(t) \/ HandlerThrow(t)
  BY <1>4, <1>5 DEF SendEnd, HandlerThrow
<1> QED
  BY <1>1, <1>2, <1>3, <1>5 DEF Send, SendBegin, SendNothing, SendStart, HandlerReturn

-----------------------------------------------------------------------------

LEMMA TakenInitially == Init => PassedAreTaken
<1> SUFFICES ASSUME Init PROVE PassedAreTaken
  OBVIOUS
<1>1. \A t \in Threads : list[t] = <<>> /\ startOffset[t] = 0
  BY DEF Init
<1>2. \A t \in Threads : Len(list[t]) = 0
  BY <1>1
<1> QED
  BY <1>1, <1>2 DEF PassedAreTaken

LEMMA TakenStep == IInv /\ PassedAreTaken /\ [Next]_vars => PassedAreTaken'
<1> SUFFICES ASSUME IInv, PassedAreTaken, [Next]_vars PROVE PassedAreTaken'
  OBVIOUS
<1>1. \A u \in Threads : startOffset'[u] <= Len(list'[u])
  BY InvariantStep DEF IInv, OffsetsInList
<1>2. TakenAfter
  <2>1. CASE UNCHANGED vars
    BY <2>1, SameTaken DEF vars, dataVars, queueVars
  <2>2. ASSUME NEW t \in Threads, Post(t) \/ Send(t) \/ Remove(t) \/ Move(t)
        PROVE  TakenAfter
    BY <2>2, PostTaken, SendTaken, RemoveTaken, MoveTaken
  <2>3. ASSUME NEW t \in Threads, Loop(t) PROVE TakenAfter
    BY <2>3, SameTaken DEF Loop, LoopBegin, LoopEnd, LoopAwake, LoopSend, LoopCheck, LoopBlock,
         LoopSelect,
                           dataVars, queueVars
  <2>4. ASSUME NEW t \in Threads, NEW r \in Objects, Destroy(t, r) PROVE TakenAfter
    BY <2>4, SameTaken DEF Destroy, queueVars
  <2> QED
    BY <2>1, <2>2, <2>3, <2>4 DEF Next
<1> QED
  BY <1>1, <1>2 DEF PassedAreTaken, TakenAfter, Taken

\* No event is erased undelivered, however sends nest and whatever handlers,
\* other sends and other threads post, remove and move meanwhile: when a send
\* of everything ends, each entry it erases has been delivered, removed,
\* moved or posted again.
THEOREM NothingErasedUndelivered == Spec => []PassedAreTaken
<1>1. Init => PassedAreTaken
  BY TakenInitially
<1>2. IInv /\ PassedAreTaken /\ [Next]_vars => PassedAreTaken'
  BY TakenStep
<1> QED
  BY <1>1, <1>2, Invariance, PTL DEF Spec

=============================================================================
