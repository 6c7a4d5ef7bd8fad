--------------------------- MODULE DeliveryProofs ---------------------------
(***************************************************************************)
(* Proofs about what a send finds in the list and when it delivers it, for *)
(* any threads, objects and requests.                                      *)
(*                                                                         *)
(* No thread blocks in its dispatcher with an event to deliver and nobody  *)
(* about to wake it (NoEventStranded).  canWait is the only thing the      *)
(* dispatcher looks at, without the mutex.  A send sets it to TRUE before  *)
(* it scans, a post to FALSE after it added to the list, and sends nest in *)
(* handlers.  The invariant says whose duty what is posted is while        *)
(* canWait is TRUE: it is ahead of the innermost send that has begun to    *)
(* scan, or a thread is moving it in.                                      *)
(*                                                                         *)
(* And a send finds the events in order (SortedTail, QueuedByPriority,     *)
(* PostedOrder): the second part of the module, from "The order of a       *)
(* list" on.                                                               *)
(*                                                                         *)
(* Deferred deletes wait for the handler that posted them                  *)
(* (DeferredDeleteWaits), from "What loopLevel counts" on.                 *)
(***************************************************************************)
EXTENDS PendingProofs

\* The entries of a list that a waiting thread would have to deliver.
WorkIn(l) == {k \in 1 .. Len(l) : Live(l[k]) /\ l[k].type # DeferredDelete}
Work(t) == WorkIn(list[t])

\* A thread that has moved events into the list of t has not told t yet.
Coming(t) == \E u \in Threads : call[u].fn = "moving" /\ call[u].to = t /\ call[u].j > 0

\* t has a wake-up to consume, or a thread that posted to it brings it one.
Woken(t) == t \in woken \/ \E u \in Threads : call[u].fn = "wake" /\ call[u].data = t

\* The n-th call of t is a send that scans, and the innermost such.
Innermost(t, n) ==
  /\ n \in Sends(t) /\ stack[t][n].at # "enter"
  /\ \A m \in Sends(t) : stack[t][m].at # "enter" => m <= n

\* All the work of t is where that send has yet to look.
Ahead(t, n) ==
  \A k \in Work(t) : Position(t, stack[t][n]) < k /\ k <= insertionOffset[t]

\* canWait tells of the work, the innermost send will come to it, or a mover
\* will tell.
Sighted(t) == \/ ~canWait[t] \/ Coming(t) \/ Work(t) = {}
              \/ \E n \in Nat : Innermost(t, n) /\ Ahead(t, n)

\* The dispatcher reads canWait next: there is no send any more.
Checked(t) == InLoop(t, "check") => ~canWait[t] \/ Coming(t) \/ Work(t) = {}

\* A loop calls a send and looks at canWait when it has returned, or its slots
\* of awake() and aboutToBlock() have called something.
Calls(f, g) == f.at \in {"awake", "block"} \/ (f.at = "check" /\ g.fn = "send")

LowerLoopsCheck(t) ==
  \A k \in 1 .. Len(stack[t]) - 1 :
    stack[t][k].fn # "send" => Calls(stack[t][k], stack[t][k + 1])

\* What keeps canWait right for one thread.
Attended(t) == Sighted(t) /\ Checked(t) /\ LowerLoopsCheck(t)

\* The loops that block, or will after aboutToBlock(), without looking at
\* canWait again.
Resolved(t) == {k \in 1 .. Len(stack[t]) : /\ stack[t][k].fn # "send"
                                           /\ stack[t][k].at \in {"block", "wait"}}

\* Meanwhile no other loop consumes the wake-up.
SendsAbove(t) ==
  \A k \in Resolved(t) : \A m \in k + 1 .. Len(stack[t]) : stack[t][m].fn = "send"

\* Such a loop is woken, or will be, or there is nothing to do.
Waited(t) == Resolved(t) # {} => Woken(t) \/ Coming(t) \/ Work(t) = {}

Settled(t) == SendsAbove(t) /\ Waited(t)

\* The inductive invariant.
NothingMissed == \A t \in Threads : Attended(t) /\ Settled(t)

-----------------------------------------------------------------------------
(* What the steps do to the work in a list.                                *)

\* Nulling an entry takes it out of the work.
LEMMA NullWork ==
  ASSUME NEW l \in Seq(Entry), NEW i \in 1 .. Len(l), NEW p
  PROVE  WorkIn([l EXCEPT ![i] = Nulled(p)]) = WorkIn(l) \ {i}
<1> DEFINE m == [l EXCEPT ![i] = Nulled(p)]
<1>1. DOMAIN l = 1 .. Len(l) /\ Len(l) \in Nat
  BY LenProperties
<1>2. Len(m) = Len(l) /\ \A k \in 1 .. Len(l) : m[k] = IF k = i THEN Nulled(p) ELSE l[k]
  BY <1>1, ExceptSeq
<1>3. ~Live(Nulled(p))
  BY DEF Live, Nulled
<1> HIDE DEF m
<1>4. WorkIn(m) = WorkIn(l) \ {i}
  BY <1>2, <1>3 DEF WorkIn
<1> QED
  BY <1>4 DEF m

\* The front of a list has the work of that front.
LEMMA FrontWork ==
  ASSUME NEW l \in Seq(Entry), NEW n \in 0 .. Len(l)
  PROVE  WorkIn(SubSeq(l, 1, n)) \subseteq WorkIn(l)
<1> DEFINE m == SubSeq(l, 1, n)
<1>1. Len(l) \in Nat /\ \A i \in 1 .. n : l[i] \in Entry
  BY LenProperties, ElementOfSeq
<1>2. Len(m) = n /\ \A k \in 1 .. n : m[k] = l[k]
  BY <1>1, SubSeqProperties
<1> HIDE DEF m
<1>3. WorkIn(m) \subseteq WorkIn(l)
  BY <1>1, <1>2 DEF WorkIn
<1> QED
  BY <1>3 DEF m

\* What follows the first n entries has no work when the whole list has none.
LEMMA BackWork ==
  ASSUME NEW l \in Seq(Entry), NEW n \in 0 .. Len(l), WorkIn(l) = {}
  PROVE  WorkIn(SubSeq(l, n + 1, Len(l))) = {}
<1> DEFINE m == SubSeq(l, n + 1, Len(l))
<1>1. Len(l) \in Nat /\ \A i \in 1 .. Len(l) : l[i] \in Entry
  BY LenProperties, ElementOfSeq
<1>2. Len(m) = Len(l) - n /\ \A k \in 1 .. Len(l) - n : m[k] = l[n + k]
  <2>1. \A i \in n + 1 .. Len(l) : l[i] \in Entry
    BY <1>1
  <2>2. /\ Len(m) = IF n + 1 <= Len(l) THEN Len(l) - (n + 1) + 1 ELSE 0
        /\ \A k \in 1 .. Len(l) - (n + 1) + 1 : m[k] = l[n + 1 + k - 1]
    BY <1>1, <2>1, SubSeqProperties
  <2>3. Len(m) = Len(l) - n
    BY <1>1, <2>2
  <2>4. \A k \in 1 .. Len(l) - n : k \in 1 .. Len(l) - (n + 1) + 1 /\ n + 1 + k - 1 = n + k
    BY <1>1
  <2> QED
    BY <2>2, <2>3, <2>4
<1> HIDE DEF m
<1>3. \A k \in 1 .. Len(m) : n + k \in 1 .. Len(l) /\ m[k] = l[n + k]
  BY <1>1, <1>2
<1>4. WorkIn(m) = {}
  BY <1>3 DEF WorkIn
<1> QED
  BY <1>4 DEF m

\* Two entries of a list without work may be swapped.
LEMMA SwapWork ==
  ASSUME NEW l \in Seq(Entry), NEW i \in 1 .. Len(l), NEW j \in 1 .. Len(l),
         WorkIn(l) = {}
  PROVE  WorkIn([l EXCEPT ![i] = l[j], ![j] = l[i]]) = {}
<1> DEFINE m == [l EXCEPT ![i] = l[j], ![j] = l[i]]
<1>1. DOMAIN l = 1 .. Len(l) /\ Len(l) \in Nat
  BY LenProperties
<1>2. DOMAIN m = 1 .. Len(l) /\ Len(m) = Len(l)
      /\ \A k \in 1 .. Len(l) : m[k] \in {l[k], l[i], l[j]}
  <2>1. m \in Seq(Entry) /\ Len(m) = Len(l)
    BY <1>1, ElementOfSeq, ExceptSeq
  <2>2. \A k \in 1 .. Len(l) : m[k] \in {l[k], l[i], l[j]}
    BY <1>1
  <2> QED
    BY <1>1, <2>1, <2>2
<1> HIDE DEF m
<1>3. WorkIn(m) = {}
  BY <1>2 DEF WorkIn
<1> QED
  BY <1>3 DEF m

\* A deferred delete that is posted again, behind the work, adds none and
\* moves none.
LEMMA DeferredWork ==
  ASSUME NEW l \in Seq(Entry), NEW offset \in Nat, NEW p \in Int, NEW e \in Entry,
         e.type = DeferredDelete, NEW k \in AddPositions(l, offset, p),
         \A n \in WorkIn(l) : n <= offset
  PROVE  WorkIn(Insert(l, k, e)) \subseteq WorkIn(l)
<1>1. Len(l) \in Nat /\ k \in 0 .. Len(l) /\ (k = Len(l) \/ offset <= k)
  BY LenProperties DEF AddPositions
<1>2. /\ Len(Insert(l, k, e)) = Len(l) + 1
      /\ \A i \in 1 .. Len(l) + 1 :
           Insert(l, k, e)[i] = IF i <= k THEN l[i] ELSE IF i = k + 1 THEN e ELSE l[i - 1]
  BY <1>1, InsertedEntries
<1> DEFINE m == Insert(l, k, e)
<1> HIDE DEF m
<1>3. ASSUME NEW i \in WorkIn(m) PROVE i \in WorkIn(l)
  <2>1. i \in 1 .. Len(l) + 1 /\ Live(m[i]) /\ m[i].type # DeferredDelete
    BY <1>2 DEF WorkIn, m
  <2>2. CASE i <= k
    <3>1. m[i] = l[i] /\ i \in 1 .. Len(l)
      BY <1>1, <1>2, <2>1, <2>2 DEF m
    <3> QED
      BY <2>1, <3>1 DEF WorkIn
  <2>3. CASE i = k + 1
    BY <1>1, <1>2, <2>1, <2>3 DEF m
  <2>4. CASE i > k + 1
    <3>1. m[i] = l[i - 1] /\ i - 1 \in 1 .. Len(l) /\ i - 1 > k
      BY <1>1, <1>2, <2>1, <2>4 DEF m
    <3>2. i - 1 \in WorkIn(l)
      BY <2>1, <3>1 DEF WorkIn
    <3> QED
      BY <1>1, <3>1, <3>2
  <2> QED
    BY <1>1, <2>1, <2>2, <2>3, <2>4
<1>4. WorkIn(m) \subseteq WorkIn(l)
  BY <1>3
<1> QED
  BY <1>4 DEF m

-----------------------------------------------------------------------------
(* What a step may do for thread t, short of running it.                   *)

\* The thread is where it was.
Still(t) == /\ stack'[t] = stack[t] /\ startOffset'[t] = startOffset[t]
            /\ insertionOffset'[t] = insertionOffset[t]

\* It has been told, will be told, or there is no more to tell.
Told(t) ==
  \/ Coming(t)'
  \/ ~canWait'[t] /\ Woken(t)'
  \/ /\ canWait'[t] = canWait[t] /\ (Coming(t) => Coming(t)') /\ (Woken(t) => Woken(t)')
     /\ \/ WorkIn(list'[t]) \subseteq WorkIn(list[t])
        \/ Sends(t) = {} /\ (WorkIn(list[t]) = {} => WorkIn(list'[t]) = {})

\* A thread that is told, and neither sends nor loops in the step, stays attended.
LEMMA StillAttended ==
  ASSUME NEW t \in Threads, Attended(t), Settled(t), Still(t), Told(t)
  PROVE  Attended(t)' /\ Settled(t)'
<1>1. Sends(t)' = Sends(t) /\ \A at : InLoop(t, at)' <=> InLoop(t, at)
  BY DEF Still, Sends, InLoop, Top
<1>2. \A n \in Nat : Innermost(t, n)' <=> Innermost(t, n)
  BY <1>1 DEF Innermost, Still
<1>3. \A n \in Nat : Position(t, stack[t][n])' = Position(t, stack[t][n])
  BY DEF Position, Global, Still
<1>4. LowerLoopsCheck(t)'
  BY DEF LowerLoopsCheck, Still, Attended
<1>5. Work(t)' = WorkIn(list'[t]) /\ Work(t) = WorkIn(list[t])
  BY DEF Work, WorkIn
<1>9. Resolved(t)' = Resolved(t) /\ SendsAbove(t)'
  BY DEF Resolved, SendsAbove, Still, Settled
<1>6. CASE Coming(t)'
  BY <1>4, <1>6, <1>9 DEF Attended, Sighted, Checked, Settled, Waited
<1>7. CASE ~canWait'[t] /\ Woken(t)'
  BY <1>4, <1>7, <1>9 DEF Attended, Sighted, Checked, Settled, Waited
<1>8. CASE /\ canWait'[t] = canWait[t] /\ (Coming(t) => Coming(t)') /\ (Woken(t) => Woken(t)')
           /\ \/ WorkIn(list'[t]) \subseteq WorkIn(list[t])
              \/ Sends(t) = {} /\ (WorkIn(list[t]) = {} => WorkIn(list'[t]) = {})
  <2>1. Work(t) = {} => Work(t)' = {}
    BY <1>5, <1>8
  <2>2. Checked(t)' /\ Waited(t)'
    BY <1>1, <1>8, <1>9, <2>1 DEF Attended, Checked, Settled, Waited
  <2>3. ASSUME NEW n \in Nat, Innermost(t, n), Ahead(t, n)
        PROVE  Innermost(t, n)' /\ Ahead(t, n)'
    <3>1. Work(t)' \subseteq Work(t)
      BY <1>5, <1>8, <2>3 DEF Innermost
    <3> QED
      BY <1>2, <1>3, <2>3, <3>1 DEF Ahead, Still
  <2>4. Sighted(t)'
    BY <1>8, <2>1, <2>3 DEF Attended, Sighted
  <2> QED
    BY <1>4, <1>9, <2>2, <2>4 DEF Attended, Settled
<1> QED
  BY <1>6, <1>7, <1>8 DEF Told

\* A thread that is neither moving nor about to wake another changes its call.
LEMMA CallKeepsNotices ==
  ASSUME Typed, NEW u \in Threads, call[u].fn \notin {"moving", "wake"},
         \A v \in Threads : v # u => call'[v] = call[v],
         woken \subseteq woken'
  PROVE  \A t \in Threads : (Coming(t) => Coming(t)') /\ (Woken(t) => Woken(t)')
<1> TAKE t \in Threads
<1>1. ASSUME Coming(t) PROVE Coming(t)'
  <2>1. PICK v \in Threads : call[v].fn = "moving" /\ call[v].to = t /\ call[v].j > 0
    BY <1>1 DEF Coming
  <2>2. call'[v] = call[v]
    BY <2>1
  <2> QED
    BY <2>1, <2>2 DEF Coming
<1>2. ASSUME Woken(t) PROVE Woken(t)'
  <2>1. CASE t \in woken
    BY <2>1 DEF Woken
  <2>2. ASSUME NEW v \in Threads, call[v].fn = "wake", call[v].data = t PROVE Woken(t)'
    <3>1. call'[v] = call[v]
      BY <2>2
    <3> QED
      BY <2>2, <3>1 DEF Woken
  <2> QED
    BY <1>2, <2>1, <2>2 DEF Woken
<1> QED
  BY <1>1, <1>2

\* A step that leaves the lists and what is announced.
LEMMA QuietTold ==
  ASSUME Typed, NEW u \in Threads, call[u].fn \notin {"moving", "wake"},
         \A v \in Threads : v # u => call'[v] = call[v],
         UNCHANGED <<canWait, woken>>,
         \A t \in Threads : WorkIn(list'[t]) \subseteq WorkIn(list[t])
  PROVE  \A t \in Threads : Told(t)
<1>1. \A t \in Threads : (Coming(t) => Coming(t)') /\ (Woken(t) => Woken(t)')
  BY CallKeepsNotices
<1> QED
  BY <1>1 DEF Told

\* A poster clears canWait of the list's thread, or brings it a wake-up.
LEMMA PostTold ==
  ASSUME IInv, NEW u \in Threads, Post(u)
  PROVE  \A t \in Threads : Told(t)
<1> USE DEF IInv, queueVars, objectVars, dataVars
<1>1. \A v \in Threads : v # u => call'[v] = call[v]
  BY PostCalls DEF CallKept
<1>2. CASE PostAdd(u)
  <2> DEFINE d == call[u].data
  <2>1. /\ call'[u] = [Idle(u) EXCEPT !.fn = "wake", !.data = d]
        /\ \E l : list' = [list EXCEPT ![d] = l]
        /\ canWait' = [canWait EXCEPT ![d] = FALSE] /\ woken' = woken
        /\ call[u].fn = "post"
    BY <1>2 DEF PostAdd, MayNotWait, Typed
  <2>2. call'[u].fn = "wake" /\ call'[u].data = d
    BY <2>1 DEF Idle
  <2>3. \A t \in Threads : (Coming(t) => Coming(t)') /\ (Woken(t) => Woken(t)')
    BY <1>1, <2>1, CallKeepsNotices
  <2> HIDE DEF d
  <2>4. ASSUME NEW t \in Threads, t = d PROVE Told(t)
    <3>1. Woken(t)'
      BY <2>2, <2>4 DEF Woken
    <3>2. ~canWait'[t]
      BY <2>1, <2>4 DEF Typed
    <3> QED
      BY <3>1, <3>2 DEF Told
  <2>5. ASSUME NEW t \in Threads, t # d PROVE Told(t)
    <3>1. list'[t] = list[t] /\ canWait'[t] = canWait[t]
      BY <2>1, <2>5 DEF Typed
    <3> QED
      BY <2>3, <3>1 DEF Told
  <2> QED
    BY <2>4, <2>5
<1>3. CASE PostWakeUp(u)
  <2>1. /\ call[u].fn = "wake" /\ woken' = woken \cup {call[u].data}
        /\ UNCHANGED <<list, canWait>>
    BY <1>3 DEF PostWakeUp
  <2> TAKE t \in Threads
  <2>2. ASSUME Coming(t) PROVE Coming(t)'
    <3>1. PICK v \in Threads : call[v].fn = "moving" /\ call[v].to = t /\ call[v].j > 0
      BY <2>2 DEF Coming
    <3>2. call'[v] = call[v]
      BY <1>1, <2>1, <3>1
    <3> QED
      BY <3>1, <3>2 DEF Coming
  <2>3. ASSUME Woken(t) PROVE Woken(t)'
    <3>1. ASSUME NEW v \in Threads, call[v].fn = "wake", call[v].data = t PROVE Woken(t)'
      <4>1. CASE v = u
        BY <2>1, <3>1, <4>1 DEF Woken
      <4>2. CASE v # u
        BY <1>1, <3>1, <4>2 DEF Woken
      <4> QED
        BY <4>1, <4>2
    <3> QED
      BY <2>1, <2>3, <3>1 DEF Woken
  <2> QED
    BY <2>1, <2>2, <2>3 DEF Told
<1>4. CASE PostFollow(u) \/ PostCompress(u)
  <2>1. /\ call[u].fn = "post" /\ UNCHANGED <<list, canWait, woken>>
    BY <1>4 DEF PostFollow, PostCompress
  <2> QED
    BY <1>1, <2>1, QuietTold
<1>5. ASSUME NEW r, NEW p, NEW ty, PostBegin(u, r, ty, p) PROVE \A t \in Threads : Told(t)
  <2>1. call[u].fn = "none" /\ UNCHANGED <<list, canWait, woken>>
    BY <1>5 DEF PostBegin, UserCode
  <2> QED
    BY <1>1, <2>1, QuietTold
<1> QED
  BY <1>2, <1>3, <1>4, <1>5 DEF Post

\* A removal takes work out, or compacts a list while no send runs.
LEMMA RemoveTold ==
  ASSUME IInv, NEW u \in Threads, Remove(u)
  PROVE  \A t \in Threads : Told(t)
<1> USE DEF IInv, queueVars, objectVars, dataVars
<1>0. call[u].data \in Threads /\ list \in [Threads -> Seq(Entry)]
  BY CallTypes DEF Call, Typed
<1>1. \A v \in Threads : v # u => call'[v] = call[v]
  BY RemoveCalls DEF CallKept
<1>2. UNCHANGED <<canWait, woken>> /\ call[u].fn \notin {"moving", "wake"}
  BY DEF Remove, RemoveBegin, RemoveStart, RemoveMatch, RemoveKeep, RemoveEnd,
         RemoveEvent, UserCode, Removing
<1>3. CASE \A t \in Threads : WorkIn(list'[t]) \subseteq WorkIn(list[t])
  BY <1>1, <1>2, <1>3, QuietTold
<1>4. ASSUME NEW d \in Threads, NEW k \in 1 .. Len(list[d]),
             list' = [list EXCEPT ![d][k] = Nulled(@.priority)]
      PROVE  \A t \in Threads : Told(t)
  <2> DEFINE p == list[d][k].priority
  <2>1. list' = [list EXCEPT ![d] = [list[d] EXCEPT ![k] = Nulled(p)]]
    BY <1>0, <1>4
  <2> HIDE DEF p
  <2>2. WorkIn([list[d] EXCEPT ![k] = Nulled(p)]) \subseteq WorkIn(list[d])
    BY <1>0, NullWork
  <2>3. \A t \in Threads : WorkIn(list'[t]) \subseteq WorkIn(list[t])
    BY <1>0, <2>1, <2>2
  <2> QED
    BY <1>3, <2>3
<1>5. CASE RemoveMatch(u)
  <2>1. call[u].i + 1 \in 1 .. Len(list[call[u].data])
    BY <1>5, RemovingType DEF RemoveMatch
  <2> QED
    BY <1>0, <1>4, <1>5, <2>1 DEF RemoveMatch
<1>6. ASSUME NEW k \in 1 .. Len(list[u]), RemoveEvent(u, k) PROVE \A t \in Threads : Told(t)
  BY <1>4, <1>6 DEF RemoveEvent
<1>7. CASE list' = list
  BY <1>3, <1>7
\* Outside any send the swap or the truncation keeps a list without work so.
<1>8. ASSUME Compacting(call[u].data), NEW l, list' = [list EXCEPT ![call[u].data] = l],
             WorkIn(list[call[u].data]) = {} => WorkIn(l) = {}
      PROVE  \A t \in Threads : Told(t)
  <2> DEFINE d == call[u].data
  <2>1. Sends(d) = {}
    <3>1. Cardinality(Sends(d)) = 0 /\ IsFiniteSet(Sends(d))
      BY <1>0, <1>8, SendsFinite DEF Compacting, RecursionCountsSends
    <3> QED
      BY <3>1, FS_EmptySet
  <2>2. \A t \in Threads : (Coming(t) => Coming(t)') /\ (Woken(t) => Woken(t)')
    BY <1>1, <1>2, CallKeepsNotices
  <2>3. list'[d] = l /\ \A t \in Threads : t # d => list'[t] = list[t]
    BY <1>0, <1>8
  <2>4. WorkIn(list[d]) = {} => WorkIn(list'[d]) = {}
    BY <1>8, <2>3
  <2> HIDE DEF d
  <2>5. ASSUME NEW t \in Threads PROVE Told(t)
    <3>1. CASE t = d
      BY <1>2, <2>1, <2>2, <2>4, <3>1 DEF Told
    <3>2. CASE t # d
      BY <1>2, <2>2, <2>3, <3>2 DEF Told
    <3> QED
      BY <3>1, <3>2
  <2> QED
    BY <2>5
<1>9. CASE RemoveKeep(u)
  <2> DEFINE d == call[u].data
             i == call[u].i + 1
             j == call[u].j + 1
             l == [list[d] EXCEPT ![i] = list[d][j], ![j] = list[d][i]]
  <2>1. i \in 1 .. Len(list[d]) /\ j \in 1 .. Len(list[d])
    <3>1. /\ call[u].i \in Nat /\ call[u].j \in Nat /\ call[u].fn = "removing"
          /\ call[u].i < Len(list[d]) /\ Len(list[d]) \in Nat
      BY <1>0, <1>9, RemovingType, OffsetTypes DEF RemoveKeep, Removing
    <3>2. call[u].j <= call[u].i
      BY <3>1 DEF RemovalInList
    <3> QED
      BY <3>1, <3>2
  <2>2. CASE Compacting(d)
    <3>1. list' = [list EXCEPT ![d][i] = list[d][j], ![d][j] = list[d][i]]
      BY <1>9, <2>2 DEF RemoveKeep
    <3>2. list' = [list EXCEPT ![d] = l]
      <4> HIDE DEF i, j
      <4> QED
        BY <1>0, <3>1
    <3>3. list[d] \in Seq(Entry)
      BY <1>0
    <3>4. WorkIn(list[d]) = {} => WorkIn(l) = {}
      <4> HIDE DEF i, j
      <4> QED
        BY <2>1, <3>3, SwapWork
    <3> HIDE DEF l
    <3> QED
      BY <1>8, <2>2, <3>2, <3>4
  <2>3. CASE ~Compacting(d)
    BY <1>7, <1>9, <2>3 DEF RemoveKeep
  <2> QED
    BY <2>2, <2>3
<1>10. CASE RemoveEnd(u)
  <2> DEFINE d == call[u].data
             l == SubSeq(list[d], 1, call[u].j)
  <2>1. call[u].j \in 0 .. Len(list[d]) /\ list[d] \in Seq(Entry)
    <3>1. call[u].fn = "removing"
      BY <1>10 DEF RemoveEnd
    <3>2. call[u].i \in Nat /\ call[u].j \in Nat /\ Len(list[d]) \in Nat
      BY <1>0, CallTypes, OffsetTypes DEF Call
    <3>3. call[u].j <= call[u].i /\ call[u].i <= Len(list[d])
      BY <3>1 DEF RemovalInList
    <3> QED
      BY <1>0, <3>2, <3>3
  <2>2. WorkIn(list[d]) = {} => WorkIn(l) = {}
    BY <2>1, FrontWork
  <2>3. CASE Compacting(d)
    <3>1. list' = [list EXCEPT ![d] = l]
      BY <1>0, <1>10, <2>3 DEF RemoveEnd
    <3> HIDE DEF l
    <3> QED
      BY <1>8, <2>2, <2>3, <3>1
  <2>4. CASE ~Compacting(d)
    BY <1>7, <1>10, <2>4 DEF RemoveEnd
  <2> QED
    BY <2>3, <2>4
<1> QED
  BY <1>5, <1>6, <1>7, <1>9, <1>10 DEF Remove, RemoveBegin, RemoveStart

\* What is moved into a list is announced there when the move is over.
LEMMA MoveTold ==
  ASSUME IInv, NEW u \in Threads, Move(u)
  PROVE  \A t \in Threads : Told(t)
<1> USE DEF IInv, queueVars, objectVars, dataVars
<1>0. /\ call[u] \in Call /\ list \in [Threads -> Seq(Entry)]
      /\ call[u].i \in Nat /\ call[u].j \in Nat
  BY CallTypes DEF Call, Typed
<1>1. \A v \in Threads : v # u => call'[v] = call[v]
  BY MoveCalls DEF CallKept
<1>2. ASSUME NEW r, NEW v, MoveBegin(u, r, v) PROVE \A t \in Threads : Told(t)
  <2>1. call[u].fn = "none" /\ UNCHANGED <<list, canWait, woken>>
    BY <1>2 DEF MoveBegin, UserCode
  <2> QED
    BY <1>1, <2>1, QuietTold
<1>3. CASE MoveStep(u)
  <2> DEFINE k == call[u].i + 1
             e == list[u][k]
             mine == Live(e) /\ e.receiver = call[u].receiver
  <2>0. PICK v \in Threads : v = call[u].to
    BY <1>0 DEF Call
  <2>1. /\ v # u /\ call[u].fn = "moving"
        /\ k \in 1 .. Len(list[u]) /\ e \in Entry /\ list[u] \in Seq(Entry)
    <3>1. v # u /\ call[u].fn = "moving" /\ call[u].i < Len(list[u])
      BY <1>3, <2>0, CallTypes DEF Call, CallOf, MoveStep, Moving
    <3> QED
      BY <1>0, <3>1, OffsetTypes
  <2>2. /\ call'[u].fn = "moving" /\ call'[u].to = v
        /\ call'[u].j = call[u].j + (IF mine THEN 1 ELSE 0)
    <3>1. call'[u] = [call[u] EXCEPT !.i = @ + 1, !.j = @ + (IF mine THEN 1 ELSE 0)]
      BY <1>3 DEF MoveStep, Typed
    <3> HIDE DEF mine
    <3> QED
      BY <1>0, <2>0, <2>1, <3>1 DEF Call
  <2>3. UNCHANGED <<canWait, woken>>
    BY <1>3 DEF MoveStep
  <2>4. \A t \in Threads : (Coming(t) => Coming(t)') /\ (Woken(t) => Woken(t)')
    <3> TAKE t \in Threads
    <3>1. ASSUME NEW x \in Threads, call[x].fn = "moving", call[x].to = t, call[x].j > 0
          PROVE  Coming(t)'
      <4>1. call'[x].fn = "moving" /\ call'[x].to = t /\ call'[x].j > 0
        <5> HIDE DEF mine
        <5> QED
          BY <1>0, <1>1, <2>0, <2>2, <3>1
      <4> QED
        BY <4>1 DEF Coming
    <3>2. ASSUME NEW x \in Threads, call[x].fn = "wake", call[x].data = t
          PROVE  Woken(t)'
      <4>1. x # u
        BY <2>1, <3>2
      <4> QED
        BY <1>1, <3>2, <4>1 DEF Woken
    <3> QED
      BY <2>3, <3>1, <3>2 DEF Coming, Woken
  <2>5. CASE ~mine
    <3>1. list' = list
      BY <1>3, <2>5 DEF MoveStep
    <3> QED
      BY <2>3, <2>4, <3>1 DEF Told
  <2>6. CASE mine
    <3> DEFINE p == e.priority
               nulled == [list[u] EXCEPT ![k] = Nulled(p)]
    <3>1. \E l : list' = [list EXCEPT ![u][k] = Nulled(p), ![v] = l]
      BY <1>3, <2>0, <2>6 DEF MoveStep
    <3>2. list'[u] = nulled /\ \A t \in Threads : t # u /\ t # v => list'[t] = list[t]
      <4> HIDE DEF k, p
      <4> QED
        BY <1>0, <2>1, <3>1
    <3>3. WorkIn(nulled) \subseteq WorkIn(list[u])
      <4> HIDE DEF k, p
      <4> QED
        BY <2>1, NullWork
    <3>4. Coming(v)'
      <4>1. call'[u].j > 0
        BY <1>0, <2>2, <2>6
      <4> QED
        BY <2>1, <2>2, <4>1 DEF Coming
    <3> HIDE DEF nulled, mine
    <3>5. ASSUME NEW t \in Threads PROVE Told(t)
      <4>1. CASE t = u
        BY <2>3, <2>4, <3>2, <3>3, <4>1 DEF Told
      <4>2. CASE t = v
        BY <3>4, <4>2 DEF Told
      <4>3. CASE t # u /\ t # v
        BY <2>3, <2>4, <3>2, <4>3 DEF Told
      <4> QED
        BY <4>1, <4>2, <4>3
    <3> QED
      BY <3>5
  <2> QED
    BY <2>5, <2>6
<1>4. CASE MoveEnd(u)
  <2> DEFINE v == call[u].to
  <2>1. v \in Threads /\ v # u /\ call[u].fn = "moving" /\ list' = list
    BY <1>4, CallTypes DEF Call, CallOf, MoveEnd
  <2>2. woken \subseteq woken'
    BY <1>4 DEF MoveEnd
  <2>3. ASSUME NEW t \in Threads, Woken(t) PROVE Woken(t)'
    <3>1. ASSUME NEW x \in Threads, call[x].fn = "wake", call[x].data = t
          PROVE  Woken(t)'
      <4>1. x # u
        BY <2>1, <3>1
      <4> QED
        BY <1>1, <3>1, <4>1 DEF Woken
    <3> QED
      BY <2>2, <2>3, <3>1 DEF Woken
  <2>4. ASSUME NEW t \in Threads, Coming(t), t # v \/ ~(call[u].j > 0)
        PROVE  Coming(t)'
    <3>1. PICK x \in Threads : call[x].fn = "moving" /\ call[x].to = t /\ call[x].j > 0
      BY <2>4 DEF Coming
    <3>2. x # u
      BY <2>4, <3>1
    <3> QED
      BY <1>1, <3>1, <3>2 DEF Coming
  <2>5. CASE call[u].j > 0
    <3>1. canWait' = [canWait EXCEPT ![v] = FALSE] /\ woken' = woken \cup {v}
      BY <1>4, <2>5 DEF MoveEnd, MayNotWait
    <3> HIDE DEF v
    <3>2. ASSUME NEW t \in Threads PROVE Told(t)
      <4>1. CASE t = v
        <5>1. ~canWait'[t] /\ Woken(t)'
          BY <3>1, <4>1 DEF Typed, Woken
        <5> QED
          BY <5>1 DEF Told
      <4>2. CASE t # v
        <5>1. canWait'[t] = canWait[t]
          BY <3>1, <4>2 DEF Typed
        <5> QED
          BY <2>1, <2>3, <2>4, <4>2, <5>1 DEF Told
      <4> QED
        BY <4>1, <4>2
    <3> QED
      BY <3>2
  <2>6. CASE ~(call[u].j > 0)
    <3>1. UNCHANGED <<canWait, woken>>
      BY <1>4, <2>6 DEF MoveEnd
    <3> QED
      BY <2>1, <2>3, <2>4, <2>6, <3>1 DEF Told
  <2> QED
    BY <2>5, <2>6
<1> QED
  BY <1>2, <1>3, <1>4 DEF Move

\* A destructor only begins to remove.
LEMMA DestroyTold ==
  ASSUME IInv, NEW u \in Threads, NEW r \in Objects, Destroy(u, r)
  PROVE  \A t \in Threads : Told(t)
<1>1. call[u].fn = "none" /\ UNCHANGED <<list, canWait, woken>>
  BY DEF Destroy, queueVars
<1>2. \A v \in Threads : v # u => call'[v] = call[v]
  BY DestroyCalls DEF CallKept, IInv
<1> QED
  BY <1>1, <1>2, QuietTold DEF IInv

\* Calls into the queues leave no thread with events it will not look at.
LEMMA CallStepAttended ==
  ASSUME IInv, NothingMissed, NEW u \in Threads, CallStepOf(u)
  PROVE  NothingMissed'
<1>1. \A t \in Threads : Told(t)
  BY PostTold, RemoveTold, MoveTold, DestroyTold DEF CallStepOf
<1>2. \A t \in Threads : Still(t)
  BY CallStepKeeps DEF Still
<1> QED
  BY <1>1, <1>2, StillAttended DEF NothingMissed

-----------------------------------------------------------------------------
(* The thread that sends or loops.                                         *)

\* What a push, a replacement or a pop leaves of the nesting of loops.
LEMMA PushNesting ==
  ASSUME Typed, NEW t \in Threads, NEW f \in Frame, stack' = Push(t, f),
         LowerLoopsCheck(t), InApplication(t)
  PROVE  LowerLoopsCheck(t)' /\ stack'[t] # <<>> /\ Top(t)' = f
<1>1. /\ stack'[t] # <<>> /\ Top(t)' = f
      /\ Len(stack[t]) \in Nat /\ Len(stack'[t]) = Len(stack[t]) + 1
      /\ \A k \in 1 .. Len(stack[t]) : stack'[t][k] = stack[t][k]
      /\ stack'[t][Len(stack[t]) + 1] = f
  BY PushedStack
<1>2. ASSUME NEW k \in 1 .. Len(stack'[t]) - 1, stack'[t][k].fn # "send"
      PROVE  Calls(stack'[t][k], stack'[t][k + 1])
  <2>1. k \in 1 .. Len(stack[t]) /\ stack'[t][k] = stack[t][k]
    BY <1>1
  <2>2. CASE k = Len(stack[t])
    <3>1. stack[t] # <<>>
      BY <2>1, <2>2
    <3> QED
      BY <1>2, <2>1, <2>2, <3>1, ConstantsAssumption
         DEF InApplication, InSend, InSlot, InLoop, Top, Calls
  <2>3. CASE k # Len(stack[t])
    <3>1. k \in 1 .. Len(stack[t]) - 1
      BY <1>1, <2>1, <2>3
    <3>2. k + 1 \in 1 .. Len(stack[t])
      BY <1>1, <3>1
    <3>3. stack'[t][k + 1] = stack[t][k + 1]
      BY <1>1, <3>2
    <3>4. Calls(stack[t][k], stack[t][k + 1])
      BY <1>2, <2>1, <3>1 DEF LowerLoopsCheck
    <3> QED
      BY <2>1, <3>3, <3>4
  <2> QED
    BY <2>2, <2>3
<1> QED
  BY <1>1, <1>2 DEF LowerLoopsCheck

\* The top frame goes on: those below it are as they were.
LEMMA ReplaceNesting ==
  ASSUME Typed, NEW t \in Threads, stack[t] # <<>>, NEW f \in Frame,
         stack' = Becomes(t, f), f.fn = "send" <=> Top(t).fn = "send",
         LowerLoopsCheck(t)
  PROVE  LowerLoopsCheck(t)' /\ stack'[t] # <<>> /\ Top(t)' = f
<1>1. /\ Len(stack[t]) \in Nat \ {0}
      /\ Len(stack'[t]) = Len(stack[t]) /\ stack'[t] # <<>> /\ Top(t)' = f
      /\ \A k \in 1 .. Len(stack[t]) - 1 : stack'[t][k] = stack[t][k]
      /\ stack'[t][Len(stack[t])] = f
  BY ReplacedStack
<1>2. ASSUME NEW k \in 1 .. Len(stack'[t]) - 1, stack'[t][k].fn # "send"
      PROVE  Calls(stack'[t][k], stack'[t][k + 1])
  <2>1. /\ k \in 1 .. Len(stack[t]) - 1 /\ stack'[t][k] = stack[t][k]
        /\ k + 1 = Len(stack[t]) \/ k + 1 \in 1 .. Len(stack[t]) - 1
    BY <1>1
  <2>2. Calls(stack[t][k], stack[t][k + 1])
    BY <1>2, <2>1 DEF LowerLoopsCheck
  <2> QED
    BY <1>1, <2>1, <2>2 DEF Top, Calls
<1> QED
  BY <1>1, <1>2 DEF LowerLoopsCheck

\* Below the top are sends and loops that check, or whose slots run.
LEMMA PopNesting ==
  ASSUME Typed, NEW t \in Threads, NEW n \in 0 .. Len(stack[t]), n < Len(stack[t]),
         stack' = [stack EXCEPT ![t] = SubSeq(@, 1, n)], LowerLoopsCheck(t)
  PROVE  /\ LowerLoopsCheck(t)'
         /\ stack[t][n + 1].fn # "send" => ~InLoop(t, "check")'
<1>0. Len(stack[t]) \in Nat /\ n \in Nat
  BY StackType
<1>1. /\ Len(stack'[t]) = n /\ (n > 0 => Top(t)' = stack[t][n])
      /\ \A k \in 1 .. n : stack'[t][k] = stack[t][k]
  BY PoppedStack
<1>2. ASSUME NEW k \in 1 .. Len(stack'[t]) - 1, stack'[t][k].fn # "send"
      PROVE  Calls(stack'[t][k], stack'[t][k + 1])
  <2>1. /\ k \in 1 .. Len(stack[t]) - 1 /\ stack'[t][k] = stack[t][k]
        /\ stack'[t][k + 1] = stack[t][k + 1]
    BY <1>0, <1>1
  <2> QED
    BY <1>2, <2>1 DEF LowerLoopsCheck
<1>3. ASSUME InLoop(t, "check")'
      PROVE  stack[t][n + 1].fn = "send"
  <2>1. stack'[t] # <<>> /\ Top(t)'.fn # "send" /\ Top(t)'.at = "check"
    BY <1>3 DEF InLoop
  <2>2. n > 0
    <3>1. stack'[t] \in Seq(Frame)
      <4>1. stack'[t] = SubSeq(stack[t], 1, n)
        BY DEF Typed
      <4> QED
        BY <4>1, StackType
    <3> QED
      BY <1>0, <1>1, <2>1, <3>1, EmptySeq
  <2>3. n \in 1 .. Len(stack[t]) - 1
    BY <1>0, <1>1, <2>2
  <2> QED
    BY <1>1, <2>1, <2>2, <2>3 DEF LowerLoopsCheck, Calls
<1> QED
  BY <1>2, <1>3 DEF LowerLoopsCheck

Started(t, n) == n \in Sends(t) /\ stack[t][n].at # "enter"

\* The sends that scan, and their frames, are the same after a step.
SameStarted(t) ==
  \A n \in Nat : /\ Started(t, n)' <=> Started(t, n)
                 /\ Started(t, n) => stack'[t][n] = stack[t][n]

\* What the innermost scanning send has ahead is the same, if the sends are.
LEMMA SameSighted ==
  ASSUME IInv, NEW t \in Threads, Sighted(t), SameStarted(t), call' = call,
         canWait'[t] = canWait[t], list'[t] = list[t],
         startOffset'[t] = startOffset[t], insertionOffset'[t] = insertionOffset[t]
  PROVE  Sighted(t)' /\ (Coming(t)' <=> Coming(t)) /\ Work(t)' = Work(t)
<1>1. (Coming(t)' <=> Coming(t)) /\ Work(t)' = Work(t)
  BY DEF Coming, Work, WorkIn
<1>2. ASSUME NEW n \in Nat, Innermost(t, n), Ahead(t, n)
      PROVE  Innermost(t, n)' /\ Ahead(t, n)'
  <2>0. \A u \in Threads : Sends(u) \subseteq Nat
    BY StackType DEF Sends, IInv
  <2>1. Started(t, n) /\ Started(t, n)' /\ stack'[t][n] = stack[t][n]
    BY <1>2 DEF Innermost, Started, SameStarted
  <2>2. ASSUME NEW m \in Sends(t)', stack'[t][m].at # "enter" PROVE m <= n
    <3>1. m \in Nat
      BY <2>2 DEF Sends
    <3>2. Started(t, m)
      BY <2>2, <3>1 DEF Started, SameStarted
    <3> QED
      BY <1>2, <3>2 DEF Innermost, Started
  <2>3. Innermost(t, n)'
    BY <2>1, <2>2 DEF Innermost, Started
  <2>4. Ahead(t, n)'
    BY <1>1, <1>2, <2>1 DEF Ahead, Position, Global
  <2> QED
    BY <2>3, <2>4
<1> QED
  BY <1>1, <1>2 DEF Sighted

\* A call of a loop, or of a send that has not begun to scan.
LEMMA PushStarted ==
  ASSUME Typed, NEW t \in Threads, NEW f \in Frame, stack' = Push(t, f),
         f.fn = "send" => f.at = "enter"
  PROVE  SameStarted(t)
<1>1. /\ Len(stack[t]) \in Nat /\ Len(stack'[t]) = Len(stack[t]) + 1
      /\ \A k \in 1 .. Len(stack[t]) : stack'[t][k] = stack[t][k]
      /\ stack'[t][Len(stack[t]) + 1] = f
  BY PushedStack
<1> QED
  BY <1>1 DEF SameStarted, Started, Sends

\* The return of a loop, or of a send that has not begun to scan.
LEMMA PopStarted ==
  ASSUME Typed, NEW t \in Threads, NEW n \in 0 .. Len(stack[t]),
         n + 1 = Len(stack[t]), stack' = [stack EXCEPT ![t] = SubSeq(@, 1, n)],
         Top(t).fn = "send" => Top(t).at = "enter"
  PROVE  SameStarted(t)
<1>0. Len(stack[t]) \in Nat /\ n \in Nat
  BY StackType
<1>1. Len(stack'[t]) = n /\ \A k \in 1 .. n : stack'[t][k] = stack[t][k]
  BY PoppedStack
<1> QED
  BY <1>0, <1>1 DEF SameStarted, Started, Sends, Top

\* A loop goes on: the sends that scan are the same.
LEMMA ReplaceStarted ==
  ASSUME Typed, NEW t \in Threads, stack[t] # <<>>, NEW f \in Frame,
         stack' = Becomes(t, f), f.fn # "send", Top(t).fn # "send"
  PROVE  SameStarted(t)
<1>1. /\ Len(stack[t]) \in Nat \ {0}
      /\ Len(stack'[t]) = Len(stack[t])
      /\ \A k \in 1 .. Len(stack[t]) - 1 : stack'[t][k] = stack[t][k]
      /\ stack'[t][Len(stack[t])] = f
  BY ReplacedStack
<1> QED
  BY <1>1 DEF SameStarted, Started, Sends, Top

\* A scanning send on top is the innermost.
LEMMA TopAhead ==
  ASSUME IInv, NEW t \in Threads, Attended(t), stack[t] # <<>>, Top(t).fn = "send",
         Top(t).at # "enter", canWait[t], ~Coming(t)
  PROVE  \A k \in Work(t) : Position(t, Top(t)) < k /\ k <= insertionOffset[t]
<1>1. Len(stack[t]) \in Nat \ {0}
  BY TopType DEF IInv
<1>2. Started(t, Len(stack[t]))
  BY <1>1 DEF Started, Sends, Top
<1>3. ASSUME NEW n \in Nat, Innermost(t, n) PROVE n = Len(stack[t])
  BY <1>1, <1>2, <1>3 DEF Innermost, Started, Sends
<1>4. CASE Work(t) = {}
  BY <1>4
<1>5. ASSUME NEW n \in Nat, Innermost(t, n), Ahead(t, n)
      PROVE  \A k \in Work(t) : Position(t, Top(t)) < k /\ k <= insertionOffset[t]
  <2>1. stack[t][n] = Top(t)
    BY <1>3, <1>5 DEF Top
  <2> QED
    BY <1>5, <2>1 DEF Ahead
<1> QED
  BY <1>4, <1>5 DEF Attended, Sighted

\* The send on top has come to f.
LEMMA AheadAfter ==
  ASSUME IInv, NEW t \in Threads, Attended(t), stack[t] # <<>>, Top(t).fn = "send",
         NEW f \in Frame, f.fn = "send", f.at # "enter", stack' = Becomes(t, f),
         canWait'[t] /\ ~Coming(t)' =>
           \A k \in WorkIn(list'[t]) :
             /\ (IF Global(f) THEN startOffset'[t] ELSE f.i) < k
             /\ k <= insertionOffset'[t]
  PROVE  Attended(t)'
<1>1. LowerLoopsCheck(t)' /\ stack'[t] # <<>> /\ Top(t)' = f
  BY ReplaceNesting DEF Attended, IInv
<1>2. Checked(t)'
  BY <1>1 DEF Checked, InLoop
<1>3. /\ Len(stack[t]) \in Nat \ {0} /\ Len(stack'[t]) = Len(stack[t])
      /\ stack'[t][Len(stack[t])] = f
  BY ReplacedStack DEF IInv
<1>4. PICK n \in Nat : n = Len(stack[t])
  BY <1>3
<1>5. Innermost(t, n)'
  BY <1>3, <1>4 DEF Innermost, Sends
<1>6. ASSUME canWait'[t], ~Coming(t)' PROVE Ahead(t, n)'
  <2>1. Position(t, stack[t][n])' = IF Global(f) THEN startOffset'[t] ELSE f.i
    BY <1>3, <1>4 DEF Position, Global
  <2>2. Work(t)' = WorkIn(list'[t])
    BY DEF Work, WorkIn
  <2> QED
    BY <1>6, <2>1, <2>2 DEF Ahead
<1>7. Sighted(t)'
  BY <1>4, <1>5, <1>6 DEF Sighted
<1> QED
  BY <1>1, <1>2, <1>7 DEF Attended

\* It has advanced over an entry that is no work.
LEMMA AdvanceAttended ==
  ASSUME IInv, NEW t \in Threads, Attended(t), Scanning(t),
         NEW f \in Frame, f.fn = "send", f.at # "enter", f.i = Top(t).i,
         f.receiver = Top(t).receiver, f.type = Top(t).type, Advance(t, f),
         call' = call, insertionOffset' = insertionOffset,
         canWait'[t] => canWait[t] /\ WorkIn(list'[t]) \subseteq WorkIn(list[t]) \ {At(t)}
  PROVE  Attended(t)'
<1> USE DEF IInv
<1>1. stack[t] # <<>> /\ Top(t).fn = "send" /\ Top(t).at = "scan" /\ Top(t) \in Frame
  BY CurrentType DEF Scanning, InSend
<1>2. Coming(t)' <=> Coming(t)
  BY DEF Coming
<1>3. ASSUME canWait'[t], ~Coming(t)', NEW k \in WorkIn(list'[t])
      PROVE  Position(t, Top(t)) + 1 < k /\ k <= insertionOffset[t]
  <2>1. k \in Work(t) /\ k # At(t)
    BY <1>3 DEF Work
  <2>2. Position(t, Top(t)) < k /\ k <= insertionOffset[t]
    BY <1>1, <1>2, <1>3, <2>1, TopAhead
  <2>3. k \in Int /\ Position(t, Top(t)) \in Nat
    BY <2>1, CurrentType DEF Work, WorkIn
  <2> QED
    BY <2>1, <2>2, <2>3 DEF At
<1>4. CASE Global(f)
  <2>1. stack' = Becomes(t, f) /\ startOffset'[t] = startOffset[t] + 1
    BY <1>4 DEF Advance, Typed
  <2>2. Position(t, Top(t)) = startOffset[t]
    BY <1>4 DEF Position, Global
  <2>3. canWait'[t] /\ ~Coming(t)' =>
          \A k \in WorkIn(list'[t]) :
            /\ (IF Global(f) THEN startOffset'[t] ELSE f.i) < k
            /\ k <= insertionOffset'[t]
    BY <1>3, <1>4, <2>1, <2>2
  <2> QED
    BY <1>1, <2>1, <2>3, AheadAfter
<1>5. CASE ~Global(f)
  <2> DEFINE g == [f EXCEPT !.i = @ + 1]
  <2>1. stack' = Becomes(t, g)
    BY <1>5 DEF Advance
  <2>2. /\ g \in Frame /\ g.fn = "send" /\ g.at # "enter" /\ g.i = Top(t).i + 1
        /\ g.receiver = f.receiver /\ g.type = f.type
    BY <1>1 DEF Frame
  <2> HIDE DEF g
  <2>3. ~Global(g) /\ Position(t, Top(t)) = Top(t).i
    BY <1>5, <2>2 DEF Position, Global
  <2>4. canWait'[t] /\ ~Coming(t)' =>
          \A k \in WorkIn(list'[t]) :
            /\ (IF Global(g) THEN startOffset'[t] ELSE g.i) < k
            /\ k <= insertionOffset'[t]
    BY <1>3, <2>2, <2>3
  <2> QED
    BY <1>1, <2>1, <2>2, <2>4, AheadAfter
<1> QED
  BY <1>4, <1>5

\* A send that ends has left nothing, or says so in canWait.
LEMMA EndAttended ==
  ASSUME IInv, NEW t \in Threads, Attended(t),
         NEW n \in 0 .. Len(stack[t]), n < Len(stack[t]),
         stack' = [stack EXCEPT ![t] = SubSeq(@, 1, n)],
         canWait'[t] => WorkIn(list'[t]) = {} \/ Coming(t)'
  PROVE  Attended(t)'
<1>1. LowerLoopsCheck(t)'
  BY PopNesting DEF Attended, IInv
<1>2. Work(t)' = WorkIn(list'[t])
  BY DEF Work, WorkIn
<1> QED
  BY <1>1, <1>2 DEF Attended, Sighted, Checked

-----------------------------------------------------------------------------
(* The steps of sends and of loops.                                        *)

\* While it is on top, a send that ends has come past all the work.
LEMMA ScannedAll ==
  ASSUME IInv, NEW t \in Threads, Attended(t), InSend(t, "scan"), ~Scanning(t),
         canWait[t], ~Coming(t)
  PROVE  WorkIn(list[t]) = {}
<1>1. stack[t] # <<>> /\ Top(t).fn = "send" /\ Top(t).at = "scan"
  BY DEF InSend
<1>2. \A k \in Work(t) : Position(t, Top(t)) < k /\ k <= insertionOffset[t]
  BY <1>1, TopAhead
<1>3. Position(t, Top(t)) \in Int /\ Len(list[t]) \in Nat /\ insertionOffset[t] \in Nat
  <2>1. Top(t) \in Frame
    BY <1>1, TopType DEF IInv
  <2> QED
    BY <2>1, OffsetTypes DEF Position, Frame, IInv
<1>4. Position(t, Top(t)) >= Len(list[t]) \/ Position(t, Top(t)) >= insertionOffset[t]
  BY <1>3 DEF Scanning
<1>5. \A k \in Work(t) : k \in Nat /\ k <= Len(list[t])
  BY <1>3 DEF Work, WorkIn
<1> QED
  BY <1>2, <1>3, <1>4, <1>5 DEF Work

\* The thread's own send, from its entry to its return.
LEMMA SendAttended ==
  ASSUME IInv, PassedAreTaken, NEW t \in Threads, Attended(t), Send(t)
  PROVE  Attended(t)'
<1> USE DEF IInv, queueVars, objectVars, dataVars
<1>0. /\ list[t] \in Seq(Entry) /\ Len(list[t]) \in Nat /\ Len(stack[t]) \in Nat
      /\ insertionOffset[t] \in Nat /\ startOffset[t] \in Nat
      /\ startOffset[t] <= Len(list[t])
  BY OffsetTypes, StackType
<1>c. call' = call
  BY SendCalls
<1>1. ASSUME NEW r \in Objects \cup {None}, NEW ty \in Types \cup {Any},
             SendBegin(t, r, ty)
      PROVE  Attended(t)'
  <2> DEFINE f == SendFrame(r, ty)
  <2>1. f \in Frame /\ f.fn = "send" /\ f.at = "enter"
    BY FrameTypes DEF SendFrame
  <2>2. /\ InApplication(t)
        /\ stack' = Push(t, f) /\ UNCHANGED <<list, startOffset, insertionOffset, canWait>>
    BY <1>1 DEF SendBegin, UserCode, InApplication
  <2> HIDE DEF f
  <2>3. LowerLoopsCheck(t)' /\ stack'[t] # <<>> /\ Top(t)' = f
    BY <2>1, <2>2, PushNesting DEF Attended
  <2>4. Checked(t)'
    BY <2>1, <2>3 DEF Checked, InLoop
  <2>5. Sighted(t)'
    BY <1>c, <2>1, <2>2, PushStarted, SameSighted DEF Attended
  <2> QED
    BY <2>3, <2>4, <2>5 DEF Attended
<1>2. CASE SendNothing(t)
  <2> DEFINE n == Len(stack[t]) - 1
  <2>1. stack[t] # <<>> /\ stack' = Pop(t) /\ list' = list
        /\ canWait' = [canWait EXCEPT ![t] = list[t] = <<>>]
    BY <1>2 DEF SendNothing, InSend
  <2>2. n \in 0 .. Len(stack[t]) /\ n < Len(stack[t])
    BY <2>1, TopType
  <2>3. stack' = [stack EXCEPT ![t] = SubSeq(@, 1, n)]
    BY <2>1 DEF Pop, Typed
  <2>4. canWait'[t] = (list[t] = <<>>)
    BY <2>1, Zenon DEF Typed
  <2>5. ASSUME canWait'[t] PROVE WorkIn(list'[t]) = {}
    <3>1. list'[t] = <<>>
      BY <2>1, <2>4, <2>5, Zenon
    <3>2. Len(list'[t]) = 0
      BY <3>1
    <3> QED
      BY <3>2 DEF WorkIn
  <2> HIDE DEF n
  <2> QED
    BY <2>2, <2>3, <2>5, EndAttended
<1>3. CASE SendStart(t)
  <2> DEFINE f == [Top(t) EXCEPT !.at = "scan", !.i = startOffset[t]]
  <2>1. stack[t] # <<>> /\ Top(t) \in Frame /\ Top(t).fn = "send"
    BY <1>3, TopType DEF SendStart, InSend
  <2>2. f \in Frame /\ f.fn = "send" /\ f.at = "scan" /\ f.i = startOffset[t]
    BY <1>0, <2>1 DEF Frame
  <2>3. /\ stack' = Becomes(t, f) /\ startOffset' = startOffset /\ list' = list
        /\ insertionOffset'[t] = Len(list[t])
    BY <1>3 DEF SendStart, Typed
  <2> HIDE DEF f
  <2>4. \A k \in WorkIn(list[t]) : startOffset[t] < k /\ k <= Len(list[t])
    <3> TAKE k \in WorkIn(list[t])
    <3>1. k \in 1 .. Len(list[t]) /\ Live(list[t][k])
      BY DEF WorkIn
    <3>2. ~(k \in 1 .. startOffset[t])
      BY <3>1 DEF PassedAreTaken
    <3> QED
      BY <1>0, <3>1, <3>2
  <2> QED
    BY <2>1, <2>2, <2>3, <2>4, AheadAfter
<1>4. CASE ScanNull(t) \/ ScanOther(t)
  <2>1. /\ Scanning(t) /\ Advance(t, Top(t)) /\ UNCHANGED <<list, insertionOffset>>
        /\ Top(t) \in Frame /\ Top(t).fn = "send" /\ Top(t).at = "scan"
    BY <1>4, CurrentType DEF ScanNull, ScanOther, Scanning, InSend
  <2>2. canWait'[t] => canWait[t] /\ WorkIn(list'[t]) \subseteq WorkIn(list[t]) \ {At(t)}
    <3>1. CASE ScanOther(t)
      BY <3>1 DEF ScanOther, MayNotWait, Typed
    <3>2. CASE ScanNull(t)
      <4>1. canWait' = canWait /\ ~Live(list[t][At(t)])
        BY <3>2 DEF ScanNull, Current
      <4> QED
        BY <2>1, <4>1 DEF WorkIn
    <3> QED
      BY <1>4, <3>1, <3>2
  <2> QED
    BY <1>c, <2>1, <2>2, AdvanceAttended
<1>5. CASE ScanHold(t) \/ ScanDeliver(t)
  <2> DEFINE e == Current(t)
             p == e.priority
             l == [list[t] EXCEPT ![At(t)] = Nulled(p)]
  <2>1. /\ Scanning(t) /\ Top(t).fn = "send" /\ Top(t).at = "scan" /\ stack[t] # <<>>
        /\ UNCHANGED <<canWait, insertionOffset>>
    BY <1>5 DEF ScanHold, ScanDeliver, Scanning, InSend
  <2>2. /\ e \in Entry /\ p \in Int /\ At(t) \in 1 .. Len(list[t]) /\ Top(t) \in Frame
    BY <2>1, CurrentType DEF Entry
  <2>3. l \in Seq(Entry) /\ WorkIn(l) = WorkIn(list[t]) \ {At(t)}
    <3> HIDE DEF p
    <3> QED
      BY <1>0, <2>2, NulledType, NullWork, ExceptSeq
  <2> HIDE DEF l
  <2>4. CASE ScanDeliver(t)
    <3> DEFINE f == [Top(t) EXCEPT !.at = "deliver", !.event = e]
    <3>1. Advance(t, f) /\ list'[t] = l
      BY <2>4 DEF ScanDeliver, Typed, l
    <3>2. /\ f \in Frame /\ f.fn = "send" /\ f.at = "deliver" /\ f.i = Top(t).i
          /\ f.receiver = Top(t).receiver /\ f.type = Top(t).type
      BY <2>1, <2>2 DEF Frame
    <3> HIDE DEF f
    <3> QED
      BY <1>c, <2>1, <2>3, <3>1, <3>2, AdvanceAttended
  <2>5. CASE ScanHold(t)
    <3>1. Advance(t, Top(t)) /\ e.type = DeferredDelete
      BY <2>5 DEF ScanHold, Held
    <3>2. CASE ~Global(Top(t))
      <4>1. list' = list
        BY <2>5, <3>2 DEF ScanHold
      <4>2. At(t) \notin WorkIn(list[t])
        BY <3>1 DEF WorkIn, Current
      <4> QED
        BY <1>c, <2>1, <2>2, <3>1, <4>1, <4>2, AdvanceAttended
    <3>3. CASE Global(Top(t))
      <4>1. PICK k \in AddPositions(l, insertionOffset[t], p) :
              list' = [list EXCEPT ![t] = Insert(l, k, e)]
        BY <2>5, <3>3 DEF ScanHold, l
      <4>2. list'[t] = Insert(l, k, e)
        BY <4>1 DEF Typed
      <4> HIDE DEF e, p
      <4>3. ASSUME canWait'[t], ~Coming(t)
            PROVE  WorkIn(list'[t]) \subseteq WorkIn(list[t]) \ {At(t)}
        <5>1. \A m \in WorkIn(l) : m <= insertionOffset[t]
          BY <2>1, <2>2, <2>3, <4>3, TopAhead DEF Work
        <5>2. WorkIn(Insert(l, k, e)) \subseteq WorkIn(l)
          BY <1>0, <2>2, <2>3, <3>1, <4>1, <5>1, DeferredWork
        <5> QED
          BY <2>3, <4>2, <5>2
      <4>4. CASE Coming(t)
        <5>1. Coming(t)'
          BY <1>c, <4>4 DEF Coming
        <5>2. stack' = Becomes(t, Top(t))
          BY <3>1, <3>3 DEF Advance
        <5> QED
          BY <2>1, <2>2, <5>1, <5>2, AheadAfter
      <4>5. CASE ~Coming(t)
        BY <1>c, <2>1, <2>2, <3>1, <4>3, <4>5, AdvanceAttended
      <4> QED
        BY <4>4, <4>5
    <3> QED
      BY <3>2, <3>3
  <2> QED
    BY <1>5, <2>4, <2>5
<1>6. CASE HandlerReturn(t)
  <2> DEFINE f == [Top(t) EXCEPT !.at = "scan", !.event = Nulled(0)]
  <2>1. stack[t] # <<>> /\ Top(t) \in Frame /\ Top(t).fn = "send" /\ Top(t).at = "deliver"
    BY <1>6, TopType DEF HandlerReturn, InSend
  <2>2. /\ f \in Frame /\ f.fn = "send" /\ f.at = "scan" /\ f.i = Top(t).i
        /\ f.receiver = Top(t).receiver /\ f.type = Top(t).type
    BY <2>1, FrameTypes DEF Frame
  <2>3. /\ stack' = Becomes(t, f)
        /\ UNCHANGED <<list, startOffset, insertionOffset, canWait>>
    BY <1>6 DEF HandlerReturn
  <2> HIDE DEF f
  <2>4. Coming(t)' <=> Coming(t)
    BY <1>c DEF Coming
  <2>5. canWait'[t] /\ ~Coming(t)' =>
          \A k \in WorkIn(list'[t]) :
            /\ (IF Global(f) THEN startOffset'[t] ELSE f.i) < k
            /\ k <= insertionOffset'[t]
    <3>1. canWait[t] /\ ~Coming(t) =>
            \A k \in Work(t) : Position(t, Top(t)) < k /\ k <= insertionOffset[t]
      BY <2>1, TopAhead
    <3>2. Position(t, Top(t)) = IF Global(f) THEN startOffset[t] ELSE f.i
      BY <2>2 DEF Position, Global
    <3> QED
      BY <2>3, <2>4, <3>1, <3>2 DEF Work
  <2> QED
    BY <2>1, <2>2, <2>3, <2>5, AheadAfter
<1>7. CASE SendEnd(t)
  <2> DEFINE n == Len(stack[t]) - 1
  <2>1. /\ stack[t] # <<>> /\ stack' = Pop(t) /\ InSend(t, "scan") /\ ~Scanning(t)
        /\ CleanUp(t, canWait[t])
    BY <1>7 DEF SendEnd, InSend
  <2>2. n \in 0 .. Len(stack[t]) /\ n < Len(stack[t])
    BY <2>1, TopType
  <2>3. stack' = [stack EXCEPT ![t] = SubSeq(@, 1, n)]
    BY <2>1 DEF Pop, Typed
  <2>4. canWait'[t] = canWait[t]
    BY <2>1, Zenon DEF CleanUp, Typed
  <2>5. ASSUME canWait'[t] PROVE WorkIn(list'[t]) = {} \/ Coming(t)'
    <3>1. CASE Coming(t)
      BY <1>c, <3>1 DEF Coming
    <3>2. CASE ~Coming(t)
      <4>1. WorkIn(list[t]) = {}
        BY <2>1, <2>4, <2>5, <3>2, ScannedAll
      <4>2. \/ list'[t] = list[t]
            \/ list'[t] = SubSeq(list[t], startOffset[t] + 1, Len(list[t]))
        BY <2>1 DEF CleanUp, Typed
      <4>3. WorkIn(SubSeq(list[t], startOffset[t] + 1, Len(list[t]))) = {}
        BY <1>0, <4>1, BackWork
      <4> QED
        BY <4>1, <4>2, <4>3
    <3> QED
      BY <3>1, <3>2
  <2> HIDE DEF n
  <2> QED
    BY <2>2, <2>3, <2>5, EndAttended
<1>8. CASE HandlerThrow(t)
  <2>1. ~canWait'[t]
    BY <1>8 DEF HandlerThrow, CleanUp, Typed
  <2>2. PICK n \in 0 .. Len(stack[t]) :
          stack' = [stack EXCEPT ![t] = SubSeq(@, 1, n)] /\ n < Len(stack[t])
    BY <1>8, ThrownStack
  <2> QED
    BY <2>1, <2>2, EndAttended
<1>9. ASSUME NEW q \in SendRequests, SendBegin(t, q[1], q[2])
      PROVE  Attended(t)'
  BY <1>1, <1>9, ConstantsAssumption
<1> QED
  BY <1>2, <1>3, <1>4, <1>5, <1>6, <1>7, <1>8, <1>9 DEF Send

\* The thread's own loop, from processEvents to the wait of the dispatcher.
LEMMA LoopAttended ==
  ASSUME IInv, NEW t \in Threads, Attended(t), Loop(t)
  PROVE  Attended(t)'
<1> USE DEF IInv, queueVars, objectVars, dataVars
<1>0. Len(stack[t]) \in Nat
  BY StackType
<1>c. call' = call /\ UNCHANGED <<list, startOffset, insertionOffset, canWait>>
  <2>1. UNCHANGED <<list, startOffset, insertionOffset, canWait>>
    BY DEF Loop, LoopBegin, LoopEnd, LoopAwake, LoopSend, LoopCheck, LoopBlock,
         LoopSelect
  <2> QED
    BY <2>1, SendCalls
<1>1. ASSUME NEW fn \in {"exec", "process"}, LoopBegin(t, fn) PROVE Attended(t)'
  <2> DEFINE f == LoopFrame(fn)
  <2>1. f \in Frame /\ f.fn # "send" /\ f.at = "test"
    BY FrameTypes DEF LoopFrame
  <2>2. InApplication(t) /\ stack' = Push(t, f)
    BY <1>1 DEF LoopBegin, UserCode, InApplication
  <2> HIDE DEF f
  <2>3. LowerLoopsCheck(t)' /\ stack'[t] # <<>> /\ Top(t)' = f
    BY <2>1, <2>2, PushNesting DEF Attended
  <2>4. Checked(t)'
    BY <2>1, <2>3 DEF Checked, InLoop
  <2>5. Sighted(t)'
    BY <1>c, <2>1, <2>2, PushStarted, SameSighted DEF Attended
  <2> QED
    BY <2>3, <2>4, <2>5 DEF Attended
\* The loop calls sendPostedEvents, and looks at canWait afterwards.
<1>2. CASE LoopSend(t)
  <2>1. PICK n \in Nat \ {0} : n = Len(stack[t])
    BY <1>2, TopType DEF LoopSend, InLoop
  <2> DEFINE f == [stack[t][n] EXCEPT !.at = "check"]
             below == [stack[t] EXCEPT ![n] = f]
             g == SendFrame(None, Any)
  <2>2. stack[t] # <<>> /\ Top(t).fn # "send" /\ Top(t) \in Frame /\ stack[t] \in Seq(Frame)
    BY <1>2, TopType DEF LoopSend, InLoop, Typed
  <2>3. f \in Frame /\ f.fn # "send" /\ f.at = "check" /\ stack[t][n].fn # "send"
    BY <2>1, <2>2 DEF Top, Frame
  <2>4. /\ below \in Seq(Frame) /\ Len(below) = n /\ below[n] = f
        /\ \A k \in 1 .. n - 1 : below[k] = stack[t][k]
    BY <2>1, <2>2, <2>3, ExceptSeq
  <2>5. g \in Frame /\ g.fn = "send" /\ g.at = "enter"
    BY FrameTypes DEF SendFrame
  <2>6. stack'[t] = Append(below, g)
    BY <1>2, <2>1 DEF LoopSend, Typed
  <2> HIDE DEF f, g, below
  <2>7. /\ Len(stack'[t]) = n + 1 /\ stack'[t][n + 1] = g
        /\ \A k \in 1 .. n : stack'[t][k] = below[k]
    BY <2>4, <2>5, <2>6, AppendProperties
  <2>8. SameStarted(t)
    <3>1. \A k \in Nat : Started(t, k) => k \in 1 .. n - 1 /\ stack'[t][k] = stack[t][k]
      BY <2>1, <2>3, <2>4, <2>7 DEF Started, Sends
    <3>2. \A k \in Nat : Started(t, k)' => k \in 1 .. n - 1 /\ stack'[t][k] = stack[t][k]
      <4> SUFFICES ASSUME NEW k \in Nat, Started(t, k)'
                   PROVE  k \in 1 .. n - 1 /\ stack'[t][k] = stack[t][k]
        OBVIOUS
      <4>1. k \in 1 .. n + 1 /\ stack'[t][k].fn = "send" /\ stack'[t][k].at # "enter"
        BY <2>7 DEF Started, Sends
      <4>2. k # n + 1 /\ k # n
        BY <2>3, <2>4, <2>5, <2>7, <4>1
      <4> QED
        BY <2>4, <2>7, <4>1, <4>2
    <3>3. ASSUME NEW k \in 1 .. n - 1, stack'[t][k] = stack[t][k]
          PROVE  Started(t, k)' <=> Started(t, k)
      BY <2>1, <2>7, <3>3 DEF Started, Sends
    <3> QED
      BY <3>1, <3>2, <3>3 DEF SameStarted
  <2>9. Sighted(t)'
    BY <1>c, <2>8, SameSighted DEF Attended
  <2>10. ~InLoop(t, "check")'
    BY <2>5, <2>7 DEF InLoop, Top
  <2>11. LowerLoopsCheck(t)'
    <3> SUFFICES ASSUME NEW k \in 1 .. n, stack'[t][k].fn # "send"
                 PROVE  Calls(stack'[t][k], stack'[t][k + 1])
      BY <2>7 DEF LowerLoopsCheck
    <3>1. CASE k = n
      BY <2>3, <2>4, <2>5, <2>7, <3>1 DEF Calls
    <3>2. CASE k # n
      <4>1. k \in 1 .. n - 1 /\ stack'[t][k] = stack[t][k]
        <5>1. k \in 1 .. n - 1
          BY <2>1, <3>2
        <5>2. stack'[t][k] = below[k]
          BY <2>7
        <5>3. below[k] = stack[t][k]
          BY <2>4, <5>1
        <5> QED
          BY <5>1, <5>2, <5>3
      <4>2. Calls(stack[t][k], stack[t][k + 1])
        BY <2>1, <4>1 DEF Attended, LowerLoopsCheck
      <4>3. stack'[t][k + 1].fn = stack[t][k + 1].fn \/ stack[t][k + 1].fn # "send"
        <5>1. k + 1 = n \/ k + 1 \in 1 .. n - 1
          BY <2>1, <4>1
        <5>2. k + 1 = n => stack[t][k + 1].fn # "send"
          BY <2>3
        <5>3. k + 1 \in 1 .. n - 1 => stack'[t][k + 1] = stack[t][k + 1]
          BY <2>4, <2>7
        <5> QED
          BY <5>1, <5>2, <5>3
      <4> QED
        BY <4>1, <4>2, <4>3 DEF Calls
    <3> QED
      BY <3>1, <3>2
  <2> QED
    BY <2>9, <2>10, <2>11 DEF Attended, Checked
<1>3. ASSUME stack[t] # <<>>, Top(t).fn # "send", NEW a,
             a \in {"test", "awake", "block", "wait", "poll"},
             stack' = Becomes(t, [Top(t) EXCEPT !.at = a])
      PROVE  Attended(t)'
  <2> DEFINE f == [Top(t) EXCEPT !.at = a]
  <2>1. f \in Frame /\ f.fn = Top(t).fn /\ f.at = a
    BY <1>3, TopType DEF Frame
  <2> HIDE DEF f
  <2>2. stack' = Becomes(t, f)
    BY <1>3 DEF f
  <2>3. LowerLoopsCheck(t)' /\ stack'[t] # <<>> /\ Top(t)' = f
    BY <1>3, <2>1, <2>2, ReplaceNesting DEF Attended
  <2>4. Sighted(t)'
    BY <1>3, <1>c, <2>1, <2>2, ReplaceStarted, SameSighted DEF Attended
  <2>5. Checked(t)'
    BY <1>3, <2>1, <2>3 DEF Checked, InLoop
  <2> QED
    BY <2>3, <2>4, <2>5 DEF Attended
<1>4. ASSUME stack[t] # <<>>, Top(t).fn # "send", stack' = Pop(t) PROVE Attended(t)'
  <2>1. PICK n \in 0 .. Len(stack[t]) : n + 1 = Len(stack[t]) /\ n = Len(stack[t]) - 1
    <3>1. Len(stack[t]) \in Nat \ {0}
      BY <1>4, TopType
    <3>2. /\ Len(stack[t]) - 1 \in 0 .. Len(stack[t])
          /\ Len(stack[t]) - 1 + 1 = Len(stack[t])
      BY <3>1
    <3> QED
      BY <3>2
  <2>2. stack' = [stack EXCEPT ![t] = SubSeq(@, 1, n)]
    BY <1>4, <2>1 DEF Pop, Typed
  <2>3. stack[t][n + 1].fn # "send"
    BY <1>4, <2>1 DEF Top
  <2>4. n < Len(stack[t])
    BY <1>0, <2>1
  <2>5. LowerLoopsCheck(t)' /\ ~InLoop(t, "check")'
    BY <2>2, <2>3, <2>4, PopNesting DEF Attended
  <2>6. SameStarted(t)
    BY <1>4, <2>1, <2>2, PopStarted
  <2>7. Sighted(t)'
    BY <1>c, <2>6, SameSighted DEF Attended
  <2> QED
    BY <2>5, <2>7 DEF Attended, Checked
<1>5. CASE LoopAwake(t) \/ LoopCheck(t) \/ LoopBlock(t)
  <2>1. stack[t] # <<>> /\ Top(t).fn # "send"
    BY <1>5 DEF LoopAwake, LoopCheck, LoopBlock, InLoop
  <2>2. \E a \in {"awake", "block", "wait", "poll"} :
          stack' = Becomes(t, [Top(t) EXCEPT !.at = a])
    BY <1>5 DEF LoopAwake, LoopCheck, LoopBlock
  <2> QED
    BY <1>3, <2>1, <2>2
<1>6. CASE LoopSelect(t)
  <2>1. stack[t] # <<>> /\ Top(t).fn # "send"
    BY <1>6 DEF LoopSelect, InLoop
  <2>2. stack' = Becomes(t, [Top(t) EXCEPT !.at = "test"]) \/ stack' = Pop(t)
    BY <1>6 DEF LoopSelect
  <2> QED
    BY <1>3, <1>4, <2>1, <2>2
<1>7. CASE LoopEnd(t)
  <2>1. stack[t] # <<>> /\ Top(t).fn # "send" /\ stack' = Pop(t)
    BY <1>7 DEF LoopEnd, InLoop
  <2> QED
    BY <1>4, <2>1
<1> QED
  BY <1>1, <1>2, <1>5, <1>6, <1>7 DEF Loop

-----------------------------------------------------------------------------
(* Loops that have decided to wait.                                        *)

\* A call of f, a step of the top frame to f, and the end of frames.
LEMMA PushResolved ==
  ASSUME Typed, NEW t \in Threads, NEW f \in Frame, stack' = Push(t, f), SendsAbove(t),
         f.fn = "send" \/ (Resolved(t) = {} /\ f.at \notin {"block", "wait"})
  PROVE  Resolved(t)' = Resolved(t) /\ SendsAbove(t)'
<1>1. /\ Len(stack[t]) \in Nat /\ Len(stack'[t]) = Len(stack[t]) + 1
      /\ \A k \in 1 .. Len(stack[t]) : stack'[t][k] = stack[t][k]
      /\ stack'[t][Len(stack[t]) + 1] = f
  BY PushedStack
<1>2. \A k : k \in 1 .. Len(stack'[t]) <=> k \in 1 .. Len(stack[t]) \/ k = Len(stack[t]) + 1
  BY <1>1
<1>3. Resolved(t)' = Resolved(t)
  BY <1>1, <1>2 DEF Resolved
<1>4. ASSUME NEW k \in Resolved(t), NEW m \in k + 1 .. Len(stack'[t])
      PROVE  stack'[t][m].fn = "send"
  <2>1. f.fn = "send" /\ k \in 1 .. Len(stack[t])
    BY <1>4 DEF Resolved
  <2>2. m = Len(stack[t]) + 1 \/ (m \in k + 1 .. Len(stack[t]) /\ m \in 1 .. Len(stack[t]))
    BY <1>1, <1>4, <2>1
  <2> QED
    BY <1>1, <2>1, <2>2 DEF SendsAbove
<1> QED
  BY <1>3, <1>4 DEF SendsAbove

LEMMA ReplaceResolved ==
  ASSUME Typed, NEW t \in Threads, stack[t] # <<>>, NEW f \in Frame,
         stack' = Becomes(t, f), f.fn = "send" <=> Top(t).fn = "send", SendsAbove(t)
  PROVE  /\ Resolved(t)' \subseteq
              Resolved(t) \cup (IF f.fn # "send" /\ f.at \in {"block", "wait"}
                                  THEN {Len(stack[t])} ELSE {})
         /\ Len(stack[t]) \in Resolved(t)' => f.fn # "send" /\ f.at \in {"block", "wait"}
         /\ SendsAbove(t)'
<1>1. /\ Len(stack[t]) \in Nat \ {0} /\ Len(stack'[t]) = Len(stack[t])
      /\ \A k \in 1 .. Len(stack[t]) - 1 : stack'[t][k] = stack[t][k]
      /\ stack'[t][Len(stack[t])] = f
  BY ReplacedStack
<1>2. \A k : k \in 1 .. Len(stack[t]) <=> k \in 1 .. Len(stack[t]) - 1 \/ k = Len(stack[t])
  BY <1>1
<1>3. /\ Resolved(t)' \subseteq
           Resolved(t) \cup (IF f.fn # "send" /\ f.at \in {"block", "wait"}
                               THEN {Len(stack[t])} ELSE {})
      /\ Len(stack[t]) \in Resolved(t)' => f.fn # "send" /\ f.at \in {"block", "wait"}
  BY <1>1, <1>2 DEF Resolved
<1>4. ASSUME NEW k \in Resolved(t)', NEW m \in k + 1 .. Len(stack'[t])
      PROVE  stack'[t][m].fn = "send"
  <2>1. k \in 1 .. Len(stack[t]) - 1
    BY <1>1, <1>4 DEF Resolved
  <2>2. k \in Resolved(t)
    BY <1>1, <1>2, <1>4, <2>1 DEF Resolved
  <2>3. stack[t][m].fn = "send"
    BY <1>1, <1>4, <2>2 DEF SendsAbove
  <2>4. m = Len(stack[t]) \/ m \in 1 .. Len(stack[t]) - 1
    BY <1>1, <1>4, <2>1
  <2> QED
    BY <1>1, <2>3, <2>4 DEF Top
<1> QED
  BY <1>3, <1>4 DEF SendsAbove

LEMMA PopResolved ==
  ASSUME Typed, NEW t \in Threads, NEW n \in 0 .. Len(stack[t]), n < Len(stack[t]),
         stack' = [stack EXCEPT ![t] = SubSeq(@, 1, n)], SendsAbove(t)
  PROVE  Resolved(t)' \subseteq Resolved(t) /\ SendsAbove(t)'
<1>0. Len(stack[t]) \in Nat /\ n \in Nat
  BY StackType
<1>1. Len(stack'[t]) = n /\ \A k \in 1 .. n : stack'[t][k] = stack[t][k]
  BY PoppedStack
<1>2. Resolved(t)' \subseteq Resolved(t)
  BY <1>0, <1>1 DEF Resolved
<1>3. ASSUME NEW k \in Resolved(t)', NEW m \in k + 1 .. n PROVE stack'[t][m].fn = "send"
  <2>1. k \in Resolved(t) /\ k \in 1 .. n
    BY <1>1, <1>2, <1>3 DEF Resolved
  <2>2. m \in k + 1 .. Len(stack[t]) /\ m \in 1 .. n
    BY <1>0, <2>1
  <2> QED
    BY <1>1, <2>1, <2>2 DEF SendsAbove
<1> QED
  BY <1>1, <1>2, <1>3 DEF SendsAbove

\* A loop on top that is elsewhere is the only one that could have decided.
LEMMA NoneResolved ==
  ASSUME IInv, NEW t \in Threads, Attended(t), SendsAbove(t),
         \/ stack[t] = <<>>
         \/ Top(t).fn # "send" /\ Top(t).at \notin {"block", "wait"}
  PROVE  Resolved(t) = {}
<1> SUFFICES ASSUME NEW k \in Resolved(t) PROVE FALSE
  OBVIOUS
<1>1. k \in 1 .. Len(stack[t]) /\ Len(stack[t]) \in Nat
  BY StackType DEF Resolved, IInv
<1>2. stack[t] # <<>> /\ Len(stack[t]) # 0
  BY <1>1
<1>3. k # Len(stack[t])
  BY <1>2 DEF Resolved, Top
<1>4. Len(stack[t]) \in k + 1 .. Len(stack[t])
  BY <1>1, <1>3
<1> QED
  BY <1>2, <1>4 DEF SendsAbove, Top

\* A send starts no loop, and one that has decided stays where it is.
LEMMA SendResolved ==
  ASSUME IInv, NEW t \in Threads, Send(t), SendsAbove(t)
  PROVE  Resolved(t)' \subseteq Resolved(t) /\ SendsAbove(t)'
<1> USE DEF IInv, queueVars, objectVars, dataVars
<1>0. Len(stack[t]) \in Nat
  BY StackType
<1>1. ASSUME NEW r \in Objects \cup {None}, NEW ty \in Types \cup {Any},
             SendBegin(t, r, ty)
      PROVE  Resolved(t)' \subseteq Resolved(t) /\ SendsAbove(t)'
  <2> DEFINE f == SendFrame(r, ty)
  <2>1. f \in Frame /\ f.fn = "send" /\ stack' = Push(t, f)
    BY <1>1, FrameTypes DEF SendBegin, SendFrame
  <2> HIDE DEF f
  <2> QED
    BY <2>1, PushResolved
<1>2. ASSUME stack[t] # <<>>, stack' = Pop(t)
      PROVE  Resolved(t)' \subseteq Resolved(t) /\ SendsAbove(t)'
  <2> DEFINE n == Len(stack[t]) - 1
  <2>1. n \in 0 .. Len(stack[t]) /\ n < Len(stack[t])
    BY <1>2, TopType
  <2>2. stack' = [stack EXCEPT ![t] = SubSeq(@, 1, n)]
    BY <1>2 DEF Pop, Typed
  <2> HIDE DEF n
  <2> QED
    BY <2>1, <2>2, PopResolved
<1>3. ASSUME stack[t] # <<>>, Top(t).fn = "send",
             NEW f \in Frame, f.fn = "send", stack' = Becomes(t, f)
      PROVE  Resolved(t)' \subseteq Resolved(t) /\ SendsAbove(t)'
  BY <1>3, ReplaceResolved
<1>4. ASSUME NEW f \in Frame, InSend(t, "scan"), f.fn = "send", Advance(t, f)
      PROVE  Resolved(t)' \subseteq Resolved(t) /\ SendsAbove(t)'
  <2>1. stack[t] # <<>> /\ Top(t).fn = "send"
    BY <1>4 DEF InSend
  <2>2. PICK g : g = [f EXCEPT !.i = @ + 1]
    OBVIOUS
  <2>3. g \in Frame /\ g.fn = "send"
    BY <1>4, <2>2 DEF Frame
  <2>4. stack' = Becomes(t, f) \/ stack' = Becomes(t, g)
    BY <1>4, <2>2 DEF Advance
  <2> QED
    BY <1>3, <1>4, <2>1, <2>3, <2>4
<1>5. CASE SendNothing(t) \/ SendEnd(t)
  <2>1. stack[t] # <<>> /\ stack' = Pop(t)
    BY <1>5 DEF SendNothing, SendEnd, InSend
  <2> QED
    BY <1>2, <2>1
<1>6. CASE SendStart(t) \/ HandlerReturn(t)
  <2>1. stack[t] # <<>> /\ Top(t) \in Frame /\ Top(t).fn = "send" /\ startOffset[t] \in Nat
    BY <1>6, TopType, OffsetTypes DEF SendStart, HandlerReturn, InSend
  <2>2. PICK f : /\ f \in {[Top(t) EXCEPT !.at = "scan", !.i = startOffset[t]],
                           [Top(t) EXCEPT !.at = "scan", !.event = Nulled(0)]}
                 /\ stack' = Becomes(t, f)
    BY <1>6 DEF SendStart, HandlerReturn
  <2>3. f \in Frame /\ f.fn = "send"
    BY <2>1, <2>2, FrameTypes DEF Frame
  <2> QED
    BY <1>3, <2>1, <2>2, <2>3
<1>7. CASE ScanNull(t) \/ ScanOther(t) \/ ScanHold(t)
  <2>1. Scanning(t) /\ InSend(t, "scan") /\ Top(t).fn = "send" /\ Advance(t, Top(t))
    BY <1>7 DEF ScanNull, ScanOther, ScanHold, Scanning, InSend
  <2>2. Top(t) \in Frame
    BY <2>1, CurrentType
  <2> QED
    BY <1>4, <2>1, <2>2
<1>8. CASE ScanDeliver(t)
  <2>1. Scanning(t) /\ InSend(t, "scan") /\ Top(t).fn = "send"
    BY <1>8 DEF ScanDeliver, Scanning, InSend
  <2>2. Top(t) \in Frame /\ Current(t) \in Entry
    BY <2>1, CurrentType
  <2>3. PICK f : f = [Top(t) EXCEPT !.at = "deliver", !.event = Current(t)]
    OBVIOUS
  <2>4. f \in Frame /\ f.fn = "send"
    BY <2>1, <2>2, <2>3 DEF Frame
  <2>5. Advance(t, f)
    BY <1>8, <2>3 DEF ScanDeliver
  <2> QED
    BY <1>4, <2>1, <2>4, <2>5
<1>9. CASE HandlerThrow(t)
  BY <1>9, ThrownStack, PopResolved
<1>10. ASSUME NEW q \in SendRequests, SendBegin(t, q[1], q[2])
       PROVE  Resolved(t)' \subseteq Resolved(t) /\ SendsAbove(t)'
  BY <1>1, <1>10, ConstantsAssumption
<1> QED
  BY <1>5, <1>6, <1>7, <1>8, <1>9, <1>10 DEF Send

\* A send adds no work to a list without any, and consumes no wake-up.
LEMMA SendWork ==
  ASSUME IInv, NEW t \in Threads, Send(t)
  PROVE  (Work(t) = {} => Work(t)' = {}) /\ woken \subseteq woken'
<1> USE DEF IInv, queueVars, objectVars, dataVars
<1>0. /\ list[t] \in Seq(Entry) /\ Len(list[t]) \in Nat
      /\ insertionOffset[t] \in Nat /\ startOffset[t] \in Nat
      /\ startOffset[t] <= Len(list[t])
  BY OffsetTypes
<1>1. Work(t) = WorkIn(list[t]) /\ Work(t)' = WorkIn(list'[t])
  BY DEF Work, WorkIn
<1>2. woken \subseteq woken'
  BY DEF Send, SendBegin, SendNothing, SendStart, ScanNull, ScanOther, ScanHold,
         ScanDeliver, HandlerReturn, HandlerThrow, SendEnd, CleanUp
<1> SUFFICES ASSUME WorkIn(list[t]) = {} PROVE WorkIn(list'[t]) = {}
  BY <1>1, <1>2
<1>3. CASE list' = list
  BY <1>3
<1>4. CASE ScanHold(t) \/ ScanDeliver(t)
  <2> DEFINE e == Current(t)
             p == e.priority
             l == [list[t] EXCEPT ![At(t)] = Nulled(p)]
  <2>1. Scanning(t) /\ Live(e)
    BY <1>4 DEF ScanHold, ScanDeliver
  <2>2. e \in Entry /\ p \in Int /\ At(t) \in 1 .. Len(list[t])
    BY <2>1, CurrentType DEF Entry
  <2>3. l \in Seq(Entry) /\ WorkIn(l) = {}
    <3> HIDE DEF p
    <3> QED
      BY <1>0, <2>2, NulledType, NullWork, ExceptSeq
  <2> HIDE DEF l
  <2>4. CASE ScanDeliver(t)
    <3>1. list'[t] = l
      BY <2>4 DEF ScanDeliver, Typed, l
    <3> QED
      BY <2>3, <3>1
  <2>5. CASE ScanHold(t) /\ list' # list
    <3>1. e.type = DeferredDelete
      BY <2>5 DEF ScanHold, Held
    <3>2. PICK k \in AddPositions(l, insertionOffset[t], p) :
            list' = [list EXCEPT ![t] = Insert(l, k, e)]
      BY <2>5 DEF ScanHold, l
    <3>3. list'[t] = Insert(l, k, e)
      BY <3>2 DEF Typed
    <3> HIDE DEF e, p
    <3>4. \A m \in WorkIn(l) : m <= insertionOffset[t]
      BY <2>3
    <3>5. WorkIn(Insert(l, k, e)) \subseteq WorkIn(l)
      BY <1>0, <2>2, <2>3, <3>1, <3>2, <3>4, DeferredWork
    <3> QED
      BY <2>3, <3>3, <3>5
  <2> QED
    BY <1>3, <1>4, <2>4, <2>5
<1>5. ASSUME NEW waits, CleanUp(t, waits) PROVE WorkIn(list'[t]) = {}
  <2>1. \/ list'[t] = list[t]
        \/ list'[t] = SubSeq(list[t], startOffset[t] + 1, Len(list[t]))
    BY <1>5 DEF CleanUp, Typed
  <2>2. WorkIn(SubSeq(list[t], startOffset[t] + 1, Len(list[t]))) = {}
    BY <1>0, BackWork
  <2> QED
    BY <2>1, <2>2
<1>6. list' = list \/ ScanHold(t) \/ ScanDeliver(t) \/ \E waits : CleanUp(t, waits)
  BY DEF Send, SendBegin, SendNothing, SendStart, ScanNull, ScanOther,
         HandlerReturn, HandlerThrow, SendEnd
<1> QED
  BY <1>3, <1>4, <1>5, <1>6

LEMMA SendSettled ==
  ASSUME IInv, NEW t \in Threads, Settled(t), Send(t)
  PROVE  Settled(t)'
<1>1. Resolved(t)' \subseteq Resolved(t) /\ SendsAbove(t)'
  BY SendResolved DEF Settled
<1>2. (Work(t) = {} => Work(t)' = {}) /\ woken \subseteq woken'
  BY SendWork
<1>3. call' = call
  BY SendCalls
<1>4. (Coming(t) => Coming(t)') /\ (Woken(t) => Woken(t)')
  BY <1>2, <1>3 DEF Coming, Woken
<1> QED
  BY <1>1, <1>2, <1>4 DEF Settled, Waited

\* A loop that decides to wait has nothing to deliver, and no other loop
\* begins before it has waited.
LEMMA LoopSettled ==
  ASSUME ~MayNestInBlock, IInv, NEW t \in Threads, Attended(t), Settled(t), Loop(t)
  PROVE  Settled(t)'
<1> USE DEF IInv, queueVars, objectVars, dataVars
<1>0. Len(stack[t]) \in Nat /\ SendsAbove(t)
  BY StackType DEF Settled
<1>c. call' = call /\ UNCHANGED <<list, canWait>>
  <2>1. UNCHANGED <<list, canWait>>
    BY DEF Loop, LoopBegin, LoopEnd, LoopAwake, LoopSend, LoopCheck, LoopBlock,
           LoopSelect
  <2> QED
    BY <2>1, SendCalls
<1>w. Work(t)' = Work(t) /\ (Coming(t)' <=> Coming(t))
  BY <1>c DEF Work, WorkIn, Coming
<1>1. ASSUME NEW fn \in {"exec", "process"}, LoopBegin(t, fn) PROVE Settled(t)'
  <2> DEFINE f == LoopFrame(fn)
  <2>1. f \in Frame /\ f.at = "test" /\ stack' = Push(t, f)
    BY <1>1, FrameTypes DEF LoopBegin, LoopFrame
  <2>2. InApplication(t) /\ ~Blocking(t)
    BY <1>1 DEF LoopBegin, UserCode, InApplication
  <2> HIDE DEF f
  <2>3. Resolved(t) = {}
    <3> SUFFICES ASSUME NEW k \in Resolved(t) PROVE FALSE
      OBVIOUS
    <3>1. k \in 1 .. Len(stack[t]) /\ stack[t][k].fn # "send" /\ stack[t][k].at = "wait"
      BY <2>2 DEF Resolved, Blocking
    <3>2. ~(k \in 1 .. Len(stack[t]) - 1)
      BY <3>1 DEF Attended, LowerLoopsCheck, Calls
    <3>3. k = Len(stack[t]) /\ stack[t] # <<>>
      BY <1>0, <3>1, <3>2
    <3> QED
      BY <2>2, <3>1, <3>3, ConstantsAssumption
         DEF InApplication, InSend, InSlot, InLoop, Top
  <2> QED
    BY <1>0, <2>1, <2>3, PushResolved DEF Settled, Waited
<1>2. CASE LoopSend(t)
  <2>1. PICK n \in Nat \ {0} : n = Len(stack[t])
    BY <1>2, TopType DEF LoopSend, InLoop
  <2> DEFINE f == [stack[t][n] EXCEPT !.at = "check"]
             below == [stack[t] EXCEPT ![n] = f]
             g == SendFrame(None, Any)
  <2>2. /\ stack[t] # <<>> /\ Top(t).fn # "send" /\ Top(t).at = "awake"
        /\ Top(t) \in Frame /\ stack[t] \in Seq(Frame)
    BY <1>2, TopType DEF LoopSend, InLoop, Typed
  <2>3. f \in Frame /\ f.at = "check"
    BY <2>1, <2>2 DEF Top, Frame
  <2>4. /\ below \in Seq(Frame) /\ Len(below) = n /\ below[n] = f
        /\ \A k \in 1 .. n - 1 : below[k] = stack[t][k]
    BY <2>1, <2>2, <2>3, ExceptSeq
  <2>5. g \in Frame /\ g.fn = "send"
    BY FrameTypes DEF SendFrame
  <2>6. stack'[t] = Append(below, g)
    BY <1>2, <2>1 DEF LoopSend, Typed
  <2> HIDE DEF f, g, below
  <2>7. /\ Len(stack'[t]) = n + 1 /\ stack'[t][n + 1] = g
        /\ \A k \in 1 .. n : stack'[t][k] = below[k]
    BY <2>4, <2>5, <2>6, AppendProperties
  <2>8. Resolved(t) = {}
    BY <1>0, <2>2, NoneResolved
  <2>9. Resolved(t)' = {}
    <3> SUFFICES ASSUME NEW k \in Resolved(t)' PROVE FALSE
      OBVIOUS
    <3>1. k \in 1 .. n + 1 /\ stack'[t][k].fn # "send" /\ stack'[t][k].at \in {"block", "wait"}
      BY <2>7 DEF Resolved
    <3>2. k # n + 1 /\ k # n
      BY <2>1, <2>3, <2>4, <2>5, <2>7, <3>1
    <3>3. k \in 1 .. n - 1 /\ k \in 1 .. n
      BY <2>1, <3>1, <3>2
    <3>4. stack'[t][k] = stack[t][k]
      BY <2>4, <2>7, <3>3
    <3> QED
      BY <2>1, <2>8, <3>1, <3>3, <3>4 DEF Resolved
  <2> QED
    BY <2>9 DEF Settled, Waited, SendsAbove
<1>3. ASSUME stack[t] # <<>>, Top(t).fn # "send", NEW a,
             a \in {"test", "awake", "block", "wait", "poll"},
             stack' = Becomes(t, [Top(t) EXCEPT !.at = a])
      PROVE  SendsAbove(t)' /\ (a \notin {"block", "wait"} => Resolved(t)' = {})
  <2>1. PICK f : f = [Top(t) EXCEPT !.at = a]
    OBVIOUS
  <2>2. f \in Frame /\ f.fn = Top(t).fn /\ f.at = a
    BY <1>3, <2>1, TopType DEF Frame
  <2>3. /\ Resolved(t)' \subseteq
             Resolved(t) \cup (IF f.fn # "send" /\ f.at \in {"block", "wait"}
                                 THEN {Len(stack[t])} ELSE {})
        /\ Len(stack[t]) \in Resolved(t)' => f.fn # "send" /\ f.at \in {"block", "wait"}
        /\ SendsAbove(t)'
    BY <1>0, <1>3, <2>1, <2>2, ReplaceResolved
  <2>4. \A k \in Resolved(t) : k = Len(stack[t])
    <3> SUFFICES ASSUME NEW k \in Resolved(t), k # Len(stack[t]) PROVE FALSE
      OBVIOUS
    <3>1. k \in 1 .. Len(stack[t])
      BY DEF Resolved
    <3>2. Len(stack[t]) \in k + 1 .. Len(stack[t])
      BY <1>0, <3>1
    <3> QED
      BY <1>0, <1>3, <3>2 DEF SendsAbove, Top
  <2> QED
    BY <2>2, <2>3, <2>4
<1>4. ASSUME stack[t] # <<>>, Top(t).fn # "send", stack' = Pop(t)
      PROVE  SendsAbove(t)' /\ Resolved(t)' = {}
  <2>1. Len(stack[t]) \in Nat \ {0}
    BY <1>4, TopType
  <2> DEFINE n == Len(stack[t]) - 1
  <2>2. n \in 0 .. Len(stack[t]) /\ n < Len(stack[t])
    BY <2>1
  <2>3. stack' = [stack EXCEPT ![t] = SubSeq(@, 1, n)]
    BY <1>4 DEF Pop, Typed
  <2>4. \A k \in 1 .. n : k \notin Resolved(t)
    <3> SUFFICES ASSUME NEW k \in 1 .. n, k \in Resolved(t) PROVE FALSE
      OBVIOUS
    <3>1. Len(stack[t]) \in k + 1 .. Len(stack[t])
      BY <2>1
    <3> QED
      BY <1>0, <1>4, <3>1 DEF SendsAbove, Top
  <2> HIDE DEF n
  <2>5. Resolved(t)' \subseteq Resolved(t) /\ SendsAbove(t)' /\ Len(stack'[t]) = n
    BY <1>0, <2>2, <2>3, PopResolved, PoppedStack
  <2>6. Resolved(t)' \subseteq 1 .. n
    BY <2>5 DEF Resolved
  <2> QED
    BY <2>4, <2>5, <2>6
<1>5. CASE LoopAwake(t)
  <2>1. /\ stack[t] # <<>> /\ Top(t).fn # "send"
        /\ stack' = Becomes(t, [Top(t) EXCEPT !.at = "awake"])
    BY <1>5 DEF LoopAwake, InLoop
  <2>2. SendsAbove(t)' /\ Resolved(t)' = {}
    BY <1>3, <2>1
  <2> QED
    BY <2>2 DEF Settled, Waited
<1>6. CASE LoopCheck(t)
  <2>1. stack[t] # <<>> /\ Top(t).fn # "send" /\ InLoop(t, "check")
    BY <1>6 DEF LoopCheck, InLoop
  <2>2. PICK a \in {"block", "poll"} : /\ stack' = Becomes(t, [Top(t) EXCEPT !.at = a])
                                       /\ a = "block" => canWait[t]
    BY <1>6 DEF LoopCheck
  <2>3. SendsAbove(t)' /\ (a = "poll" => Resolved(t)' = {})
    BY <1>3, <2>1, <2>2
  <2>4. a = "block" => Coming(t)' \/ Work(t)' = {}
    BY <1>w, <2>1, <2>2 DEF Attended, Checked
  <2> QED
    BY <2>3, <2>4 DEF Settled, Waited
<1>7. CASE LoopBlock(t)
  <2>1. /\ stack[t] # <<>> /\ Top(t).fn # "send" /\ Top(t).at = "block" /\ woken' = woken
        /\ stack' = Becomes(t, [Top(t) EXCEPT !.at = "wait"])
    BY <1>7 DEF LoopBlock, InLoop
  <2>2. SendsAbove(t)'
    BY <1>3, <2>1
  <2>3. Len(stack[t]) \in Resolved(t)
    BY <2>1, TopType DEF Resolved, Top
  <2>4. Woken(t) => Woken(t)'
    BY <1>c, <2>1 DEF Woken
  <2> QED
    BY <1>w, <2>2, <2>3, <2>4 DEF Settled, Waited
<1>8. CASE LoopSelect(t)
  <2>1. stack[t] # <<>> /\ Top(t).fn # "send"
    BY <1>8 DEF LoopSelect, InLoop
  <2>2. stack' = Becomes(t, [Top(t) EXCEPT !.at = "test"]) \/ stack' = Pop(t)
    BY <1>8 DEF LoopSelect
  <2>3. SendsAbove(t)' /\ Resolved(t)' = {}
    BY <1>3, <1>4, <2>1, <2>2
  <2> QED
    BY <2>3 DEF Settled, Waited
<1>9. CASE LoopEnd(t)
  <2>1. stack[t] # <<>> /\ Top(t).fn # "send" /\ stack' = Pop(t)
    BY <1>9 DEF LoopEnd, InLoop
  <2>2. SendsAbove(t)' /\ Resolved(t)' = {}
    BY <1>4, <2>1
  <2> QED
    BY <2>2 DEF Settled, Waited
<1> QED
  BY <1>1, <1>2, <1>5, <1>6, <1>7, <1>8, <1>9 DEF Loop

\* Another thread's send or loop neither tells t anything nor takes it back.
LEMMA OtherTold ==
  ASSUME IInv, NEW u \in Threads, Send(u) \/ Loop(u), NEW t \in Threads, t # u
  PROVE  Still(t) /\ Told(t)
<1> USE DEF IInv, queueVars, objectVars, dataVars
<1>1. /\ stack'[t] = stack[t] /\ list'[t] = list[t]
      /\ startOffset'[t] = startOffset[t] /\ insertionOffset'[t] = insertionOffset[t]
  BY SendStack, LoopStack, SendLists, LoopLists DEF OthersKept, ListKept
<1>2. call' = call
  BY SendCalls
<1>3. canWait'[t] = canWait[t]
  <2>1. CASE Loop(u)
    BY <2>1 DEF Loop, LoopBegin, LoopEnd, LoopAwake, LoopSend, LoopCheck, LoopBlock,
         LoopSelect
  <2>2. CASE Send(u)
    <3>1. canWait' = canWait \/ \E waits : canWait' = [canWait EXCEPT ![u] = waits]
      BY <2>2 DEF Send, SendBegin, SendNothing, SendStart, ScanNull, ScanOther, ScanHold,
                  ScanDeliver, HandlerReturn, HandlerThrow, SendEnd, CleanUp, MayNotWait
    <3> QED
      BY <3>1, Zenon DEF Typed
  <2> QED
    BY <2>1, <2>2
<1>4. t \in woken => t \in woken'
  <2>1. CASE Loop(u)
    BY <2>1 DEF Loop, LoopBegin, LoopEnd, LoopAwake, LoopSend, LoopCheck, LoopBlock,
         LoopSelect
  <2>2. CASE Send(u)
    BY <2>2 DEF Send, SendBegin, SendNothing, SendStart, ScanNull, ScanOther, ScanHold,
                ScanDeliver, HandlerReturn, HandlerThrow, SendEnd, CleanUp
  <2> QED
    BY <2>1, <2>2
<1>5. (Coming(t) => Coming(t)') /\ (Woken(t) => Woken(t)')
  BY <1>2, <1>4 DEF Coming, Woken
<1> QED
  BY <1>1, <1>3, <1>5 DEF Still, Told

-----------------------------------------------------------------------------

\* Nothing is posted at first.
LEMMA MissedInitially == Init => NothingMissed
<1> SUFFICES ASSUME Init, NEW t \in Threads PROVE Attended(t) /\ Settled(t)
  BY DEF NothingMissed
<1>1. list[t] = <<>> /\ stack[t] = <<>>
  BY DEF Init
<1>2. Len(list[t]) = 0 /\ Len(stack[t]) = 0
  BY <1>1
<1>3. Work(t) = {}
  BY <1>2 DEF Work, WorkIn
<1> QED
  BY <1>1, <1>2, <1>3 DEF Attended, Sighted, Checked, LowerLoopsCheck, InLoop,
                          Settled, SendsAbove, Waited, Resolved

\* NothingMissed is inductive, with IInv and PassedAreTaken.
LEMMA MissedStep ==
  ASSUME ~MayNestInBlock
  PROVE  IInv /\ PassedAreTaken /\ NothingMissed /\ [Next]_vars => NothingMissed'
<1> SUFFICES ASSUME IInv, PassedAreTaken, NothingMissed, [Next]_vars PROVE NothingMissed'
  OBVIOUS
<1>1. CASE UNCHANGED vars
  <2> SUFFICES ASSUME NEW t \in Threads PROVE Attended(t)' /\ Settled(t)'
    BY DEF NothingMissed
  <2>1. Still(t) /\ Told(t)
    BY <1>1 DEF vars, dataVars, queueVars, Still, Told, Coming, Woken
  <2> QED
    BY <2>1, StillAttended DEF NothingMissed
<1>2. ASSUME NEW u \in Threads, CallStepOf(u) PROVE NothingMissed'
  BY <1>2, CallStepAttended
<1>3. ASSUME NEW u \in Threads, Send(u) \/ Loop(u) PROVE NothingMissed'
  <2> SUFFICES ASSUME NEW t \in Threads PROVE Attended(t)' /\ Settled(t)'
    BY DEF NothingMissed
  <2>1. Attended(t) /\ Settled(t)
    BY DEF NothingMissed
  <2>2. CASE t = u
    BY <1>3, <2>1, <2>2, SendAttended, LoopAttended,
       SendSettled, LoopSettled
  <2>3. CASE t # u
    BY <1>3, <2>1, <2>3, OtherTold, StillAttended
  <2> QED
    BY <2>2, <2>3
<1>4. Next => \E u \in Threads : CallStepOf(u) \/ Send(u) \/ Loop(u)
  BY DEF Next, CallStepOf
<1> QED
  BY <1>1, <1>2, <1>3, <1>4

\* Whatever threads post, remove, move and send, from handlers, from slots of
\* awake() and aboutToBlock() and from nested loops, and however the unlocked
\* reads of canWait and the wake-ups interleave, a thread that blocks in its
\* dispatcher has nothing to deliver but deferred deletes, or a wake-up is on
\* its way -- unless a slot of aboutToBlock() enters a loop, which consumes the
\* wake-up behind the back of the loop that has decided to wait.
THEOREM NothingIsStranded ==
  ASSUME ~MayNestInBlock
  PROVE  Spec => []NoEventStranded
<1>1. Init => NothingMissed
  BY MissedInitially
<1>2. IInv /\ PassedAreTaken /\ NothingMissed /\ [Next]_vars => NothingMissed'
  BY MissedStep
<1>3. IInv /\ NothingMissed => NoEventStranded
  <2> SUFFICES ASSUME IInv, NothingMissed, NEW t \in Threads, InLoop(t, "wait"), ~WillBeWoken(t),
                      NEW k \in LiveIn(t)
               PROVE  list[t][k].type = DeferredDelete
    BY DEF NoEventStranded
  <2>1. ~Woken(t) /\ ~Coming(t)
    BY DEF WillBeWoken, Woken, Coming
  <2>2. Resolved(t) # {}
    <3>1. stack[t] # <<>> /\ Len(stack[t]) \in 1 .. Len(stack[t])
      BY TopType DEF InLoop, IInv
    <3>2. Len(stack[t]) \in Resolved(t)
      BY <3>1 DEF Resolved, InLoop, Top
    <3> QED
      BY <3>2
  <2>3. Work(t) = {}
    BY <2>1, <2>2 DEF NothingMissed, Settled, Waited
  <2> QED
    BY <2>3 DEF Work, WorkIn, LiveIn
<1> QED
  BY <1>1, <1>2, <1>3, Invariance, NothingErasedUndelivered, PTL DEF Spec

-----------------------------------------------------------------------------
(* The order of a list.                                                    *)

\* Behind o, and but for the positions G, priorities do not rise.
Ordered(l, o, G) ==
  \A a, b \in 1 .. Len(l) :
    o < a /\ a < b /\ a \notin G /\ b \notin G => l[a].priority >= l[b].priority

\* Entries that QCoreApplication::postEvent promises to keep in order.
SameKind(e, f) ==
  /\ e.receiver = f.receiver /\ e.type = f.type /\ e.priority = f.priority
  /\ e.type # DeferredDelete

\* Of such entries the one that was posted before the other comes before it.
Aged(l) ==
  \A a, b \in LiveAt(l) : a < b /\ SameKind(l[a], l[b]) => l[a].event < l[b].event

\* The entry e is younger than all of its kind in the list.
Youngest(e, l) == \A a \in LiveAt(l) : SameKind(l[a], e) => l[a].event < e.event

\* The types of the entries of a list.
LEMMA EntryTypes ==
  ASSUME NEW l \in Seq(Entry)
  PROVE  /\ Len(l) \in Nat /\ DOMAIN l = 1 .. Len(l)
         /\ \A a \in 1 .. Len(l) : l[a] \in Entry /\ l[a].priority \in Int /\ l[a].event \in Nat
<1>1. Len(l) \in Nat /\ DOMAIN l = 1 .. Len(l) /\ \A a \in 1 .. Len(l) : l[a] \in Entry
  BY LenProperties, ElementOfSeq
<1> QED
  BY <1>1 DEF Entry

\* Nulling an entry keeps its priority.
LEMMA NullOrder ==
  ASSUME NEW l \in Seq(Entry), NEW i \in 1 .. Len(l), NEW o, NEW G
  PROVE  /\ Ordered(l, o, G) => Ordered([l EXCEPT ![i] = Nulled(l[i].priority)], o, G)
         /\ Aged(l) => Aged([l EXCEPT ![i] = Nulled(l[i].priority)])
         /\ LiveAt([l EXCEPT ![i] = Nulled(l[i].priority)]) = LiveAt(l) \ {i}
         /\ \A k \in LiveAt(l) \ {i} : [l EXCEPT ![i] = Nulled(l[i].priority)][k] = l[k]
<1> DEFINE n == Nulled(l[i].priority)
           m == [l EXCEPT ![i] = n]
<1>1. DOMAIN l = 1 .. Len(l) /\ Len(l) \in Nat /\ l[i] \in Entry /\ l[i].priority \in Int
  BY EntryTypes
<1>2. n \in Entry /\ n.priority = l[i].priority /\ ~Live(n)
  BY <1>1, NulledType DEF Nulled, Live
<1> HIDE DEF n
<1>3. Len(m) = Len(l) /\ \A k \in 1 .. Len(l) : m[k] = IF k = i THEN n ELSE l[k]
  BY <1>1, <1>2, ExceptSeq
<1> HIDE DEF m
<1>4. \A k \in 1 .. Len(l) : m[k].priority = l[k].priority
  BY <1>2, <1>3
<1>5. LiveAt(m) = LiveAt(l) \ {i} /\ \A k \in LiveAt(l) \ {i} : m[k] = l[k]
  BY <1>2, <1>3 DEF LiveAt
<1>6. Ordered(l, o, G) => Ordered(m, o, G)
  BY <1>3, <1>4 DEF Ordered
<1>7. Aged(l) => Aged(m)
  BY <1>5 DEF Aged
<1> QED
  BY <1>5, <1>6, <1>7 DEF m, n

\* What addEvent goes before has a lower priority, if what it searches is
\* in order.
LEMMA LowerBehind ==
  ASSUME NEW l \in Seq(Entry), NEW o \in Nat, NEW p \in Int, NEW k \in AddPositions(l, o, p),
         Ordered(l, o, {})
  PROVE  /\ \A a \in k + 1 .. Len(l) : l[a].priority < p
         /\ \A a \in o + 1 .. k : l[a].priority >= p
         /\ k \in 0 .. Len(l) /\ (k < Len(l) => o <= k)
<1>1. Len(l) \in Nat /\ \A a \in 1 .. Len(l) : l[a].priority \in Int
  BY EntryTypes
<1>2. l = <<>> => Len(l) = 0
  OBVIOUS
<1>3. CASE l = <<>> \/ l[Len(l)].priority >= p \/ o >= Len(l)
  <2>1. k = Len(l)
    BY <1>3 DEF AddPositions
  <2>2. ASSUME NEW a \in o + 1 .. Len(l) PROVE l[a].priority >= p
    <3>1. l[Len(l)].priority >= p /\ Len(l) \in 1 .. Len(l) /\ a \in 1 .. Len(l) /\ o < a
      BY <1>1, <1>2, <1>3, <2>2
    <3>2. CASE a = Len(l)
      BY <3>1, <3>2
    <3>3. CASE a < Len(l)
      <4>1. l[a].priority >= l[Len(l)].priority
        BY <3>1, <3>3 DEF Ordered
      <4> QED
        BY <1>1, <3>1, <4>1
    <3> QED
      BY <1>1, <3>1, <3>2, <3>3
  <2> QED
    BY <1>1, <2>1, <2>2
<1>4. CASE ~(l = <<>> \/ l[Len(l)].priority >= p \/ o >= Len(l))
  <2>1. /\ k \in o .. Len(l) - 1
        /\ k = o \/ l[k].priority >= p
        /\ l[k + 1].priority < p
    BY <1>4 DEF AddPositions
  <2>2. ASSUME NEW a \in k + 1 .. Len(l) PROVE l[a].priority < p
    <3>1. CASE a = k + 1
      BY <2>1, <3>1
    <3>2. CASE a # k + 1
      <4>1. k + 1 \in 1 .. Len(l) /\ a \in 1 .. Len(l) /\ o < k + 1 /\ k + 1 < a
        BY <1>1, <2>1, <2>2, <3>2
      <4>2. l[k + 1].priority >= l[a].priority
        BY <4>1 DEF Ordered
      <4> QED
        BY <1>1, <2>1, <4>1, <4>2
    <3> QED
      BY <3>1, <3>2
  <2>3. ASSUME NEW a \in o + 1 .. k PROVE l[a].priority >= p
    <3>1. k \in 1 .. Len(l) /\ a \in 1 .. Len(l) /\ o < a /\ l[k].priority >= p
      BY <1>1, <2>1, <2>3
    <3>2. CASE a = k
      BY <3>1, <3>2
    <3>3. CASE a < k
      <4>1. l[a].priority >= l[k].priority
        BY <3>1, <3>3 DEF Ordered
      <4> QED
        BY <1>1, <3>1, <4>1
    <3> QED
      BY <1>1, <2>3, <3>1, <3>2, <3>3
  <2> QED
    BY <1>1, <2>1, <2>2, <2>3
<1> QED
  BY <1>3, <1>4

\* Where addEvent puts an entry keeps the order.
LEMMA InsertOrder ==
  ASSUME NEW l \in Seq(Entry), NEW o \in Nat, NEW e \in Entry,
         NEW k \in AddPositions(l, o, e.priority), Ordered(l, o, {})
  PROVE  /\ Ordered(Insert(l, k, e), o, {})
         /\ Aged(l) /\ Youngest(e, l) => Aged(Insert(l, k, e))
<1> DEFINE m == Insert(l, k, e)
           p == e.priority
           from(i) == IF i <= k THEN i ELSE i - 1
<1>0. p \in Int
  BY DEF Entry
<1>1. Len(l) \in Nat /\ \A a \in 1 .. Len(l) : l[a].priority \in Int
  BY EntryTypes
<1>2. /\ \A a \in k + 1 .. Len(l) : l[a].priority < p
      /\ \A a \in o + 1 .. k : l[a].priority >= p
      /\ k \in 0 .. Len(l) /\ (k < Len(l) => o <= k)
  <2> HIDE DEF p
  <2>1. k \in AddPositions(l, o, p)
    BY DEF p
  <2> QED
    BY <1>0, <2>1, LowerBehind
<1>3. /\ Len(m) = Len(l) + 1
      /\ \A i \in 1 .. Len(l) + 1 :
           m[i] = IF i <= k THEN l[i] ELSE IF i = k + 1 THEN e ELSE l[i - 1]
  BY <1>2, InsertedEntries
<1> HIDE DEF m
<1>4. \A i \in 1 .. Len(l) + 1 : i # k + 1 =>
        from(i) \in 1 .. Len(l) /\ m[i] = l[from(i)]
  BY <1>1, <1>2, <1>3
<1>5. m[k + 1] = e /\ k + 1 \in 1 .. Len(l) + 1
  BY <1>1, <1>2, <1>3
<1>6. \A a, b \in 1 .. Len(l) + 1 : a < b /\ a # k + 1 /\ b # k + 1 => from(a) < from(b)
  BY <1>1, <1>2
<1>7. ASSUME NEW a \in 1 .. Len(l) + 1, NEW b \in 1 .. Len(l) + 1, o < a, a < b
      PROVE  m[a].priority >= m[b].priority
  <2>1. CASE a # k + 1 /\ b # k + 1
    <3>1. o < from(a)
      BY <1>1, <1>2, <1>7, <2>1
    <3>2. m[a] = l[from(a)] /\ m[b] = l[from(b)] /\ from(a) \in 1 .. Len(l) /\ from(b) \in 1 .. Len(l)
      BY <1>4, <2>1
    <3>3. from(a) < from(b)
      BY <1>6, <1>7, <2>1
    <3> HIDE DEF from
    <3> QED
      BY <3>1, <3>2, <3>3 DEF Ordered
  <2>2. CASE a = k + 1
    <3>1. b # k + 1 /\ from(b) \in k + 1 .. Len(l) /\ from(b) \in 1 .. Len(l)
      BY <1>1, <1>2, <1>7, <2>2
    <3>2. m[b] = l[from(b)]
      BY <1>4, <3>1
    <3> HIDE DEF from
    <3>3. m[b].priority < p /\ m[b].priority \in Int /\ m[a].priority = p
      BY <1>1, <1>2, <1>5, <2>2, <3>1, <3>2
    <3> QED
      BY <1>0, <3>3
  <2>3. CASE b = k + 1
    <3>1. a \in o + 1 .. k /\ m[a] = l[a]
      BY <1>1, <1>2, <1>3, <1>7, <2>3
    <3>2. m[a].priority >= p /\ m[b].priority = p
      BY <1>2, <1>5, <2>3, <3>1
    <3> QED
      BY <3>2
  <2> QED
    BY <2>1, <2>2, <2>3
<1>8. ASSUME Aged(l), Youngest(e, l), NEW a \in LiveAt(m), NEW b \in LiveAt(m),
             a < b, SameKind(m[a], m[b])
      PROVE  m[a].event < m[b].event
  <2>0. a \in 1 .. Len(l) + 1 /\ b \in 1 .. Len(l) + 1 /\ Live(m[a]) /\ Live(m[b])
    BY <1>3 DEF LiveAt
  <2>1. CASE a # k + 1 /\ b # k + 1
    <3>1. m[a] = l[from(a)] /\ m[b] = l[from(b)] /\ from(a) \in 1 .. Len(l) /\ from(b) \in 1 .. Len(l)
          /\ from(a) < from(b)
      BY <1>4, <1>6, <1>8, <2>0, <2>1
    <3> HIDE DEF from
    <3> QED
      BY <1>8, <2>0, <3>1 DEF Aged, LiveAt
  <2>2. CASE a = k + 1
    <3>1. b # k + 1 /\ from(b) \in k + 1 .. Len(l) /\ m[b] = l[from(b)]
      BY <1>1, <1>2, <1>4, <1>8, <2>0, <2>2
    <3>2. m[b].priority < p /\ m[b].priority \in Int /\ m[a].priority = p
      <4>1. from(b) \in 1 .. Len(l)
        BY <1>1, <1>2, <3>1
      <4> HIDE DEF from
      <4> QED
        BY <1>1, <1>2, <1>5, <2>2, <3>1, <4>1
    <3>3. m[a].priority = m[b].priority
      BY <1>8 DEF SameKind
    <3> QED
      BY <1>0, <3>2, <3>3
  <2>3. CASE b = k + 1
    <3>1. a # k + 1 /\ m[a] = l[from(a)] /\ from(a) \in 1 .. Len(l)
      BY <1>1, <1>2, <1>4, <1>8, <2>0, <2>3
    <3> HIDE DEF from
    <3>2. from(a) \in LiveAt(l)
      BY <2>0, <3>1 DEF LiveAt
    <3> QED
      BY <1>5, <1>8, <2>3, <3>1, <3>2 DEF Youngest
  <2> QED
    BY <2>1, <2>2, <2>3
<1>9. Ordered(m, o, {})
  BY <1>3, <1>7 DEF Ordered
<1>10. Aged(l) /\ Youngest(e, l) => Aged(m)
  BY <1>8 DEF Aged
<1> QED
  BY <1>9, <1>10 DEF m

\* A removal moves an entry that it keeps over the gap that it has left.
LEMMA SwapOrder ==
  ASSUME NEW l \in Seq(Entry), NEW i \in 1 .. Len(l), NEW j \in 1 .. i, NEW o,
         o \in Nat
  PROVE  /\ Ordered(l, o, j .. i - 1) => Ordered([l EXCEPT ![i] = l[j], ![j] = l[i]], o, j + 1 .. i)
         /\ Aged(l) /\ (\A a \in j .. i - 1 : ~Live(l[a])) => Aged([l EXCEPT ![i] = l[j], ![j] = l[i]])
<1> DEFINE m == [l EXCEPT ![i] = l[j], ![j] = l[i]]
           from(a) == IF a = j THEN i ELSE a
<1>1. Len(l) \in Nat /\ DOMAIN l = 1 .. Len(l) /\ i \in Nat /\ j \in Nat
      /\ j \in 1 .. Len(l) /\ j <= i /\ 1 <= j /\ i <= Len(l)
  BY EntryTypes
<1>2. l[i] \in Entry /\ l[j] \in Entry
  BY <1>1, EntryTypes
<1>3. Len(m) = Len(l)
  BY <1>1, <1>2, ExceptSeq
<1>4. \A a \in 1 .. Len(l) : m[a] = IF a = j THEN l[i] ELSE IF a = i THEN l[j] ELSE l[a]
  BY <1>1
<1> HIDE DEF m
<1>5. ASSUME NEW a \in 1 .. Len(l), a \notin j + 1 .. i
      PROVE  m[a] = l[from(a)] /\ from(a) \in 1 .. Len(l) /\ from(a) \notin j .. i - 1
  BY <1>1, <1>4, <1>5
<1>6. ASSUME NEW a \in 1 .. Len(l), NEW b \in 1 .. Len(l), a < b,
             a \notin j + 1 .. i, b \notin j + 1 .. i
      PROVE  from(a) < from(b) /\ a <= from(a)
  BY <1>1, <1>6
<1>7. ASSUME \A a \in j .. i - 1 : ~Live(l[a]), NEW a \in LiveAt(m)
      PROVE  a \in 1 .. Len(l) /\ a \notin j + 1 .. i /\ Live(m[a])
  <2>1. a \in 1 .. Len(l) /\ Live(m[a])
    BY <1>3 DEF LiveAt
  <2>2. ASSUME a \in j + 1 .. i PROVE FALSE
    <3>1. CASE a = i
      <4>1. j \in j .. i - 1 /\ m[a] = l[j]
        BY <1>1, <1>4, <2>1, <2>2, <3>1
      <4> QED
        BY <1>7, <2>1, <4>1
    <3>2. CASE a # i
      <4>1. a \in j .. i - 1 /\ m[a] = l[a]
        BY <1>1, <1>4, <2>1, <2>2, <3>2
      <4> QED
        BY <1>7, <2>1, <4>1
    <3> QED
      BY <3>1, <3>2
  <2> QED
    BY <2>1, <2>2
<1> HIDE DEF from
<1>8. ASSUME Ordered(l, o, j .. i - 1), NEW a \in 1 .. Len(l), NEW b \in 1 .. Len(l), o < a, a < b,
             a \notin j + 1 .. i, b \notin j + 1 .. i
      PROVE  m[a].priority >= m[b].priority
  <2>1. /\ m[a] = l[from(a)] /\ from(a) \in 1 .. Len(l) /\ from(a) \notin j .. i - 1
        /\ m[b] = l[from(b)] /\ from(b) \in 1 .. Len(l) /\ from(b) \notin j .. i - 1
    BY <1>5, <1>8
  <2>2. from(a) < from(b) /\ a <= from(a)
    BY <1>6, <1>8
  <2>3. o < from(a)
    BY <1>8, <2>1, <2>2
  <2> QED
    BY <1>8, <2>1, <2>2, <2>3 DEF Ordered
<1>9. Ordered(l, o, j .. i - 1) => Ordered(m, o, j + 1 .. i)
  BY <1>3, <1>8 DEF Ordered
<1>10. ASSUME Aged(l), \A a \in j .. i - 1 : ~Live(l[a]), NEW a \in LiveAt(m), NEW b \in LiveAt(m),
              a < b, SameKind(m[a], m[b])
       PROVE  m[a].event < m[b].event
  <2>1. /\ a \in 1 .. Len(l) /\ a \notin j + 1 .. i /\ Live(m[a])
        /\ b \in 1 .. Len(l) /\ b \notin j + 1 .. i /\ Live(m[b])
    BY <1>7, <1>10
  <2>2. /\ m[a] = l[from(a)] /\ from(a) \in 1 .. Len(l)
        /\ m[b] = l[from(b)] /\ from(b) \in 1 .. Len(l)
    BY <1>5, <2>1
  <2>3. from(a) < from(b)
    BY <1>6, <1>10, <2>1
  <2>4. from(a) \in LiveAt(l) /\ from(b) \in LiveAt(l)
    BY <2>1, <2>2 DEF LiveAt
  <2> QED
    BY <1>10, <2>2, <2>3, <2>4 DEF Aged
<1>11. Aged(l) /\ (\A a \in j .. i - 1 : ~Live(l[a])) => Aged(m)
  BY <1>10 DEF Aged
<1> QED
  BY <1>9, <1>11 DEF m

\* A removal cuts off the gap.
LEMMA FrontOrder ==
  ASSUME NEW l \in Seq(Entry), NEW n \in 0 .. Len(l), NEW o
  PROVE  /\ Ordered(l, o, n + 1 .. Len(l)) => Ordered(SubSeq(l, 1, n), o, {})
         /\ Aged(l) => Aged(SubSeq(l, 1, n))
<1> DEFINE m == SubSeq(l, 1, n)
<1>1. Len(l) \in Nat /\ \A a \in 1 .. n : l[a] \in Entry
  BY EntryTypes
<1>2. Len(m) = n /\ \A a \in 1 .. n : m[a] = l[a]
  BY <1>1, SubSeqProperties
<1> HIDE DEF m
<1>3. \A a \in 1 .. n : a \in 1 .. Len(l) /\ a \notin n + 1 .. Len(l)
  BY <1>1
<1>4. Ordered(l, o, n + 1 .. Len(l)) => Ordered(m, o, {})
  BY <1>2, <1>3 DEF Ordered
<1>5. Aged(l) => Aged(m)
  BY <1>2, <1>3 DEF Aged, LiveAt
<1> QED
  BY <1>4, <1>5 DEF m

\* The end of a send erases what it has passed, up to the insertion offset.
LEMMA BackOrder ==
  ASSUME NEW l \in Seq(Entry), NEW n \in 0 .. Len(l), NEW o \in Nat, n <= o
  PROVE  /\ Ordered(l, o, {}) => Ordered(SubSeq(l, n + 1, Len(l)), o - n, {})
         /\ Aged(l) => Aged(SubSeq(l, n + 1, Len(l)))
<1> DEFINE m == SubSeq(l, n + 1, Len(l))
<1>1. Len(l) \in Nat /\ n \in Nat /\ n <= Len(l) /\ \A a \in 1 .. Len(l) : l[a] \in Entry
  BY EntryTypes
<1>2. Len(m) = Len(l) - n /\ \A k \in 1 .. Len(l) - n : m[k] = l[n + k]
  <2>1. \A i \in n + 1 .. Len(l) : l[i] \in Entry
    BY <1>1
  <2>2. /\ Len(m) = IF n + 1 <= Len(l) THEN Len(l) - (n + 1) + 1 ELSE 0
        /\ \A k \in 1 .. Len(l) - (n + 1) + 1 : m[k] = l[n + 1 + k - 1]
    BY <1>1, <2>1, SubSeqProperties
  <2>3. Len(m) = Len(l) - n
    BY <1>1, <2>2
  <2>4. \A k \in 1 .. Len(l) - n : k \in 1 .. Len(l) - (n + 1) + 1 /\ n + 1 + k - 1 = n + k
    BY <1>1
  <2> QED
    BY <2>2, <2>3, <2>4
<1> HIDE DEF m
<1>3. ASSUME NEW a \in 1 .. Len(m) PROVE a \in Nat /\ n + a \in 1 .. Len(l) /\ m[a] = l[n + a]
  BY <1>1, <1>2
<1>4. ASSUME Ordered(l, o, {}), NEW a \in 1 .. Len(m), NEW b \in 1 .. Len(m), o - n < a, a < b
      PROVE  m[a].priority >= m[b].priority
  <2>1. /\ n + a \in 1 .. Len(l) /\ m[a] = l[n + a] /\ n + b \in 1 .. Len(l) /\ m[b] = l[n + b]
        /\ a \in Nat /\ b \in Nat
    BY <1>3
  <2>2. o < n + a /\ n + a < n + b
    BY <1>1, <1>4, <2>1
  <2> QED
    BY <1>4, <2>1, <2>2 DEF Ordered
<1>5. ASSUME Aged(l), NEW a \in LiveAt(m), NEW b \in LiveAt(m), a < b, SameKind(m[a], m[b])
      PROVE  m[a].event < m[b].event
  <2>1. /\ n + a \in 1 .. Len(l) /\ m[a] = l[n + a] /\ n + b \in 1 .. Len(l) /\ m[b] = l[n + b]
        /\ a \in Nat /\ b \in Nat /\ Live(m[a]) /\ Live(m[b])
    BY <1>3 DEF LiveAt
  <2>2. n + a < n + b
    BY <1>1, <1>5, <2>1
  <2> QED
    BY <1>5, <2>1, <2>2 DEF Aged, LiveAt
<1>6. Ordered(l, o, {}) => Ordered(m, o - n, {})
  BY <1>4 DEF Ordered
<1>7. Aged(l) => Aged(m)
  BY <1>5 DEF Aged
<1> QED
  BY <1>6, <1>7 DEF m

\* No thread removes from the list of another one: what SortedTail excepts.
OwnRemovals == \A t \in Threads : call[t].fn = "removing" => call[t].data = t

\* The gap that a removal of thread t has left in its own list.
Walked(t) == IF call[t].fn = "removing" /\ Compacting(t)
               THEN call[t].j + 1 .. call[t].i ELSE {}

InOrder(l, t) == Ordered(l, insertionOffset[t], Walked(t)) /\ Aged(l)

\* In the one list what moves is older than what remains to move of it.
Younger(r, l, m) ==
  \A a \in LiveAt(l), b \in LiveAt(m) :
    l[a].receiver = r /\ SameKind(l[a], m[b]) => l[a].event < m[b].event

MovedFirst ==
  \A u \in Threads : call[u].fn = "moving" =>
    Younger(call[u].receiver, list[call[u].to], list[u])

\* The inductive invariant of the order.
InvOrder == (\A t \in Threads : InOrder(list[t], t)) /\ MovedFirst

LEMMA WiderGap ==
  ASSUME NEW l, NEW o, NEW G, NEW H, Ordered(l, o, G), G \subseteq H
  PROVE  Ordered(l, o, H)
  BY DEF Ordered

\* Nobody walks along a list whose mutex is free, nor does the thread that
\* does something else.
LEMMA NoGap ==
  ASSUME Safe, OwnRemovals, NEW t \in Threads
  PROVE  /\ MutexFree(t) => Walked(t) = {}
         /\ call[t].fn # "removing" => Walked(t) = {}
         /\ \A u \in Threads : Holds(u, t) /\ u # t => Walked(t) = {}
<1>1. call[t].fn = "removing" => Holds(t, t)
  BY DEF OwnRemovals, Holds
<1>2. ASSUME call[t].fn # "removing" PROVE Walked(t) = {}
  BY <1>2 DEF Walked
<1>3. ASSUME MutexFree(t) PROVE call[t].fn # "removing"
  BY <1>1, <1>3, MutexHolders
<1>4. ASSUME NEW u \in Threads, Holds(u, t), u # t PROVE call[t].fn # "removing"
  BY <1>1, <1>4 DEF Safe, IInv, MutexExclusive
<1> QED
  BY <1>2, <1>3, <1>4

OrderAfter == \A v \in Threads : Ordered(list'[v], insertionOffset'[v], Walked(v)') /\ Aged(list'[v])

\* A step at the list of u.
LEMMA OneListOrder ==
  ASSUME Safe, InvOrder, NEW u \in Threads, NEW l, list' = [list EXCEPT ![u] = l],
         Ordered(l, insertionOffset'[u], Walked(u)'), Aged(l),
         \A v \in Threads : v # u =>
           insertionOffset'[v] = insertionOffset[v] /\ Walked(v) \subseteq Walked(v)'
  PROVE  OrderAfter
<1>1. list'[u] = l /\ \A v \in Threads : v # u => list'[v] = list[v]
  BY DEF Safe, IInv, Typed
<1>2. ASSUME NEW v \in Threads, v # u
      PROVE  Ordered(list'[v], insertionOffset'[v], Walked(v)') /\ Aged(list'[v])
  <2>1. Ordered(list[v], insertionOffset[v], Walked(v)) /\ Aged(list[v])
    BY DEF InvOrder, InOrder
  <2>2. Walked(v) \subseteq Walked(v)' /\ insertionOffset'[v] = insertionOffset[v]
    BY <1>2
  <2>3. Ordered(list[v], insertionOffset[v], Walked(v)')
    BY <2>1, <2>2, WiderGap
  <2> QED
    BY <1>1, <1>2, <2>1, <2>2, <2>3
<1> QED
  BY <1>1, <1>2 DEF OrderAfter

LEMMA SameListOrder ==
  ASSUME Safe, InvOrder, list' = list, insertionOffset' = insertionOffset,
         \A v \in Threads : Walked(v) \subseteq Walked(v)'
  PROVE  OrderAfter
<1> SUFFICES ASSUME NEW v \in Threads
             PROVE  Ordered(list'[v], insertionOffset'[v], Walked(v)') /\ Aged(list'[v])
  BY DEF OrderAfter
<1>1. Ordered(list[v], insertionOffset[v], Walked(v)) /\ Aged(list[v])
  BY DEF InvOrder, InOrder
<1>2. Ordered(list[v], insertionOffset[v], Walked(v)')
  BY <1>1, WiderGap
<1> QED
  BY <1>1, <1>2

\* Other threads' gaps are as they were.
LEMMA OtherGaps ==
  ASSUME Safe, NEW t \in Threads, StepOf(t), NEW v \in Threads, v # t
  PROVE  Walked(v)' = Walked(v)
<1>1. call'[v] = call[v]
  BY OtherCalls
<1>2. recursion'[v] = recursion[v]
  <2>1. CASE CallStepOf(t)
    BY <2>1, CallStepKeeps
  <2>2. CASE Send(t) \/ Loop(t)
    BY <2>2, SendLists, LoopLists DEF ListKept, Safe
  <2> QED
    BY <2>1, <2>2 DEF StepOf
<1> QED
  BY <1>1, <1>2 DEF Walked, Compacting

\* A post goes where the order puts it, and is the youngest.
LEMMA PostOrder ==
  ASSUME Safe, OwnRemovals, InvOrder, NEW t \in Threads, PostAdd(t)
  PROVE  OrderAfter
<1>a. PICK u : u = call[t].data
  OBVIOUS
<1> DEFINE e == PostedEntry(t, call[t])
<1>0. StepOf(t) /\ insertionOffset' = insertionOffset
  BY DEF StepOf, CallStepOf, Post, PostAdd
<1>1. u \in Threads /\ MutexFree(u) /\ call[t].fn # "removing"
  BY <1>a, CallTypes DEF Safe, IInv, Call, PostAdd
<1>2. e \in Entry /\ e.priority = call[t].priority /\ e.event = lastEvent + 1
  BY PostedEntryType DEF Safe, IInv, PostedEntry
<1>3. PICK k \in AddPositions(list[u], insertionOffset[u], call[t].priority) :
        list' = [list EXCEPT ![u] = Insert(list[u], k, e)]
  BY <1>a DEF PostAdd
<1> HIDE DEF e
<1>4. Walked(u) = {} /\ Walked(t) = {}
  BY <1>1, NoGap
<1>5. Ordered(list[u], insertionOffset[u], {}) /\ Aged(list[u])
  BY <1>1, <1>4 DEF InvOrder, InOrder
<1>6. Youngest(e, list[u])
  <2>1. ASSUME NEW a \in LiveAt(list[u]) PROVE list[u][a].event < lastEvent + 1
    <3>1. Rec(list[u][a]) \in In(u) /\ Rec(list[u][a]).event = list[u][a].event
      BY <1>1, ListTypes DEF Rec
    <3>2. list[u][a].event \in 1 .. lastEvent /\ lastEvent \in Nat
      BY <1>1, <3>1 DEF Safe, PInv, Numbered, IInv, Typed
    <3> QED
      BY <3>2
  <2> QED
    BY <1>2, <2>1 DEF Youngest
<1>7. list[u] \in Seq(Entry) /\ insertionOffset[u] \in Nat
  BY <1>1, ListTypes
<1>8. k \in AddPositions(list[u], insertionOffset[u], e.priority)
  BY <1>2
<1>9. Ordered(Insert(list[u], k, e), insertionOffset[u], {}) /\ Aged(Insert(list[u], k, e))
  BY <1>2, <1>5, <1>6, <1>7, <1>8, InsertOrder
<1>10. \A v \in Threads : Walked(v) \subseteq Walked(v)'
  <2>1. Walked(t)' = {}
    <3>1. call'[t].fn # "removing"
      BY PostCalls DEF Post, Safe, IInv
    <3> QED
      BY <3>1 DEF Walked
  <2> QED
    BY <1>0, <1>4, OtherGaps
<1>11. Ordered(Insert(list[u], k, e), insertionOffset'[u], Walked(u)')
  <2>1. Ordered(Insert(list[u], k, e), insertionOffset'[u], {})
    BY <1>0, <1>9
  <2>2. {} \subseteq Walked(u)'
    OBVIOUS
  <2> QED
    BY <2>1, <2>2, WiderGap
<1>12. PICK l : l = Insert(list[u], k, e)
  OBVIOUS
<1>13. /\ list' = [list EXCEPT ![u] = l] /\ Aged(l)
       /\ Ordered(l, insertionOffset'[u], Walked(u)')
       /\ \A v \in Threads : v # u =>
            insertionOffset'[v] = insertionOffset[v] /\ Walked(v) \subseteq Walked(v)'
  BY <1>0, <1>3, <1>9, <1>10, <1>11, <1>12
<1> QED
  BY <1>1, <1>13, OneListOrder

\* What a removal in the thread's own list stands at, and its order.
LEMMA RemovalOrder ==
  ASSUME Safe, OwnRemovals, InvOrder, NEW t \in Threads, call[t].fn = "removing"
  PROVE  /\ call[t].data = t /\ call[t].i \in Nat /\ call[t].j \in Nat
         /\ call[t].j <= call[t].i /\ call[t].i <= Len(list[t])
         /\ call[t] \in Call /\ call \in [Threads -> Call]
         /\ list \in [Threads -> Seq(Entry)]
         /\ list[t] \in Seq(Entry) /\ insertionOffset[t] \in Nat /\ Len(list[t]) \in Nat
         /\ Aged(list[t])
         /\ Compacting(t) => /\ Ordered(list[t], insertionOffset[t], call[t].j + 1 .. call[t].i)
                             /\ \A k \in call[t].j + 1 .. call[t].i : ~Live(list[t][k])
         /\ ~Compacting(t) => Ordered(list[t], insertionOffset[t], {})
<1>1. call[t].data = t
  BY DEF OwnRemovals
<1>2. call[t] \in Call /\ call \in [Threads -> Call] /\ list \in [Threads -> Seq(Entry)]
  BY CallTypes DEF Safe, IInv, Typed
<1>3. call[t].i \in Nat /\ call[t].j \in Nat
  BY <1>2 DEF Call
<1>4. call[t].j <= call[t].i /\ call[t].i <= Len(list[t])
  BY <1>1 DEF Safe, IInv, RemovalInList
<1>5. list[t] \in Seq(Entry) /\ insertionOffset[t] \in Nat /\ Len(list[t]) \in Nat
  BY ListTypes
<1>6. Aged(list[t]) /\ Ordered(list[t], insertionOffset[t], Walked(t))
  BY DEF InvOrder, InOrder
<1>7. Compacting(t) => \A k \in call[t].j + 1 .. call[t].i : ~Live(list[t][k])
  BY <1>1 DEF Safe, PInv, Gap
<1>8. /\ Compacting(t) => Walked(t) = call[t].j + 1 .. call[t].i
      /\ ~Compacting(t) => Walked(t) = {}
  BY DEF Walked
<1> QED
  BY <1>1, <1>2, <1>3, <1>4, <1>5, <1>6, <1>7, <1>8

\* The gap after a step of a removal: recursion does not change.
LEMMA GapAfter ==
  ASSUME NEW t \in Threads, recursion' = recursion
  PROVE  /\ call'[t].fn = "removing" /\ Compacting(t) =>
              Walked(t)' = call'[t].j + 1 .. call'[t].i
         /\ call'[t].fn = "removing" /\ ~Compacting(t) => Walked(t)' = {}
         /\ call'[t].fn # "removing" => Walked(t)' = {}
  BY DEF Walked, Compacting

LEMMA RemoveMatchOrder ==
  ASSUME Safe, OwnRemovals, InvOrder, NEW t \in Threads, RemoveMatch(t)
  PROVE  OrderAfter
<1> DEFINE i == call[t].i + 1
           l == [list[t] EXCEPT ![i] = Nulled(list[t][i].priority)]
<1>0. StepOf(t) /\ insertionOffset' = insertionOffset /\ recursion' = recursion
  BY DEF StepOf, CallStepOf, Remove, RemoveMatch
<1>1. call[t].fn = "removing" /\ Removing(t)
  BY DEF RemoveMatch, Removing
<1>2. /\ call[t].data = t /\ call[t].i \in Nat /\ call[t].j \in Nat
      /\ call[t] \in Call /\ call \in [Threads -> Call] /\ list \in [Threads -> Seq(Entry)]
      /\ list[t] \in Seq(Entry) /\ Aged(list[t])
  BY <1>1, RemovalOrder
<1>3. i \in 1 .. Len(list[t])
  BY <1>1, <1>2, RemovingType DEF Safe, IInv
<1>4. list' = [list EXCEPT ![t] = l]
  BY <1>2 DEF RemoveMatch
<1>5. /\ call'[t].fn = "removing" /\ call'[t].i = i /\ call'[t].j = call[t].j
  BY <1>1, <1>2 DEF RemoveMatch, Call
<1>6. Aged(l)
  BY <1>2, <1>3, NullOrder
<1>7. Ordered(l, insertionOffset[t], Walked(t)')
  <2>1. CASE Compacting(t)
    <3>1. Ordered(list[t], insertionOffset[t], call[t].j + 1 .. call[t].i)
      BY <1>1, <2>1, RemovalOrder
    <3>2. call[t].j + 1 .. call[t].i \subseteq Walked(t)'
      BY <1>0, <1>2, <1>5, <2>1, GapAfter
    <3>3. Ordered(list[t], insertionOffset[t], Walked(t)')
      BY <3>1, <3>2, WiderGap
    <3> QED
      BY <1>2, <1>3, <3>3, NullOrder
  <2>2. CASE ~Compacting(t)
    <3>1. Ordered(list[t], insertionOffset[t], {})
      BY <1>1, <2>2, RemovalOrder
    <3>2. Ordered(l, insertionOffset[t], {}) /\ Walked(t)' = {}
      BY <1>0, <1>2, <1>3, <1>5, <2>2, <3>1, NullOrder, GapAfter
    <3> QED
      BY <3>2
  <2> QED
    BY <2>1, <2>2
<1> HIDE DEF l
<1>8. \A v \in Threads : v # t =>
        insertionOffset'[v] = insertionOffset[v] /\ Walked(v) \subseteq Walked(v)'
  BY <1>0, OtherGaps
<1>9. Ordered(l, insertionOffset'[t], Walked(t)')
  BY <1>0, <1>7
<1> QED
  BY <1>4, <1>6, <1>8, <1>9, OneListOrder

LEMMA RemoveKeepOrder ==
  ASSUME Safe, OwnRemovals, InvOrder, NEW t \in Threads, RemoveKeep(t)
  PROVE  OrderAfter
<1> DEFINE i == call[t].i + 1
           j == call[t].j + 1
           l == [list[t] EXCEPT ![i] = list[t][j], ![j] = list[t][i]]
<1>0. StepOf(t) /\ insertionOffset' = insertionOffset /\ recursion' = recursion
  BY DEF StepOf, CallStepOf, Remove, RemoveKeep
<1>1. call[t].fn = "removing" /\ Removing(t)
  BY DEF RemoveKeep, Removing
<1>2. /\ call[t].data = t /\ call[t].i \in Nat /\ call[t].j \in Nat /\ call[t].j <= call[t].i
      /\ call[t] \in Call /\ call \in [Threads -> Call] /\ list \in [Threads -> Seq(Entry)]
      /\ list[t] \in Seq(Entry) /\ Aged(list[t]) /\ insertionOffset[t] \in Nat
  BY <1>1, RemovalOrder
<1>3. i \in 1 .. Len(list[t]) /\ j \in 1 .. i
  <2>1. i \in 1 .. Len(list[t])
    BY <1>1, <1>2, RemovingType DEF Safe, IInv
  <2> QED
    BY <1>2, <2>1
<1>4. \A v \in Threads : v # t =>
        insertionOffset'[v] = insertionOffset[v] /\ Walked(v) \subseteq Walked(v)'
  BY <1>0, OtherGaps
<1>5. CASE Compacting(t)
  <2>1. /\ list' = [list EXCEPT ![t] = l]
        /\ call' = [call EXCEPT ![t].i = @ + 1, ![t].j = @ + 1]
    BY <1>2, <1>3, <1>5 DEF RemoveKeep
  <2>2. call'[t].fn = "removing" /\ call'[t].i = i /\ call'[t].j = j
    BY <1>1, <1>2, <2>1 DEF Call
  <2>3. Walked(t)' = j + 1 .. i
    BY <1>0, <1>5, <2>2, GapAfter
  <2>4. j .. i - 1 = call[t].j + 1 .. call[t].i
    BY <1>2
  <2>5. /\ Ordered(list[t], insertionOffset[t], j .. i - 1)
        /\ \A k \in j .. i - 1 : ~Live(list[t][k])
    BY <1>1, <1>5, <2>4, RemovalOrder
  <2>6. Ordered(l, insertionOffset[t], j + 1 .. i) /\ Aged(l)
    <3> HIDE DEF i, j
    <3> QED
      BY <1>2, <1>3, <2>5, SwapOrder
  <2>7. Ordered(l, insertionOffset'[t], Walked(t)')
    BY <1>0, <2>3, <2>6
  <2> HIDE DEF l
  <2> QED
    BY <1>4, <2>1, <2>6, <2>7, OneListOrder
<1>6. CASE ~Compacting(t)
  <2>1. list' = list
    BY <1>2, <1>6 DEF RemoveKeep
  <2>2. Walked(t) = {}
    BY <1>6 DEF Walked
  <2>3. \A v \in Threads : Walked(v) \subseteq Walked(v)'
    BY <1>4, <2>2
  <2> QED
    BY <1>0, <2>1, <2>3, SameListOrder
<1> QED
  BY <1>5, <1>6

LEMMA RemoveEndOrder ==
  ASSUME Safe, OwnRemovals, InvOrder, NEW t \in Threads, RemoveEnd(t)
  PROVE  OrderAfter
<1> DEFINE n == call[t].j
           l == SubSeq(list[t], 1, n)
<1>0. StepOf(t) /\ insertionOffset' = insertionOffset /\ recursion' = recursion
  BY DEF StepOf, CallStepOf, Remove, RemoveEnd
<1>1. call[t].fn = "removing" /\ ~Removing(t)
  BY DEF RemoveEnd
<1>2. /\ call[t].data = t /\ call[t].i \in Nat /\ call[t].j \in Nat /\ call[t].j <= call[t].i
      /\ list \in [Threads -> Seq(Entry)] /\ call[t].i <= Len(list[t]) /\ Len(list[t]) \in Nat
      /\ list[t] \in Seq(Entry) /\ Aged(list[t]) /\ insertionOffset[t] \in Nat
  BY <1>1, RemovalOrder
<1>3. call[t].i = Len(list[t])
  BY <1>1, <1>2 DEF Removing
<1>4. \A v \in Threads : v # t =>
        insertionOffset'[v] = insertionOffset[v] /\ Walked(v) \subseteq Walked(v)'
  BY <1>0, OtherGaps
<1>5. CASE Compacting(t)
  <2>1. list' = [list EXCEPT ![t] = l]
    BY <1>2, <1>5 DEF RemoveEnd
  <2>2. Walked(t)' = {}
    <3>1. call'[t].fn # "removing"
      BY DEF RemoveEnd, Idle, Safe, IInv, Typed
    <3> QED
      BY <1>0, <3>1, GapAfter
  <2>3. n \in 0 .. Len(list[t])
    BY <1>2
  <2>4. Ordered(list[t], insertionOffset[t], n + 1 .. Len(list[t]))
    BY <1>1, <1>3, <1>5, RemovalOrder
  <2>5. Ordered(l, insertionOffset[t], {}) /\ Aged(l)
    <3> HIDE DEF n
    <3> QED
      BY <1>2, <2>3, <2>4, FrontOrder
  <2>6. Ordered(l, insertionOffset'[t], Walked(t)')
    BY <1>0, <2>2, <2>5
  <2> HIDE DEF l
  <2> QED
    BY <1>4, <2>1, <2>5, <2>6, OneListOrder
<1>6. CASE ~Compacting(t)
  <2>1. list' = list
    BY <1>2, <1>6 DEF RemoveEnd
  <2>2. Walked(t) = {}
    BY <1>6 DEF Walked
  <2>3. \A v \in Threads : Walked(v) \subseteq Walked(v)'
    BY <1>4, <2>2
  <2> QED
    BY <1>0, <2>1, <2>3, SameListOrder
<1> QED
  BY <1>5, <1>6

LEMMA RemoveEventOrder ==
  ASSUME Safe, OwnRemovals, InvOrder, NEW t \in Threads, NEW k \in 1 .. Len(list[t]),
         RemoveEvent(t, k)
  PROVE  OrderAfter
<1> DEFINE l == [list[t] EXCEPT ![k] = Nulled(list[t][k].priority)]
<1>0. StepOf(t) /\ insertionOffset' = insertionOffset /\ recursion' = recursion /\ call' = call
  BY DEF StepOf, CallStepOf, Remove, RemoveEvent
<1>1. Walked(t) = {}
  BY NoGap DEF RemoveEvent
<1>2. list[t] \in Seq(Entry) /\ Aged(list[t]) /\ Ordered(list[t], insertionOffset[t], {})
  BY <1>1, ListTypes DEF InvOrder, InOrder
<1>3. list' = [list EXCEPT ![t] = l]
  BY DEF RemoveEvent, Safe, IInv, Typed
<1>4. Ordered(l, insertionOffset[t], {}) /\ Aged(l)
  BY <1>2, NullOrder
<1> HIDE DEF l
<1>5. Ordered(l, insertionOffset'[t], Walked(t)')
  <2>1. Walked(t)' = Walked(t)
    BY <1>0 DEF Walked, Compacting
  <2> QED
    BY <1>0, <1>1, <1>4, <2>1
<1>6. \A v \in Threads : v # t =>
        insertionOffset'[v] = insertionOffset[v] /\ Walked(v) \subseteq Walked(v)'
  BY <1>0, OtherGaps
<1> QED
  BY <1>3, <1>4, <1>5, <1>6, OneListOrder

\* The step of a move of t that puts the entry f, which was at k, behind the
\* first n of u.
CarriedTo(t, u, k, f, n) ==
  /\ list'[t] = [list[t] EXCEPT ![k] = Nulled(list[t][k].priority)]
  /\ list'[u] = Insert(list[u], n, f)
  /\ \A v \in Threads : v \notin {t, u} => list'[v] = list[v]

\* What a step of a move that carries an entry does to the lists.
LEMMA CarriedLists ==
  ASSUME Safe, NEW t \in Threads, MoveStep(t), Mine(t),
         NEW u, u = call[t].to, NEW k, k = call[t].i + 1, NEW e, e = MovedEntry(t),
         NEW f, f = [e EXCEPT !.by = 0]
  PROVE  /\ u \in Threads /\ u # t /\ call[t].data = t /\ call[t].i \in Nat
         /\ k \in LiveAt(list[t]) /\ e = list[t][k] /\ e \in Entry /\ f \in Entry
         /\ f.receiver = e.receiver /\ f.type = e.type /\ f.priority = e.priority
         /\ f.event = e.event /\ e.receiver = call[t].receiver /\ f.priority \in Int
         /\ \E n \in AddPositions(list[u], insertionOffset[u], f.priority) :
              CarriedTo(t, u, k, f, n)
<1>1. u \in Threads /\ u # t /\ call[t].i \in Nat
  BY CallTypes DEF Call, CallOf, MoveStep, Moving, Safe, IInv
<1>2. call[t].data = t
  BY DEF MoveStep, Moving, Safe, PInv, CalledAlive
<1>3. k \in 1 .. Len(list[t])
  BY <1>1, ListTypes DEF MoveStep, Moving
<1>4. e \in Entry /\ e = list[t][k]
  BY <1>3, ListTypes DEF MovedEntry
<1>5. k \in LiveAt(list[t]) /\ e.receiver = call[t].receiver
  BY <1>3, <1>4 DEF LiveAt, Mine
<1>6. /\ f \in Entry /\ f.priority \in Int
      /\ f.receiver = e.receiver /\ f.type = e.type /\ f.priority = e.priority
      /\ f.event = e.event
  BY <1>4 DEF Entry
<1>7. PICK n \in AddPositions(list[u], insertionOffset[u], e.priority) :
        list' = [list EXCEPT ![t][k] = Nulled(e.priority), ![u] = Insert(@, n, f)]
  BY DEF MoveStep, Mine, MovedEntry
<1>8. /\ list'[t] = [list[t] EXCEPT ![k] = Nulled(e.priority)]
      /\ list'[u] = Insert(list[u], n, f)
      /\ \A v \in Threads : v \notin {t, u} => list'[v] = list[v]
  <2>1. list \in [Threads -> Seq(Entry)]
    BY DEF Safe, IInv, Typed
  <2> QED
    BY <1>1, <1>7, <2>1
<1>9. n \in AddPositions(list[u], insertionOffset[u], f.priority)
  BY <1>6, <1>7
<1>10. CarriedTo(t, u, k, f, n)
  BY <1>4, <1>8 DEF CarriedTo
<1> QED
  BY <1>1, <1>2, <1>3, <1>4, <1>5, <1>6, <1>9, <1>10

\* Who moves walks along no list.
LEMMA MoverGaps ==
  ASSUME Safe, OwnRemovals, NEW t \in Threads, call[t].fn = "moving",
         NEW u \in Threads, u = call[t].to, u # t, call[t].data = t
  PROVE  Walked(t) = {} /\ Walked(u) = {}
<1>1. Holds(t, u) /\ Holds(t, t)
  BY DEF Holds
<1> QED
  BY <1>1, NoGap

\* An event that moves keeps its place among those of its kind.
LEMMA MoveStepOrder ==
  ASSUME Safe, OwnRemovals, InvOrder, NEW t \in Threads, MoveStep(t)
  PROVE  OrderAfter
<1>0. StepOf(t) /\ insertionOffset' = insertionOffset /\ call[t].fn = "moving"
  BY DEF StepOf, CallStepOf, Move, MoveStep, Moving
<1>1. call'[t].fn # "removing" /\ Walked(t)' = {}
  <2>1. call \in [Threads -> Call]
    BY DEF Safe, IInv, Typed
  <2>2. call'[t].fn = "moving"
    BY <1>0, <2>1 DEF MoveStep, Call
  <2> QED
    BY <2>2 DEF Walked
<1>2. Walked(t) = {}
  BY <1>0, NoGap
<1>3. \A v \in Threads : Walked(v) \subseteq Walked(v)'
  BY <1>0, <1>2, OtherGaps
<1>4. CASE ~Mine(t)
  <2>1. list' = list
    BY <1>4 DEF MoveStep, Mine, MovedEntry
  <2> QED
    BY <1>0, <1>3, <2>1, SameListOrder
<1>5. CASE Mine(t)
  <2>1. PICK u, k, e : u = call[t].to /\ k = call[t].i + 1 /\ e = MovedEntry(t)
    OBVIOUS
  <2>2. PICK f : f = [e EXCEPT !.by = 0]
    OBVIOUS
  <2>3. /\ u \in Threads /\ u # t /\ call[t].data = t
        /\ k \in LiveAt(list[t]) /\ e = list[t][k] /\ e \in Entry /\ f \in Entry
        /\ f.receiver = e.receiver /\ f.type = e.type /\ f.priority = e.priority
        /\ f.event = e.event /\ e.receiver = call[t].receiver
    BY <1>5, <2>1, <2>2, CarriedLists
  <2>4a. PICK n \in AddPositions(list[u], insertionOffset[u], f.priority) :
           CarriedTo(t, u, k, f, n)
    BY <1>5, <2>1, <2>2, CarriedLists
  <2>4. /\ list'[t] = [list[t] EXCEPT ![k] = Nulled(list[t][k].priority)]
        /\ list'[u] = Insert(list[u], n, f)
        /\ \A v \in Threads : v \notin {t, u} => list'[v] = list[v]
    BY <2>4a DEF CarriedTo
  <2>5. Walked(u) = {}
    BY <1>0, <2>1, <2>3, MoverGaps
  <2>6. /\ Ordered(list[u], insertionOffset[u], {}) /\ Aged(list[u])
        /\ Ordered(list[t], insertionOffset[t], {}) /\ Aged(list[t])
    BY <1>2, <2>3, <2>5 DEF InvOrder, InOrder
  <2>7. Youngest(f, list[u])
    <3>1. Younger(call[t].receiver, list[u], list[t])
      BY <1>0, <2>1 DEF InvOrder, MovedFirst
    <3>2. ASSUME NEW a \in LiveAt(list[u]), SameKind(list[u][a], f)
          PROVE  list[u][a].event < f.event
      <4>1. SameKind(list[u][a], list[t][k]) /\ list[u][a].receiver = call[t].receiver
        BY <2>3, <3>2 DEF SameKind
      <4>2. list[u][a].event < list[t][k].event
        BY <2>3, <3>1, <4>1 DEF Younger
      <4> QED
        BY <2>3, <4>2
    <3> QED
      BY <3>2 DEF Youngest
  <2>8. /\ list[u] \in Seq(Entry) /\ insertionOffset[u] \in Nat
        /\ list[t] \in Seq(Entry) /\ k \in 1 .. Len(list[t])
    BY <2>3, ListTypes DEF LiveAt
  <2>9. Ordered(list'[u], insertionOffset[u], {}) /\ Aged(list'[u])
    BY <2>3, <2>4, <2>6, <2>7, <2>8, InsertOrder
  <2>10. Ordered(list'[t], insertionOffset[t], {}) /\ Aged(list'[t])
    BY <2>4, <2>6, <2>8, NullOrder
  <2>11. ASSUME NEW v \in Threads
         PROVE  Ordered(list'[v], insertionOffset'[v], Walked(v)') /\ Aged(list'[v])
    <3>1. PICK G : G = IF v \in {t, u} THEN {} ELSE Walked(v)
      OBVIOUS
    <3>2. Ordered(list'[v], insertionOffset[v], G) /\ Aged(list'[v])
      BY <2>4, <2>9, <2>10, <3>1 DEF InvOrder, InOrder
    <3>3. G \subseteq Walked(v)'
      BY <1>3, <3>1
    <3>4. Ordered(list'[v], insertionOffset[v], Walked(v)')
      BY <3>2, <3>3, WiderGap
    <3> QED
      BY <1>0, <3>2, <3>4
  <2> QED
    BY <2>11 DEF OrderAfter
<1> QED
  BY <1>4, <1>5

\* A removal starts without a gap.
LEMMA NewGap ==
  ASSUME Safe, NEW t \in Threads, CallStepOf(t), ~CallChanges(t)
  PROVE  Walked(t) \subseteq Walked(t)'
<1>1. CASE call[t].fn # "removing"
  BY <1>1 DEF Walked
<1>2. CASE call[t].fn = "removing"
  BY <1>2 DEF CallStepOf, CallChanges, Post, PostBegin, PostFollow, PostCompress,
     PostWakeUp, Remove, RemoveBegin, RemoveStart, Move, MoveBegin, MoveEnd, Destroy,
     UserCode
<1> QED
  BY <1>1, <1>2

LEMMA CallStepOrder ==
  ASSUME Safe, OwnRemovals, InvOrder, NEW t \in Threads, CallStepOf(t)
  PROVE  OrderAfter
<1>1. CASE CallChanges(t)
  <2>1. ASSUME NEW k \in 1 .. Len(list[t]), RemoveEvent(t, k) PROVE OrderAfter
    BY <2>1, RemoveEventOrder
  <2> QED
    BY <1>1, <2>1, PostOrder, RemoveMatchOrder, RemoveKeepOrder, RemoveEndOrder,
       MoveStepOrder DEF CallChanges
<1>2. CASE ~CallChanges(t)
  <2>1. list' = list /\ insertionOffset' = insertionOffset
    BY <1>2, OtherCallSteps, CallStepKeeps
  <2>2. \A v \in Threads : Walked(v) \subseteq Walked(v)'
    BY <1>2, NewGap, OtherGaps DEF StepOf
  <2> QED
    BY <2>1, <2>2, SameListOrder
<1> QED
  BY <1>1, <1>2

\* A step of sendPostedEvents in thread t, or of a loop of it, is right for
\* all lists if it is for that of t: nobody walks along that.
LEMMA OwnListOrder ==
  ASSUME Safe, OwnRemovals, InvOrder, NEW t \in Threads, Send(t) \/ Loop(t),
         Ordered(list'[t], insertionOffset'[t], {}), Aged(list'[t])
  PROVE  OrderAfter
<1>1. ListKept(t) /\ StepOf(t)
  BY SendLists, LoopLists DEF Safe, StepOf
<1>2. ASSUME NEW v \in Threads
      PROVE  Ordered(list'[v], insertionOffset'[v], Walked(v)') /\ Aged(list'[v])
  <2>1. CASE v = t
    <3>1. {} \subseteq Walked(t)'
      OBVIOUS
    <3>2. Ordered(list'[t], insertionOffset'[t], Walked(t)')
      BY <3>1, WiderGap
    <3> QED
      BY <2>1, <3>2
  <2>2. CASE v # t
    <3>1. Walked(v)' = Walked(v)
      BY <1>1, <2>2, OtherGaps
    <3>2. list'[v] = list[v] /\ insertionOffset'[v] = insertionOffset[v]
      BY <1>1, <2>2 DEF ListKept
    <3> QED
      BY <3>1, <3>2 DEF InvOrder, InOrder
  <2> QED
    BY <2>1, <2>2
<1> QED
  BY <1>2 DEF OrderAfter

\* A deferred delete that is posted again goes where a new event would.
LEMMA HoldOrder ==
  ASSUME Safe, NEW t \in Threads, ScanHold(t),
         Ordered(list[t], insertionOffset[t], {}), Aged(list[t])
  PROVE  Ordered(list'[t], insertionOffset'[t], {}) /\ Aged(list'[t])
<1> DEFINE e == Current(t)
           i == At(t)
           l == [list[t] EXCEPT ![i] = Nulled(list[t][i].priority)]
<1>0. insertionOffset' = insertionOffset
  BY DEF ScanHold
<1>1. CASE ~Global(Top(t))
  <2>1. list' = list
    BY <1>1 DEF ScanHold
  <2> QED
    BY <1>0, <2>1
<1>2. CASE Global(Top(t))
  <2>1. i \in 1 .. Len(list[t]) /\ e \in Entry /\ e = list[t][i] /\ e.type = DeferredDelete
    BY CurrentType DEF ScanHold, Safe, IInv, Held, Current
  <2>2. l \in Seq(Entry) /\ insertionOffset[t] \in Nat
    <3>1. list[t] \in Seq(Entry) /\ e.priority \in Int
      BY <2>1, ListTypes DEF Entry
    <3>2. Nulled(list[t][i].priority) \in Entry
      BY <2>1, <3>1, NulledType
    <3> QED
      BY <2>1, <3>1, <3>2, ListTypes, ExceptSeq
  <2>3. Ordered(l, insertionOffset[t], {}) /\ Aged(l)
    <3>1. list[t] \in Seq(Entry)
      BY ListTypes
    <3> HIDE DEF i
    <3> QED
      BY <2>1, <3>1, NullOrder
  <2>4. PICK k \in AddPositions(l, insertionOffset[t], e.priority) :
          list' = [list EXCEPT ![t] = Insert(l, k, e)]
    BY <1>2, <2>1 DEF ScanHold
  <2>5. list'[t] = Insert(l, k, e)
    BY <2>4 DEF Safe, IInv, Typed
  <2>6. Youngest(e, l)
    BY <2>1 DEF Youngest, SameKind
  <2> HIDE DEF l, e
  <2>7. Ordered(Insert(l, k, e), insertionOffset[t], {}) /\ Aged(Insert(l, k, e))
    BY <2>1, <2>2, <2>3, <2>4, <2>6, InsertOrder
  <2> QED
    BY <1>0, <2>5, <2>7
<1> QED
  BY <1>1, <1>2

\* Taking an event out keeps the order.
LEMMA DeliverOrder ==
  ASSUME Safe, NEW t \in Threads, ScanDeliver(t),
         Ordered(list[t], insertionOffset[t], {}), Aged(list[t])
  PROVE  Ordered(list'[t], insertionOffset'[t], {}) /\ Aged(list'[t])
<1>1. PICK i : i = At(t)
  OBVIOUS
<1>2. i \in 1 .. Len(list[t]) /\ list[t] \in Seq(Entry) /\ Current(t) = list[t][i]
  BY <1>1, CurrentType, ListTypes DEF ScanDeliver, Safe, IInv, Current
<1>3. list'[t] = [list[t] EXCEPT ![i] = Nulled(list[t][i].priority)]
  BY <1>1, <1>2 DEF ScanDeliver, Safe, IInv, Typed
<1>4. insertionOffset' = insertionOffset
  BY DEF ScanDeliver
<1> QED
  BY <1>2, <1>3, <1>4, NullOrder

\* So does the end of a send: what is searched begins where it did.
LEMMA CleanUpOrder ==
  ASSUME Safe, NEW t \in Threads, NEW waits, CleanUp(t, waits),
         Ordered(list[t], insertionOffset[t], {}), Aged(list[t])
  PROVE  Ordered(list'[t], insertionOffset'[t], {}) /\ Aged(list'[t])
<1>1. CASE ~Global(Top(t))
  BY <1>1 DEF CleanUp
<1>2. CASE Global(Top(t))
  <2>1. PICK n, o : n = startOffset[t] /\ o = insertionOffset[t]
    OBVIOUS
  <2>2. /\ list'[t] = SubSeq(list[t], n + 1, Len(list[t]))
        /\ insertionOffset'[t] = o - n
    BY <1>2, <2>1 DEF CleanUp, InsertionLeft, Safe, IInv, Typed
  <2>3. /\ list[t] \in Seq(Entry) /\ o \in Nat /\ n \in 0 .. Len(list[t]) /\ n <= o
    BY <2>1, OffsetTypes DEF Safe, IInv
  <2>4. Ordered(list[t], o, {})
    BY <2>1
  <2> QED
    BY <2>2, <2>3, <2>4, BackOrder
<1> QED
  BY <1>1, <1>2

LEMMA SendStepOrder ==
  ASSUME Safe, OwnRemovals, InvOrder, NEW t \in Threads, Send(t) \/ Loop(t)
  PROVE  OrderAfter
<1>0. Ordered(list[t], insertionOffset[t], {}) /\ Aged(list[t])
  <2>1. Walked(t) = {}
    BY SendCalls, NoGap DEF Safe
  <2> QED
    BY <2>1 DEF InvOrder, InOrder
<1> SUFFICES Ordered(list'[t], insertionOffset'[t], {}) /\ Aged(list'[t])
  BY OwnListOrder
<1>1. CASE ScanHold(t)
  BY <1>0, <1>1, HoldOrder
<1>2. CASE ScanDeliver(t)
  BY <1>0, <1>2, DeliverOrder
<1>3. CASE HandlerThrow(t) \/ SendEnd(t)
  BY <1>0, <1>3, CleanUpOrder DEF HandlerThrow, SendEnd
<1>4. CASE SendStart(t)
  <2>1. list'[t] = list[t] /\ insertionOffset'[t] = Len(list[t])
    BY <1>4 DEF SendStart, Safe, IInv, Typed
  <2>2. Ordered(list[t], Len(list[t]), {})
    <3>1. Len(list[t]) \in Nat
      BY ListTypes
    <3> QED
      BY <3>1 DEF Ordered
  <2> QED
    BY <1>0, <2>1, <2>2
<1>5. CASE ~SendChanges(t) /\ ~SendStart(t)
  <2>1. list' = list
    BY <1>5, OtherSendSteps
  <2>2. insertionOffset' = insertionOffset
    BY <1>5 DEF SendChanges, Send, SendBegin, SendNothing, ScanNull, ScanOther, HandlerReturn,
       Loop, LoopBegin, LoopEnd, LoopAwake, LoopSend, LoopCheck, LoopBlock,
         LoopSelect, dataVars, queueVars
  <2> QED
    BY <1>0, <2>1, <2>2
<1> QED
  BY <1>1, <1>2, <1>3, <1>4, <1>5 DEF SendChanges

\* The pending entries after an insertion.
LEMMA InsertedLive ==
  ASSUME NEW l \in Seq(Entry), NEW o \in Nat, NEW e \in Entry,
         NEW k \in AddPositions(l, o, e.priority), NEW m, m = Insert(l, k, e),
         NEW a \in LiveAt(m)
  PROVE  m[a] = e \/ \E b \in LiveAt(l) : m[a] = l[b]
<1>1. k \in 0 .. Len(l) /\ Len(l) \in Nat
  BY AddPositionsBounded, EntryTypes DEF Entry
<1>2. /\ Len(m) = Len(l) + 1
      /\ \A i \in 1 .. Len(l) + 1 :
           m[i] = IF i <= k THEN l[i] ELSE IF i = k + 1 THEN e ELSE l[i - 1]
  BY <1>1, InsertedEntries
<1>3. a \in 1 .. Len(l) + 1 /\ Live(m[a])
  BY <1>2 DEF LiveAt
<1>4. CASE a <= k
  <2>1. a \in 1 .. Len(l) /\ m[a] = l[a]
    BY <1>1, <1>2, <1>3, <1>4
  <2> QED
    BY <1>3, <2>1 DEF LiveAt
<1>5. CASE a = k + 1
  BY <1>1, <1>2, <1>3, <1>5
<1>6. CASE a > k + 1
  <2>1. a - 1 \in 1 .. Len(l) /\ m[a] = l[a - 1]
    BY <1>1, <1>2, <1>3, <1>6
  <2> QED
    BY <1>3, <2>1 DEF LiveAt
<1> QED
  BY <1>1, <1>3, <1>4, <1>5, <1>6

\* A step of a move keeps what has moved older than what remains: the
\* entries are taken in their order.
LEMMA MoveStepFirst ==
  ASSUME Safe, InvOrder, NEW t \in Threads, MoveStep(t), Mine(t), NEW u, u = call[t].to
  PROVE  Younger(call[t].receiver, list'[u], list'[t])
<1>1. PICK k, e : k = call[t].i + 1 /\ e = MovedEntry(t)
  OBVIOUS
<1>2. PICK f : f = [e EXCEPT !.by = 0]
  OBVIOUS
<1>3. /\ u \in Threads /\ u # t /\ call[t].data = t /\ call[t].i \in Nat
      /\ k \in LiveAt(list[t]) /\ e = list[t][k] /\ e \in Entry /\ f \in Entry
      /\ f.receiver = e.receiver /\ f.type = e.type /\ f.priority = e.priority
      /\ f.event = e.event /\ e.receiver = call[t].receiver
  BY <1>1, <1>2, CarriedLists
<1>4a. PICK n \in AddPositions(list[u], insertionOffset[u], f.priority) :
         CarriedTo(t, u, k, f, n)
  BY <1>1, <1>2, CarriedLists
<1>4. list'[u] = Insert(list[u], n, f)
  BY <1>4a DEF CarriedTo
<1>5. /\ LiveAt(list'[t]) = LiveAt(list[t]) \ {k}
      /\ \A b \in LiveAt(list[t]) \ {k} : list'[t][b] = list[t][b]
  <2>1. k \in 1 .. Len(list[t]) /\ list[t] \in Seq(Entry)
    BY <1>3, ListTypes DEF LiveAt
  <2>2. list'[t] = [list[t] EXCEPT ![k] = Nulled(list[t][k].priority)]
    BY <1>4a DEF CarriedTo
  <2> QED
    BY <2>1, <2>2, NullOrder
<1>6. Younger(call[t].receiver, list[u], list[t]) /\ Aged(list[t])
  BY DEF InvOrder, MovedFirst, InOrder, MoveStep, Moving
<1> SUFFICES ASSUME NEW a \in LiveAt(list'[u]), NEW b \in LiveAt(list'[t]),
                    list'[u][a].receiver = call[t].receiver, SameKind(list'[u][a], list'[t][b])
             PROVE  list'[u][a].event < list'[t][b].event
  BY DEF Younger
<1>7. b \in LiveAt(list[t]) /\ b # k /\ list'[t][b] = list[t][b]
  BY <1>5
<1>8. list'[u][a] = f \/ \E c \in LiveAt(list[u]) : list'[u][a] = list[u][c]
  <2>1. list[u] \in Seq(Entry) /\ insertionOffset[u] \in Nat
    BY <1>3, ListTypes
  <2> QED
    BY <1>3, <1>4, <2>1, InsertedLive
<1>9. CASE \E c \in LiveAt(list[u]) : list'[u][a] = list[u][c]
  BY <1>6, <1>7, <1>9 DEF Younger
<1>10. CASE list'[u][a] = f
  <2>1. SameKind(list[t][k], list[t][b])
    BY <1>3, <1>7, <1>10 DEF SameKind
  <2>2. b \in 1 .. Len(list[t]) /\ k \in 1 .. Len(list[t]) /\ Len(list[t]) \in Nat
    BY <1>3, <1>7, ListTypes DEF LiveAt
  <2>3. CASE k < b
    <3>1. list[t][k].event < list[t][b].event
      BY <1>3, <1>6, <1>7, <2>1, <2>3 DEF Aged
    <3> QED
      BY <1>3, <1>7, <1>10, <3>1
  <2>4. CASE b <= call[t].i
    <3>1. call[t].fn = "moving" /\ call[t].type = Any
      BY DEF MoveStep, Moving, Safe, PInv, CalledAlive
    <3>2. ~Matches(list[t][b], call[t].receiver, Any)
      BY <1>3, <1>7, <2>4, <3>1 DEF Safe, PInv, Swept
    <3>3. list[t][b].receiver = call[t].receiver
      BY <1>3, <1>7, <1>10 DEF SameKind
    <3> QED
      BY <3>2, <3>3 DEF Matches
  <2> QED
    BY <1>1, <1>3, <1>7, <2>2, <2>3, <2>4
<1> QED
  BY <1>8, <1>9, <1>10

\* Where a move begins nothing of the object is in the new list.
LEMMA MoveBeginFirst ==
  ASSUME Safe, NEW t \in Threads, NEW r \in Objects, NEW u \in Threads,
         call[t].fn = "none", threadData[r] = t, u # t, NEW a \in LiveAt(list[u])
  PROVE  list[u][a].receiver # r
<1> SUFFICES ASSUME list[u][a].receiver = r PROVE FALSE
  OBVIOUS
<1>1. Rec(list[u][a]) \in In(u) /\ Rec(list[u][a]).receiver = r
  BY ListTypes DEF Rec
<1>2. PICK v \in Threads : Moves(v, r, u)
  BY <1>1 DEF Safe, PInv, InPlace
<1>3. threadData[r] = v
  BY <1>2 DEF Moves, Safe, PInv, CalledAlive
<1> QED
  BY <1>2, <1>3 DEF Moves

\* Only moveToThread begins a move.
LEMMA MoverBegins ==
  ASSUME Safe, NEW t \in Threads, StepOf(t), call[t].fn # "moving", call'[t].fn = "moving"
  PROVE  \E r \in Objects, u \in MoveTargets : MoveBegin(t, r, u)
<1>1. call[t] \in Call /\ call \in [Threads -> Call]
  BY CallTypes DEF Safe, IInv, Typed
<1>2. ~(Send(t) \/ Loop(t))
  BY SendCalls DEF Safe
<1>3. ~Post(t)
  BY PostCalls DEF Safe, IInv
<1>4. ~Remove(t)
  <2>1. ASSUME NEW r, NEW ty, RemoveBegin(t, r, ty) PROVE FALSE
    <3>1. call'[t] = RemoveCall(t, r, ty)
      BY <1>1, <2>1 DEF RemoveBegin
    <3> QED
      BY <3>1 DEF RemoveCall, Idle
  <2>2. CASE RemoveStart(t)
    <3>1. call'[t] \in {Idle(t), [call[t] EXCEPT !.fn = "removing"]}
      BY <1>1, <2>2 DEF RemoveStart
    <3> QED
      BY <1>1, <3>1 DEF Idle, Call
  <2>3. CASE RemoveMatch(t) \/ RemoveKeep(t)
    <3>1. /\ call'[t] \in {[call[t] EXCEPT !.i = @ + 1],
                           [call[t] EXCEPT !.i = @ + 1, !.j = @ + 1]}
          /\ call[t].fn = "removing"
      BY <1>1, <2>3 DEF RemoveMatch, RemoveKeep, Removing
    <3> QED
      BY <1>1, <3>1 DEF Call
  <2>4. CASE RemoveEnd(t)
    <3>1. call'[t] = Idle(t)
      BY <1>1, <2>4 DEF RemoveEnd
    <3> QED
      BY <3>1 DEF Idle
  <2>5. ASSUME NEW k, RemoveEvent(t, k) PROVE FALSE
    BY <2>5 DEF RemoveEvent
  <2> QED
    BY <2>1, <2>2, <2>3, <2>4, <2>5 DEF Remove
<1>5. ASSUME NEW r \in Objects, Destroy(t, r) PROVE FALSE
  <2>1. call'[t] = RemoveCall(t, r, Any) \/ call'[t] = call[t]
    BY <1>1, <1>5 DEF Destroy
  <2> QED
    BY <2>1 DEF RemoveCall, Idle
<1>6. ~MoveStep(t) /\ ~MoveEnd(t)
  BY DEF MoveStep, MoveEnd, Moving
<1> QED
  BY <1>2, <1>3, <1>4, <1>5, <1>6 DEF StepOf, CallStepOf, Move

LEMMA MovedFirstStep ==
  ASSUME Safe, InvOrder, NEW t \in Threads, StepOf(t)
  PROVE  MovedFirst'
<1> SUFFICES ASSUME NEW v \in Threads, call'[v].fn = "moving"
             PROVE  Younger(call'[v].receiver, list'[call'[v].to], list'[v])
  BY DEF MovedFirst
<1>1. CASE v # t
  <2>1. call'[v] = call[v]
    BY <1>1, OtherCalls
  <2>2. PICK u : u = call[v].to
    OBVIOUS
  <2>3. u \in Threads /\ call[v].data = v
    BY <2>1, <2>2, CallTypes DEF Call, Safe, IInv, PInv, CalledAlive
  <2>4. Holds(v, u) /\ Holds(v, v)
    BY <2>1, <2>2, <2>3 DEF Holds
  <2>5. list'[u] = list[u] /\ list'[v] = list[v]
    BY <1>1, <2>3, <2>4, HeldLists
  <2>6. Younger(call[v].receiver, list[u], list[v])
    BY <2>1, <2>2 DEF InvOrder, MovedFirst
  <2> QED
    BY <2>1, <2>2, <2>5, <2>6
<1>2. CASE v = t /\ call[t].fn = "moving"
  <2>1. ~MoveEnd(t)
    BY <1>2 DEF MoveEnd, Idle, Safe, IInv, Typed
  <2>2. /\ MoveStep(t) /\ call'[t].receiver = call[t].receiver
        /\ call'[t].to = call[t].to
    BY <1>2, <2>1, MoverSteps
  <2>3. PICK u : u = call[t].to
    OBVIOUS
  <2>4. Younger(call[t].receiver, list'[u], list'[t])
    <3>1. CASE Mine(t)
      BY <2>2, <2>3, <3>1, MoveStepFirst
    <3>2. CASE ~Mine(t)
      <4>1. list' = list
        BY <2>2, <3>2 DEF MoveStep, Mine, MovedEntry
      <4> QED
        BY <1>2, <2>3, <4>1 DEF InvOrder, MovedFirst
    <3> QED
      BY <3>1, <3>2
  <2> QED
    BY <1>2, <2>2, <2>3, <2>4
<1>3. CASE v = t /\ call[t].fn # "moving"
  <2>1. PICK r \in Objects, u \in MoveTargets : MoveBegin(t, r, u)
    BY <1>3, MoverBegins
  <2>2. /\ call[t].fn = "none" /\ threadData[r] = t /\ u # t /\ list' = list
        /\ call'[t].receiver = r /\ call'[t].to = u
    BY <2>1 DEF MoveBegin, UserCode, dataVars, queueVars, Safe, IInv, Typed, Idle, Call
  <2>3. u \in Threads
    BY ConstantsAssumption
  <2>4. \A a \in LiveAt(list[u]) : list[u][a].receiver # r
    BY <2>2, <2>3, MoveBeginFirst
  <2> QED
    BY <1>3, <2>2, <2>4 DEF Younger
<1> QED
  BY <1>1, <1>2, <1>3

\* The order is kept by every step.
LEMMA OrderStep ==
  Safe /\ OwnRemovals /\ InvOrder /\ [Next]_vars => InvOrder'
<1> SUFFICES ASSUME Safe, OwnRemovals, InvOrder, [Next]_vars PROVE InvOrder'
  OBVIOUS
<1>1. CASE UNCHANGED vars
  <2>1. UNCHANGED <<list, insertionOffset, recursion, call>>
    BY <1>1 DEF vars, dataVars, queueVars
  <2> QED
    BY <2>1 DEF InvOrder, InOrder, MovedFirst, Walked, Compacting
<1>2. ASSUME NEW t \in Threads, StepOf(t) PROVE InvOrder'
  <2>1. OrderAfter
    BY <1>2, CallStepOrder, SendStepOrder DEF StepOf
  <2>2. MovedFirst'
    BY <1>2, MovedFirstStep
  <2> QED
    BY <2>1, <2>2 DEF InvOrder, InOrder, OrderAfter
<1>3. Next => \E t \in Threads : StepOf(t)
  BY DEF Next, CallStepOf, StepOf
<1> QED
  BY <1>1, <1>2, <1>3

LEMMA OrderInitially == Init => InvOrder
<1> SUFFICES ASSUME Init PROVE InvOrder
  OBVIOUS
<1>1. \A t \in Threads : list[t] = <<>> /\ Len(list[t]) = 0 /\ call[t].fn # "moving"
  BY DEF Init, Idle
<1> QED
  BY <1>1 DEF InvOrder, InOrder, Ordered, Aged, LiveAt, MovedFirst

LEMMA OrderAlways == Spec /\ []OwnRemovals => []InvOrder
  BY SafeAlways, OrderInitially, OrderStep, PTL DEF Spec

\* As long as no thread removes from the list of another one, the part of a
\* list that addEvent searches with qUpperBound is sorted whenever it can be
\* searched.
THEOREM SearchedTailIsSorted == Spec /\ []OwnRemovals => []SortedTail
<1>1. Safe /\ OwnRemovals /\ InvOrder => SortedTail
  <2> SUFFICES ASSUME Safe, OwnRemovals, InvOrder, NEW t \in Threads,
                      NEW j \in insertionOffset[t] + 1 .. Len(list[t]),
                      NEW k \in insertionOffset[t] + 1 .. Len(list[t]), j < k, MutexFree(t)
               PROVE  list[t][j].priority >= list[t][k].priority
    BY DEF SortedTail
  <2>1. Walked(t) = {}
    BY NoGap
  <2>2. Ordered(list[t], insertionOffset[t], {})
    BY <2>1 DEF InvOrder, InOrder
  <2>3. insertionOffset[t] \in Nat /\ Len(list[t]) \in Nat
    BY ListTypes
  <2> QED
    BY <2>2, <2>3 DEF Ordered
<1> QED
  BY <1>1, SafeAlways, OrderAlways, PTL

\* Code that sends everything, and nothing else.
SendsEverything == SendRequests \subseteq {<<None, Any>>}

AllGlobal(t) == \A k \in Sends(t) : Global(stack[t][k])

\* A scanning send goes on after a step.
StillStarted(t) == \A k \in Nat : Started(t, k) => Started(t, k)'

LEMMA PushUsed ==
  ASSUME Typed, NEW t \in Threads, NEW f \in Frame, stack' = Push(t, f), AllGlobal(t),
         f.fn = "send" => Global(f)
  PROVE  OthersKept(t) /\ AllGlobal(t)' /\ StillStarted(t)
<1>1. /\ OthersKept(t)
      /\ Len(stack[t]) \in Nat /\ Len(stack'[t]) = Len(stack[t]) + 1
      /\ \A k \in 1 .. Len(stack[t]) : stack'[t][k] = stack[t][k]
      /\ stack'[t][Len(stack[t]) + 1] = f
  BY PushedStack
<1>2. PICK n \in Nat : n = Len(stack[t])
  BY <1>1
<1>3. \A k \in 1 .. n + 1 : k = n + 1 \/ k \in 1 .. n
  BY <1>2
<1>4. \A k \in Sends(t)' : k = n + 1 \/ (k \in Sends(t) /\ stack'[t][k] = stack[t][k])
  BY <1>1, <1>2, <1>3 DEF Sends
<1>5. AllGlobal(t)'
  <2>1. AllGlobal(t)' = \A k \in Sends(t)' : Global(stack'[t][k])
    BY DEF AllGlobal, Global
  <2>2. \A k \in Sends(t)' : stack'[t][k].fn = "send"
    BY DEF Sends
  <2> QED
    BY <1>1, <1>2, <1>4, <2>1, <2>2 DEF AllGlobal
<1>6. StillStarted(t)
  BY <1>1, <1>2 DEF StillStarted, Started, Sends
<1> QED
  BY <1>1, <1>5, <1>6

LEMMA ReplaceUsed ==
  ASSUME Typed, NEW t \in Threads, stack[t] # <<>>, NEW f \in Frame,
         stack' = Becomes(t, f), f.fn = Top(t).fn, AllGlobal(t),
         f.receiver = Top(t).receiver, f.type = Top(t).type,
         f.fn = "send" => f.at # "enter"
  PROVE  /\ OthersKept(t) /\ AllGlobal(t)' /\ StillStarted(t)
         /\ f.fn = "send" => Started(t, Len(stack[t]))'
<1>1. /\ OthersKept(t) /\ Len(stack[t]) \in Nat \ {0}
      /\ Len(stack'[t]) = Len(stack[t])
      /\ \A k \in 1 .. Len(stack[t]) - 1 : stack'[t][k] = stack[t][k]
      /\ stack'[t][Len(stack[t])] = f
  BY ReplacedStack
<1>2. PICK n \in Nat : n = Len(stack[t])
  BY <1>1
<1>3. \A k \in 1 .. n : k = n \/ k \in 1 .. n - 1
  BY <1>2
<1>4. \A k \in 1 .. n : stack'[t][k].fn = stack[t][k].fn
        /\ (Global(stack[t][k]) => Global(stack'[t][k]))
        /\ (stack[t][k].fn = "send" /\ stack[t][k].at # "enter" => stack'[t][k].at # "enter")
  BY <1>1, <1>2, <1>3 DEF Top, Global
<1>5. AllGlobal(t)'
  <2>1. AllGlobal(t)' = \A k \in Sends(t)' : Global(stack'[t][k])
    BY DEF AllGlobal, Global
  <2>2. \A k \in Sends(t)' : k \in Sends(t) /\ k \in 1 .. n
    BY <1>1, <1>2, <1>4 DEF Sends
  <2> QED
    BY <1>4, <2>1, <2>2 DEF AllGlobal
<1>6. StillStarted(t)
  BY <1>1, <1>2, <1>4 DEF StillStarted, Started, Sends
<1>7. f.fn = "send" => Started(t, Len(stack[t]))'
  <2>1. Started(t, n)' = (n \in Sends(t)' /\ stack'[t][n].at # "enter")
    BY DEF Started
  <2>2. f.fn = "send" => Started(t, n)'
    <3>1. n \in 1 .. Len(stack'[t]) /\ stack'[t][n] = f
      BY <1>1, <1>2
    <3> QED
      BY <2>1, <3>1 DEF Sends
  <2> QED
    BY <1>1, <1>2, <2>2 DEF Started
<1> QED
  BY <1>1, <1>5, <1>6, <1>7

LEMMA PopUsed ==
  ASSUME Typed, NEW t \in Threads, NEW n \in 0 .. Len(stack[t]), n < Len(stack[t]),
         stack' = [stack EXCEPT ![t] = SubSeq(@, 1, n)], AllGlobal(t)
  PROVE  /\ OthersKept(t) /\ AllGlobal(t)'
         /\ n + 1 = Len(stack[t]) /\ (Top(t).fn = "send" => Top(t).at = "enter") => StillStarted(t)
<1>0. Len(stack[t]) \in Nat /\ n \in Nat
  BY StackType
<1>1. OthersKept(t) /\ Len(stack'[t]) = n /\ \A k \in 1 .. n : stack'[t][k] = stack[t][k]
  BY PoppedStack
<1>2. AllGlobal(t)'
  BY <1>0, <1>1 DEF AllGlobal, Sends, Global
<1>3. ASSUME n + 1 = Len(stack[t]), Top(t).fn = "send" => Top(t).at = "enter"
      PROVE  StillStarted(t)
  BY <1>0, <1>1, <1>3 DEF StillStarted, Started, Sends, Top
<1> QED
  BY <1>1, <1>2, <1>3

\* What the steps of sendPostedEvents do to the sends of the thread.
LEMMA SendUsed ==
  ASSUME SendsEverything, IInv, NEW t \in Threads, Send(t), AllGlobal(t)
  PROVE  /\ OthersKept(t) /\ AllGlobal(t)'
         /\ StillStarted(t) \/ SendEnd(t) \/ HandlerThrow(t)
         /\ SendStart(t) => \E k : Started(t, k)'
<1> USE DEF IInv
<1>0. Len(stack[t]) \in Nat
  BY StackType
<1> DEFINE Kept == OthersKept(t) /\ AllGlobal(t)' /\ StillStarted(t)
<1>1. ASSUME NEW q \in SendRequests, SendBegin(t, q[1], q[2]) PROVE Kept
  <2>1. q[1] = None /\ q[2] = Any
    BY DEF SendsEverything
  <2>2. PICK f : f = SendFrame(None, Any)
    OBVIOUS
  <2>3. f \in Frame /\ Global(f)
    BY <2>2, FrameTypes DEF SendFrame, Global
  <2>4. stack' = Push(t, f)
    BY <1>1, <2>1, <2>2 DEF SendBegin
  <2> QED
    BY <2>3, <2>4, PushUsed
<1>2. ASSUME stack[t] # <<>>, stack' = Pop(t)
      PROVE  /\ OthersKept(t) /\ AllGlobal(t)'
             /\ (Top(t).fn = "send" => Top(t).at = "enter") => StillStarted(t)
  <2>1. PICK n : n = Len(stack[t]) - 1
    OBVIOUS
  <2>2. n \in 0 .. Len(stack[t]) /\ n < Len(stack[t]) /\ n + 1 = Len(stack[t])
    BY <1>2, <2>1, TopType
  <2>3. stack' = [stack EXCEPT ![t] = SubSeq(@, 1, n)]
    BY <1>2, <2>1 DEF Pop, Typed
  <2> QED
    BY <2>2, <2>3, PopUsed
<1>3. ASSUME SendNothing(t) PROVE Kept
  <2>1. stack[t] # <<>> /\ Top(t).at = "enter" /\ stack' = Pop(t)
    BY <1>3 DEF SendNothing, InSend
  <2> QED
    BY <1>2, <2>1
<1>4. CASE SendEnd(t)
  BY <1>2, <1>4 DEF SendEnd, InSend, SendStart
<1>5. CASE HandlerThrow(t)
  <2>1. PICK n \in 0 .. Len(stack[t]) :
          /\ stack' = [stack EXCEPT ![t] = SubSeq(@, 1, n)] /\ n < Len(stack[t])
    BY <1>5, ThrownStack
  <2> QED
    BY <1>5, <2>1, PopUsed DEF HandlerThrow, SendStart, InSend
<1>6. ASSUME NEW f \in Frame, stack[t] # <<>>, stack' = Becomes(t, f), f.fn = Top(t).fn,
             f.receiver = Top(t).receiver, f.type = Top(t).type, f.at # "enter"
      PROVE  Kept /\ (f.fn = "send" => \E k : Started(t, k)')
  BY <1>6, ReplaceUsed
<1>7. CASE SendStart(t)
  <2>1. PICK f : f = [Top(t) EXCEPT !.at = "scan", !.i = startOffset[t]]
    OBVIOUS
  <2>2. stack[t] # <<>> /\ Top(t) \in Frame /\ Top(t).fn = "send"
    BY <1>7, TopType DEF SendStart, InSend
  <2>3. /\ f \in Frame /\ f.fn = Top(t).fn /\ f.receiver = Top(t).receiver
        /\ f.type = Top(t).type /\ f.at = "scan"
    BY <2>1, <2>2 DEF Frame, Typed
  <2>4. stack' = Becomes(t, f)
    BY <1>7, <2>1 DEF SendStart
  <2> QED
    BY <1>6, <2>2, <2>3, <2>4
<1>8. ASSUME NEW f \in Frame, InSend(t, "scan"), f.fn = "send", f.receiver = Top(t).receiver,
             f.type = Top(t).type, f.at # "enter", Advance(t, f)
      PROVE  Kept
  <2>1. stack[t] # <<>> /\ Top(t).fn = "send"
    BY <1>8 DEF InSend
  <2>2. Global(f)
    <3>1. Len(stack[t]) \in Sends(t)
      BY <1>0, <2>1, TopType DEF Sends, Top
    <3> QED
      BY <1>8, <3>1 DEF AllGlobal, Global, Top
  <2> QED
    BY <1>6, <1>8, <2>1, <2>2 DEF Advance
<1>9. CASE ScanNull(t) \/ ScanOther(t) \/ ScanHold(t)
  <2>1. /\ Scanning(t) /\ InSend(t, "scan") /\ Top(t).fn = "send"
        /\ Top(t).at = "scan" /\ Advance(t, Top(t))
    BY <1>9 DEF ScanNull, ScanOther, ScanHold, Scanning, InSend
  <2>2. Top(t) \in Frame
    BY <2>1, CurrentType
  <2> QED
    BY <1>8, <1>9, <2>1, <2>2 DEF SendStart, InSend
<1>10. CASE ScanDeliver(t)
  <2>1. Scanning(t) /\ InSend(t, "scan") /\ Top(t).fn = "send"
    BY <1>10 DEF ScanDeliver, Scanning, InSend
  <2>2. Top(t) \in Frame /\ Current(t) \in Entry
    BY <2>1, CurrentType
  <2>3. PICK f : f = [Top(t) EXCEPT !.at = "deliver", !.event = Current(t)]
    OBVIOUS
  <2>4. /\ f \in Frame /\ f.at = "deliver" /\ f.fn = "send"
        /\ f.receiver = Top(t).receiver /\ f.type = Top(t).type
    BY <2>1, <2>2, <2>3 DEF Frame
  <2>5. Advance(t, f)
    BY <1>10, <2>3 DEF ScanDeliver
  <2> QED
    BY <1>8, <2>1, <2>4, <2>5 DEF SendStart, InSend
<1>11. CASE HandlerReturn(t)
  <2>1. stack[t] # <<>> /\ Top(t) \in Frame /\ Top(t).at = "deliver"
    BY <1>11, TopType DEF HandlerReturn, InSend
  <2>2. PICK f : f = [Top(t) EXCEPT !.at = "scan", !.event = Nulled(0)]
    OBVIOUS
  <2>3. /\ f \in Frame /\ f.at = "scan" /\ f.fn = Top(t).fn
        /\ f.receiver = Top(t).receiver /\ f.type = Top(t).type
    BY <2>1, <2>2, FrameTypes DEF Frame
  <2>4. stack' = Becomes(t, f)
    BY <1>11, <2>2 DEF HandlerReturn
  <2> QED
    BY <1>6, <2>1, <2>3, <2>4 DEF SendStart, InSend
<1>12. CASE \E q \in SendRequests : SendBegin(t, q[1], q[2])
  <2>1. ~SendStart(t)
    BY <1>12 DEF SendBegin, UserCode, SendStart, InSend, InSlot, InLoop
  <2> QED
    BY <1>1, <1>12, <2>1
<1>13. SendNothing(t) => ~SendStart(t)
  BY DEF SendNothing, SendStart
<1> QED
  BY <1>3, <1>4, <1>5, <1>7, <1>9, <1>10, <1>11, <1>12, <1>13 DEF Send

\* And those of the loops.
LEMMA LoopUsed ==
  ASSUME IInv, NEW t \in Threads, Loop(t), AllGlobal(t)
  PROVE  OthersKept(t) /\ AllGlobal(t)' /\ StillStarted(t)
<1> USE DEF IInv
<1>0. Len(stack[t]) \in Nat
  BY StackType
<1>1. ASSUME NEW fn \in {"exec", "process"}, LoopBegin(t, fn)
      PROVE  OthersKept(t) /\ AllGlobal(t)' /\ StillStarted(t)
  <2>1. PICK f : f = LoopFrame(fn)
    OBVIOUS
  <2>2. f \in Frame /\ f.fn # "send"
    BY <2>1, FrameTypes DEF LoopFrame
  <2>3. stack' = Push(t, f)
    BY <1>1, <2>1 DEF LoopBegin
  <2> QED
    BY <2>2, <2>3, PushUsed
<1>2. CASE LoopSend(t)
  <2> DEFINE n == Len(stack[t])
             f == [stack[t][n] EXCEPT !.at = "check"]
             below == [stack[t] EXCEPT ![n] = f]
             g == SendFrame(None, Any)
  <2>1. /\ stack[t] # <<>> /\ Top(t).fn # "send" /\ Top(t) \in Frame
        /\ n \in Nat \ {0} /\ stack[t] \in Seq(Frame)
    BY <1>2, TopType DEF LoopSend, InLoop, Typed
  <2>2. f \in Frame /\ f.fn # "send" /\ stack[t][n].fn # "send"
    BY <2>1 DEF Top, Frame
  <2>3. /\ below \in Seq(Frame) /\ Len(below) = n /\ below[n] = f
        /\ \A k \in 1 .. n - 1 : below[k] = stack[t][k]
    BY <2>1, <2>2, ExceptSeq
  <2>4. g \in Frame /\ Global(g)
    BY FrameTypes DEF SendFrame, Global
  <2>5. stack' = [stack EXCEPT ![t] = Append(below, g)]
    BY <1>2 DEF LoopSend, Typed
  <2>6. stack'[t] = Append(below, g) /\ OthersKept(t)
    BY <2>5 DEF OthersKept, Typed
  <2> HIDE DEF f, g, below
  <2>7. /\ Len(stack'[t]) = n + 1 /\ stack'[t][n + 1] = g
        /\ \A k \in 1 .. n : stack'[t][k] = below[k]
    BY <2>3, <2>4, <2>6, AppendProperties
  <2>8. PICK m \in Nat : m = n
    BY <2>1
  <2>9. /\ \A k \in 1 .. m + 1 : stack'[t][k].fn = "send" =>
             \/ k = m + 1
             \/ k \in 1 .. m /\ stack'[t][k] = stack[t][k]
        /\ \A k \in 1 .. m : stack[t][k].fn = "send" => stack'[t][k] = stack[t][k]
    <3>1. \A k \in 1 .. m : k = m \/ k \in 1 .. m - 1
      BY <2>8
    <3>2. \A k \in 1 .. m + 1 : k = m + 1 \/ k \in 1 .. m
      BY <2>8
    <3> QED
      BY <2>2, <2>3, <2>7, <2>8, <3>1, <3>2
  <2> HIDE DEF n
  <2>10. AllGlobal(t)'
    <3>1. AllGlobal(t)' = \A k \in Sends(t)' : Global(stack'[t][k])
      BY DEF AllGlobal, Global
    <3>2. \A k \in Sends(t)' : k \in 1 .. m + 1 /\ stack'[t][k].fn = "send"
      BY <2>7, <2>8 DEF Sends
    <3>3. \A k \in 1 .. m : stack[t][k].fn = "send" => k \in Sends(t)
      BY <2>8 DEF Sends, n
    <3> QED
      BY <2>4, <2>7, <2>8, <2>9, <3>1, <3>2, <3>3 DEF AllGlobal
  <2>11. StillStarted(t)
    <3> SUFFICES ASSUME NEW k \in Nat, Started(t, k) PROVE Started(t, k)'
      BY DEF StillStarted
    <3>1. k \in 1 .. m /\ stack[t][k].fn = "send" /\ stack[t][k].at # "enter"
      BY <2>8 DEF Started, Sends, n
    <3>2. stack'[t][k] = stack[t][k] /\ k \in 1 .. m + 1 /\ Len(stack'[t]) = m + 1
      BY <2>7, <2>8, <2>9, <3>1
    <3> QED
      BY <3>1, <3>2 DEF Started, Sends
  <2> QED
    BY <2>6, <2>10, <2>11
<1>3. ASSUME NEW a \in {"test", "awake", "block", "wait", "poll"},
             InLoop(t, Top(t).at), stack' = Becomes(t, [Top(t) EXCEPT !.at = a])
      PROVE  OthersKept(t) /\ AllGlobal(t)' /\ StillStarted(t)
  <2>1. PICK f : f = [Top(t) EXCEPT !.at = a]
    OBVIOUS
  <2>2. stack[t] # <<>> /\ Top(t) \in Frame /\ Top(t).fn # "send"
    BY <1>3, TopType DEF InLoop
  <2>3. /\ f \in Frame /\ f.fn = Top(t).fn /\ f.receiver = Top(t).receiver
        /\ f.type = Top(t).type /\ stack' = Becomes(t, f)
    BY <1>3, <2>1, <2>2 DEF Frame
  <2> QED
    BY <2>2, <2>3, ReplaceUsed
<1>4. ASSUME InLoop(t, Top(t).at), stack' = Pop(t)
      PROVE  OthersKept(t) /\ AllGlobal(t)' /\ StillStarted(t)
  <2>1. PICK n : n = Len(stack[t]) - 1
    OBVIOUS
  <2>2. n \in 0 .. Len(stack[t]) /\ n < Len(stack[t]) /\ n + 1 = Len(stack[t])
    BY <1>4, <2>1, TopType DEF InLoop
  <2>3. stack' = [stack EXCEPT ![t] = SubSeq(@, 1, n)] /\ Top(t).fn # "send"
    BY <1>4, <2>1 DEF Pop, Typed, InLoop
  <2> QED
    BY <2>2, <2>3, PopUsed
<1>5. CASE LoopAwake(t) \/ LoopCheck(t) \/ LoopBlock(t)
  <2>1. InLoop(t, Top(t).at)
    BY <1>5 DEF LoopAwake, LoopCheck, LoopBlock, InLoop
  <2>2. \E a \in {"awake", "block", "wait", "poll"} :
          stack' = Becomes(t, [Top(t) EXCEPT !.at = a])
    BY <1>5 DEF LoopAwake, LoopCheck, LoopBlock
  <2> QED
    BY <1>3, <2>1, <2>2
<1>6. CASE LoopSelect(t)
  <2>1. InLoop(t, Top(t).at)
    BY <1>6 DEF LoopSelect, InLoop
  <2>2. stack' = Becomes(t, [Top(t) EXCEPT !.at = "test"]) \/ stack' = Pop(t)
    BY <1>6 DEF LoopSelect
  <2> QED
    BY <1>3, <1>4, <2>1, <2>2
<1>7. CASE LoopEnd(t)
  <2>1. InLoop(t, Top(t).at) /\ stack' = Pop(t)
    BY <1>7 DEF LoopEnd, InLoop
  <2> QED
    BY <1>4, <2>1
<1> QED
  BY <1>1, <1>2, <1>5, <1>6, <1>7 DEF Loop

\* In such code all sends share the one position, and while one of them is
\* under way new events go behind what it found.
GlobalSends == \A t \in Threads : AllGlobal(t)

OffsetOfSend ==
  \A t \in Threads : /\ insertionOffset[t] <= Len(list[t])
                     /\ insertionOffset[t] # 0 => \E k \in Nat : Started(t, k)

LEMMA StackOf ==
  ASSUME NEW t \in Threads, stack'[t] = stack[t]
  PROVE  (AllGlobal(t) => AllGlobal(t)') /\ \A k : Started(t, k)' <=> Started(t, k)
  BY DEF AllGlobal, Started, Sends, Global

LEMMA GlobalStep ==
  ASSUME SendsEverything
  PROVE  Safe /\ GlobalSends /\ [Next]_vars => GlobalSends'
<1> SUFFICES ASSUME Safe, GlobalSends, [Next]_vars PROVE GlobalSends'
  OBVIOUS
<1>1. ASSUME stack' = stack PROVE GlobalSends'
  BY <1>1, StackOf DEF GlobalSends
<1>2. ASSUME NEW t \in Threads, Send(t) \/ Loop(t) PROVE GlobalSends'
  <2>1. OthersKept(t) /\ AllGlobal(t)'
    BY <1>2, SendUsed, LoopUsed DEF Safe, GlobalSends
  <2> QED
    BY <2>1, StackOf DEF GlobalSends, OthersKept
<1>3. ASSUME NEW t \in Threads, CallStepOf(t) PROVE stack' = stack
  BY <1>3, CallStepKeeps
<1>4. Next => \E t \in Threads : CallStepOf(t) \/ Send(t) \/ Loop(t)
  BY DEF Next, CallStepOf
<1>5. UNCHANGED vars => stack' = stack
  BY DEF vars
<1> QED
  BY <1>1, <1>2, <1>3, <1>4, <1>5

\* Outside of sends new events go anywhere in the list.
LEMMA NoOffset ==
  ASSUME Safe, OffsetOfSend, NEW t \in Threads, recursion[t] = 0
  PROVE  insertionOffset[t] = 0
<1>1. Cardinality(Sends(t)) = 0 /\ IsFiniteSet(Sends(t))
  BY SendsFinite DEF Safe, IInv, RecursionCountsSends
<1>2. Sends(t) = {}
  BY <1>1, FS_EmptySet
<1> QED
  BY <1>2 DEF OffsetOfSend, Started

\* A send that is through has come to its offset, and leaves none.
LEMMA EndOffset ==
  ASSUME Safe, GlobalSends, OffsetOfSend, NEW t \in Threads, SendEnd(t)
  PROVE  insertionOffset'[t] = 0 /\ Len(list'[t]) \in Nat
<1>1. InSend(t, "scan") /\ ~Scanning(t) /\ CleanUp(t, canWait[t])
  BY DEF SendEnd
<1>2. Global(Top(t))
  <2>1. Len(stack[t]) \in Sends(t)
    BY <1>1, TopType DEF InSend, Sends, Top, Safe, IInv
  <2> QED
    BY <2>1 DEF GlobalSends, AllGlobal, Global, Top
<1>3. ~(startOffset[t] < Len(list[t]) /\ startOffset[t] < insertionOffset[t])
  BY <1>1, <1>2 DEF Scanning, Position
<1>4. /\ startOffset[t] <= Len(list[t]) /\ startOffset[t] <= insertionOffset[t]
      /\ insertionOffset[t] <= Len(list[t]) /\ Len(list[t]) \in Nat
      /\ startOffset[t] \in Nat /\ insertionOffset[t] \in Nat
  BY OffsetTypes, ListTypes DEF Safe, IInv, OffsetsInList, OffsetOfSend
<1>5. insertionOffset'[t] = insertionOffset[t] - startOffset[t]
  BY <1>1, <1>2 DEF CleanUp, InsertionLeft, Safe, IInv, Typed
<1>6. list' \in [Threads -> Seq(Entry)]
  BY TypeStep DEF Next, Send, Safe, IInv, Typed
<1> QED
  BY <1>3, <1>4, <1>5, <1>6, LenProperties

LEMMA SendOffset ==
  ASSUME SendsEverything, ~MayThrow, Safe, GlobalSends, OffsetOfSend, NEW t \in Threads,
         Send(t) \/ Loop(t)
  PROVE  /\ insertionOffset'[t] <= Len(list'[t])
         /\ insertionOffset'[t] # 0 => \E k \in Nat : Started(t, k)'
<1>0. /\ Len(list[t]) \in Nat /\ insertionOffset[t] \in Nat /\ AllGlobal(t)
      /\ insertionOffset[t] <= Len(list[t])
      /\ insertionOffset[t] # 0 => \E k \in Nat : Started(t, k)
  BY ListTypes DEF GlobalSends, OffsetOfSend
<1>1. CASE SendEnd(t)
  BY <1>1, EndOffset
<1>2. CASE SendStart(t)
  <2>1. insertionOffset'[t] = Len(list[t]) /\ list'[t] = list[t]
    BY <1>2 DEF SendStart, Safe, IInv, Typed
  <2>2. PICK k : Started(t, k)'
    BY <1>0, <1>2, SendUsed DEF Send, Safe
  <2>3. k \in Nat
    BY <2>2 DEF Started, Sends
  <2> QED
    BY <1>0, <2>1, <2>2, <2>3
<1>3. CASE ~SendEnd(t) /\ ~SendStart(t)
  <2>1. StillStarted(t)
    BY <1>0, <1>3, SendUsed, LoopUsed DEF Safe, HandlerThrow
  <2>2. insertionOffset' = insertionOffset
    BY <1>3 DEF HandlerThrow, Send, SendBegin, SendNothing, ScanNull, ScanOther, ScanHold,
       ScanDeliver, HandlerReturn, Loop, LoopBegin, LoopEnd, LoopAwake, LoopSend, LoopCheck, LoopBlock,
         LoopSelect,
       dataVars, queueVars
  <2>3. Len(list[t]) <= Len(list'[t]) /\ Len(list'[t]) \in Nat
    <3>1. CASE ScanHold(t) \/ ScanDeliver(t)
      BY <3>1, ScannedList DEF Safe, IInv
    <3>2. CASE ~(ScanHold(t) \/ ScanDeliver(t))
      <4>1. list' = list
        BY <1>3, <3>2, OtherSendSteps DEF SendChanges, HandlerThrow
      <4> QED
        BY <1>0, <4>1
    <3> QED
      BY <3>1, <3>2
  <2>4. insertionOffset'[t] # 0 => \E k \in Nat : Started(t, k)'
    BY <1>0, <2>1, <2>2 DEF StillStarted
  <2> QED
    BY <1>0, <2>2, <2>3, <2>4
<1> QED
  BY <1>1, <1>2, <1>3

LEMMA CallOffset ==
  ASSUME Safe, OffsetOfSend, NEW t \in Threads, CallStepOf(t), NEW v \in Threads
  PROVE  insertionOffset[v] <= Len(list'[v])
<1>0. /\ Len(list[v]) \in Nat /\ insertionOffset[v] \in Nat /\ insertionOffset[v] <= Len(list[v])
  BY ListTypes DEF OffsetOfSend
<1>1. Len(list'[v]) \in Nat
  <2>1. list' \in [Threads -> Seq(Entry)]
    BY TypeStep DEF Next, CallStepOf, Safe, IInv, Typed
  <2> QED
    BY <2>1, LenProperties
<1>2. CASE ~RemoveEnd(t)
  <2>1. Len(list[v]) <= Len(list'[v])
    BY <1>2, CallStepLists DEF NotShortened, Safe, IInv
  <2> QED
    BY <1>0, <1>1, <2>1
<1>3. CASE RemoveEnd(t)
  <2>1. CASE recursion[v] = 0
    BY <1>1, <2>1, NoOffset
  <2>2. CASE recursion[v] # 0
    <3>1. list'[v] = list[v]
      BY <1>3, <2>2 DEF RemoveEnd, Compacting, Safe, IInv, Typed
    <3> QED
      BY <1>0, <3>1
  <2> QED
    BY <2>1, <2>2
<1> QED
  BY <1>2, <1>3

LEMMA OffsetStep ==
  ASSUME SendsEverything, ~MayThrow
  PROVE  Safe /\ GlobalSends /\ OffsetOfSend /\ [Next]_vars => OffsetOfSend'
<1> SUFFICES ASSUME Safe, GlobalSends, OffsetOfSend, [Next]_vars PROVE OffsetOfSend'
  OBVIOUS
<1>1. CASE UNCHANGED vars
  <2>1. UNCHANGED <<list, insertionOffset, stack>>
    BY <1>1 DEF vars, dataVars, queueVars
  <2> QED
    BY <2>1, StackOf DEF OffsetOfSend
<1>2. ASSUME NEW t \in Threads, Send(t) \/ Loop(t) PROVE OffsetOfSend'
  <2>1. OthersKept(t) /\ ListKept(t)
    BY <1>2, SendStack, LoopStack, SendLists, LoopLists DEF Safe
  <2>2. /\ insertionOffset'[t] <= Len(list'[t])
        /\ insertionOffset'[t] # 0 => \E k \in Nat : Started(t, k)'
    BY <1>2, SendOffset
  <2>3. ASSUME NEW v \in Threads, v # t
        PROVE  /\ insertionOffset'[v] <= Len(list'[v])
               /\ insertionOffset'[v] # 0 => \E k \in Nat : Started(v, k)'
    <3>1. /\ stack'[v] = stack[v] /\ list'[v] = list[v]
          /\ insertionOffset'[v] = insertionOffset[v]
      BY <2>1, <2>3 DEF OthersKept, ListKept
    <3> QED
      BY <3>1, StackOf DEF OffsetOfSend
  <2> QED
    BY <2>2, <2>3 DEF OffsetOfSend
<1>3. ASSUME NEW t \in Threads, CallStepOf(t) PROVE OffsetOfSend'
  <2>1. stack' = stack /\ insertionOffset' = insertionOffset
    BY <1>3, CallStepKeeps
  <2> QED
    BY <1>3, <2>1, StackOf, CallOffset DEF OffsetOfSend
<1>4. Next => \E t \in Threads : CallStepOf(t) \/ Send(t) \/ Loop(t)
  BY DEF Next, CallStepOf
<1> QED
  BY <1>1, <1>2, <1>3, <1>4

LEMMA NoSendsInitially == Init => GlobalSends /\ OffsetOfSend
<1> SUFFICES ASSUME Init PROVE GlobalSends /\ OffsetOfSend
  OBVIOUS
<1>1. \A t \in Threads : /\ stack[t] = <<>> /\ Len(stack[t]) = 0
                         /\ list[t] = <<>> /\ Len(list[t]) = 0 /\ insertionOffset[t] = 0
  BY DEF Init
<1> QED
  BY <1>1 DEF GlobalSends, OffsetOfSend, AllGlobal, Sends

\* In code that sends everything, and whose handlers do not throw, events of
\* a higher priority are before those of a lower one whenever no send is
\* under way, as long as no thread removes from the list of another one.
THEOREM ListIsByPriority ==
  ASSUME SendsEverything, ~MayThrow
  PROVE  Spec /\ []OwnRemovals => []QueuedByPriority
<1>1. Init => GlobalSends /\ OffsetOfSend
  BY NoSendsInitially
<1>2. Safe /\ GlobalSends /\ [Next]_vars => GlobalSends'
  BY GlobalStep
<1>3. Safe /\ GlobalSends /\ OffsetOfSend /\ [Next]_vars => OffsetOfSend'
  BY OffsetStep
<1>4. Safe /\ OwnRemovals /\ InvOrder /\ OffsetOfSend => QueuedByPriority
  <2> SUFFICES ASSUME Safe, OwnRemovals, InvOrder, OffsetOfSend, NEW t \in Threads,
                      recursion[t] = 0, NEW j \in LiveIn(t), NEW k \in LiveIn(t), j < k
               PROVE  list[t][j].priority >= list[t][k].priority
    BY DEF QueuedByPriority
  <2>1. insertionOffset[t] = 0
    BY NoOffset
  <2>2. j \notin Walked(t) /\ k \notin Walked(t)
    <3>1. \A a \in Walked(t) : ~Live(list[t][a])
      BY DEF Walked, Safe, PInv, Gap, OwnRemovals
    <3> QED
      BY <3>1 DEF LiveIn
  <2>3. Ordered(list[t], 0, Walked(t))
    BY <2>1 DEF InvOrder, InOrder
  <2>4. j \in 1 .. Len(list[t]) /\ k \in 1 .. Len(list[t]) /\ 0 < j
    BY DEF LiveIn
  <2> QED
    BY <2>2, <2>3, <2>4 DEF Ordered
<1> QED
  BY <1>1, <1>2, <1>3, <1>4, SafeAlways, OrderAlways, PTL DEF Spec

\* Only sendPostedEvents of the thread itself delivers, and the event it
\* stands at.
LEMMA DeliverySteps ==
  ASSUME Safe, NEW t \in Threads, NEW u \in Threads, StepOf(u), Delivery(t)
  PROVE  u = t /\ ScanDeliver(t) /\ Top(t)'.event = Current(t)
<1>1. /\ stack[t] # <<>> /\ Top(t).fn = "send" /\ Top(t).at = "scan"
      /\ stack'[t] # <<>> /\ Top(t)'.at = "deliver" /\ Len(stack'[t]) = Len(stack[t])
  BY DEF Delivery, InSend
<1>2. Len(stack[t]) \in Nat \ {0}
  BY <1>1, TopType DEF Safe, IInv
<1>3. stack'[t] # stack[t]
  BY <1>1 DEF Top
<1>4. Send(u) \/ Loop(u)
  BY <1>3, CallStepKeeps DEF StepOf
<1>5. u = t
  BY <1>3, <1>4, SendStack, LoopStack DEF Safe, OthersKept
<1>6. Len(stack[t]) \notin Delivers(t) /\ Len(stack[t]) \in Delivers(t)'
  BY <1>1, <1>2 DEF Delivers, Top
<1>7. ~HandlersKept(t)
  BY <1>6 DEF HandlersKept
<1>8. ScanDeliver(t)
  BY <1>1, <1>4, <1>5, <1>7, SendHandlers, LoopHandlers DEF HandlerReturn, HandlerThrow, InSend
<1>9. stack'[t][Len(stack[t])].event = Current(t)
  BY <1>4, <1>5, <1>8, SendHandlers DEF HandlerBegun, ScanDeliver, Scanning, Send
<1> QED
  BY <1>1, <1>5, <1>8, <1>9 DEF Top

\* Events of one priority posted to an object of a thread that only sends
\* everything are delivered in the order in which they were posted, whatever
\* is removed, moved and thrown, as long as no thread removes from the list
\* of another one.
THEOREM DeliveredAsPosted ==
  ASSUME SendsEverything
  PROVE  Spec /\ []OwnRemovals => PostedOrder
<1>1. Init => GlobalSends
  BY NoSendsInitially
<1>2. Safe /\ GlobalSends /\ [Next]_vars => GlobalSends'
  BY GlobalStep
<1>3. Safe /\ InvOrder /\ GlobalSends /\ OwnRemovals /\ [Next]_vars =>
        [\A t \in Threads : Delivery(t) =>
           LET e == Top(t)'.event IN
           \A k \in PendingFor(e.receiver, t) :
             LET o == list[t][k] IN
             o.priority = e.priority /\ o.type = e.type /\ o.type # DeferredDelete
               => o.event >= e.event]_vars
  <2> SUFFICES ASSUME Safe, InvOrder, GlobalSends, OwnRemovals, Next,
                      NEW t \in Threads, Delivery(t),
                      NEW e, e = Top(t)'.event,
                      NEW k \in PendingFor(e.receiver, t),
                      list[t][k].priority = e.priority, list[t][k].type = e.type,
                      list[t][k].type # DeferredDelete
               PROVE  list[t][k].event >= e.event
    OBVIOUS
  <2>1. PICK u \in Threads : StepOf(u)
    BY DEF Next, StepOf, CallStepOf
  <2>2. ScanDeliver(t) /\ e = Current(t)
    BY <2>1, DeliverySteps
  <2>3. Global(Top(t))
    <3>1. InSend(t, "scan")
      BY DEF Delivery
    <3>2. Len(stack[t]) \in Sends(t)
      BY <3>1, TopType DEF InSend, Sends, Top, Safe, IInv
    <3> QED
      BY <3>2 DEF GlobalSends, AllGlobal, Global, Top
  <2>4. PICK i : i = startOffset[t] + 1
    OBVIOUS
  <2>5. i \in 1 .. Len(list[t]) /\ e = list[t][i] /\ Live(e) /\ startOffset[t] \in Nat
    BY <2>2, <2>3, <2>4, CurrentType DEF ScanDeliver, At, Position, Current, Safe, IInv, Typed
  <2>6. k \in LiveAt(list[t]) /\ list[t][k].receiver = e.receiver /\ i \in LiveAt(list[t])
    BY <2>5 DEF PendingFor, LiveIn, LiveAt
  <2>7. ~(k \in 1 .. startOffset[t])
    BY <2>6 DEF Safe, PassedAreTaken, LiveAt
  <2>8. k = i \/ i < k
    BY <2>4, <2>5, <2>6, <2>7, ListTypes DEF LiveAt
  <2>9. list[t][k].event \in Nat /\ e.event \in Nat
    BY <2>5, <2>6, ListTypes, EntryTypes DEF LiveAt
  <2>10. CASE i < k
    <3>1. SameKind(list[t][i], list[t][k]) /\ Aged(list[t])
      BY <2>5, <2>6 DEF SameKind, InvOrder, InOrder
    <3>2. list[t][i].event < list[t][k].event
      BY <2>6, <2>10, <3>1 DEF Aged
    <3> QED
      BY <2>5, <2>9, <3>2
  <2> QED
    BY <2>5, <2>8, <2>9, <2>10
<1> QED
  BY <1>1, <1>2, <1>3, SafeAlways, OrderAlways, PTL DEF Spec, PostedOrder

-----------------------------------------------------------------------------
(* What loopLevel counts.                                                  *)

\* QEventLoop::exec and notifyInternal count a level while they run.
CountsLevel(f) == f.fn = "exec" \/ f.at = "deliver"
Weight(f) == IF CountsLevel(f) THEN 1 ELSE 0
Levels(t) == {k \in 1 .. Len(stack[t]) : CountsLevel(stack[t][k])}
LevelCounts == \A t \in Threads : loopLevel[t] = Cardinality(Levels(t))

\* A step touches only the top of the stack, and below it only pops.
TopOnly(t) ==
  /\ OthersKept(t)
  /\ \A k \in 1 .. Len(stack[t]) - 1 :
       k <= Len(stack'[t]) => stack'[t][k] = stack[t][k]

\* The stack of t has so many levels more and so many less.
Balanced(t, more, less) ==
  Cardinality(Levels(t)') = Cardinality(Levels(t)) + more - less

\* A stack has finitely many levels.
LEMMA LevelsFinite ==
  ASSUME Typed, NEW t \in Threads
  PROVE  IsFiniteSet(Levels(t)) /\ Cardinality(Levels(t)) \in Nat
<1>1. Len(stack[t]) \in Nat
  BY LenProperties DEF Typed
<1>2. IsFiniteSet(1 .. Len(stack[t]))
  BY <1>1, FS_Interval
<1>3. Levels(t) \in SUBSET (1 .. Len(stack[t]))
  BY DEF Levels
<1> QED
  BY <1>2, <1>3, FS_Subset, FS_CardinalityType

\* Sets that differ in one element at most.
LEMMA OneDifference ==
  ASSUME NEW S, NEW T, IsFiniteSet(S), NEW x, T \ {x} = S \ {x}
  PROVE  Cardinality(T) = Cardinality(S) + (IF x \in T THEN 1 ELSE 0)
                                         - (IF x \in S THEN 1 ELSE 0)
<1>1. Cardinality(S) \in Nat
  BY FS_CardinalityType
<1>2. CASE (x \in T <=> x \in S)
  <2>1. T = S
    BY <1>2
  <2> QED
    BY <1>1, <2>1
<1>3. CASE x \in T /\ x \notin S
  <2>1. T = S \cup {x}
    BY <1>3
  <2> QED
    BY <1>1, <1>3, <2>1, FS_AddElement
<1>4. CASE x \notin T /\ x \in S
  <2>1. T = S \ {x}
    BY <1>4
  <2> QED
    BY <1>1, <1>4, <2>1, FS_RemoveElement
<1> QED
  BY <1>2, <1>3, <1>4

\* A call begins.
LEMMA PushedLevels ==
  ASSUME Typed, NEW t \in Threads, NEW f \in Frame, stack' = Push(t, f)
  PROVE  TopOnly(t) /\ Balanced(t, Weight(f), 0)
<1> DEFINE n == Len(stack[t]) + 1
<1>1. /\ OthersKept(t)
      /\ Len(stack[t]) \in Nat /\ Len(stack'[t]) = n
      /\ \A k \in 1 .. Len(stack[t]) : stack'[t][k] = stack[t][k]
      /\ stack'[t][n] = f
  BY PushedStack
<1>2. TopOnly(t)
  BY <1>1 DEF TopOnly
<1>3. \A k : k \in 1 .. n <=> k \in 1 .. Len(stack[t]) \/ k = n
  BY <1>1
<1>4. n \notin 1 .. Len(stack[t])
  BY <1>1
<1>5. Levels(t)' = {k \in 1 .. n : CountsLevel(stack'[t][k])}
  BY <1>1 DEF Levels
<1> HIDE DEF n
<1>6. Levels(t)' \ {n} = Levels(t) \ {n} /\ n \notin Levels(t) /\ (n \in Levels(t)' <=> CountsLevel(f))
  BY <1>1, <1>3, <1>4, <1>5 DEF Levels
<1>7. Cardinality(Levels(t)') = Cardinality(Levels(t)) + (IF n \in Levels(t)' THEN 1 ELSE 0)
                                                       - (IF n \in Levels(t) THEN 1 ELSE 0)
  BY <1>6, LevelsFinite, OneDifference
<1> QED
  BY <1>2, <1>6, <1>7, LevelsFinite DEF Balanced, Weight

\* The innermost call goes on.
LEMMA ReplacedLevels ==
  ASSUME Typed, NEW t \in Threads, stack[t] # <<>>, NEW f \in Frame, stack' = Becomes(t, f)
  PROVE  TopOnly(t) /\ Balanced(t, Weight(f), Weight(Top(t)))
<1> DEFINE n == Len(stack[t])
<1>1. /\ OthersKept(t) /\ n \in Nat \ {0} /\ Len(stack'[t]) = n
      /\ \A k \in 1 .. n - 1 : stack'[t][k] = stack[t][k]
      /\ stack'[t][n] = f /\ stack[t][n] = Top(t)
  BY ReplacedStack DEF Top
<1>2. TopOnly(t)
  BY <1>1 DEF TopOnly
<1>3. \A k : k \in 1 .. n <=> k \in 1 .. n - 1 \/ k = n
  BY <1>1
<1>4. Levels(t)' = {k \in 1 .. n : CountsLevel(stack'[t][k])}
  BY <1>1 DEF Levels
<1>5. Levels(t) = {k \in 1 .. n : CountsLevel(stack[t][k])}
  BY DEF Levels
<1> HIDE DEF n
<1>6. Levels(t)' \ {n} = Levels(t) \ {n}
  BY <1>1, <1>3, <1>4, <1>5
<1>7. (n \in Levels(t) <=> CountsLevel(Top(t))) /\ (n \in Levels(t)' <=> CountsLevel(f))
  BY <1>1, <1>3, <1>4, <1>5
<1>8. Cardinality(Levels(t)') = Cardinality(Levels(t)) + (IF n \in Levels(t)' THEN 1 ELSE 0)
                                                       - (IF n \in Levels(t) THEN 1 ELSE 0)
  BY <1>6, LevelsFinite, OneDifference
<1> QED
  BY <1>2, <1>7, <1>8, LevelsFinite DEF Balanced, Weight

\* The innermost call ends.
LEMMA PoppedLevels ==
  ASSUME Typed, NEW t \in Threads, stack[t] # <<>>, stack' = Pop(t)
  PROVE  TopOnly(t) /\ Balanced(t, 0, Weight(Top(t)))
<1> DEFINE n == Len(stack[t])
           m == n - 1
<1>1. n \in Nat \ {0} /\ m \in 0 .. Len(stack[t]) /\ stack' = [stack EXCEPT ![t] = SubSeq(@, 1, m)]
  BY TopType DEF Pop, Typed
<1>2. /\ OthersKept(t) /\ Len(stack'[t]) = m
      /\ \A k \in 1 .. m : stack'[t][k] = stack[t][k]
  <2> HIDE DEF m
  <2> QED
    BY <1>1, PoppedStack
<1>3. TopOnly(t)
  BY <1>1, <1>2 DEF TopOnly
<1>4. \A k : k \in 1 .. n <=> k \in 1 .. m \/ k = n
  BY <1>1
<1>5. n \notin 1 .. m
  BY <1>1
<1>6. Levels(t)' = {k \in 1 .. m : CountsLevel(stack'[t][k])}
  BY <1>2 DEF Levels
<1>7. Levels(t) = {k \in 1 .. n : CountsLevel(stack[t][k])} /\ stack[t][n] = Top(t)
  BY DEF Levels, Top
<1> HIDE DEF n, m
<1>8. Levels(t)' \ {n} = Levels(t) \ {n} /\ n \notin Levels(t)' /\ (n \in Levels(t) <=> CountsLevel(Top(t)))
  BY <1>2, <1>4, <1>5, <1>6, <1>7
<1>9. Cardinality(Levels(t)') = Cardinality(Levels(t)) + (IF n \in Levels(t)' THEN 1 ELSE 0)
                                                       - (IF n \in Levels(t) THEN 1 ELSE 0)
  BY <1>8, LevelsFinite, OneDifference
<1> QED
  BY <1>3, <1>8, <1>9, LevelsFinite DEF Balanced, Weight

\* A step of t changes loopLevel of t, and of no other thread.
Raised(t, more, less) ==
  \A u \in Threads : loopLevel'[u] = IF u = t THEN loopLevel[u] + more - less ELSE loopLevel[u]

\* The levels of the stack change as loopLevel does.
LevelsFollow(t) ==
  TopOnly(t) /\ \E more, less \in Nat : Balanced(t, more, less) /\ Raised(t, more, less)

\* Most steps leave loopLevel alone.
LEMMA NotRaised ==
  ASSUME Typed, NEW t \in Threads, loopLevel' = loopLevel
  PROVE  Raised(t, 0, 0)
<1>1. \A u \in Threads : loopLevel[u] \in Int
  BY DEF Typed
<1> QED
  BY <1>1 DEF Raised

\* A send goes on to the next entry, or delivers one.
LEMMA AdvancedLevels ==
  ASSUME Typed, NEW t \in Threads, InSend(t, "scan"), NEW f \in Frame, f.fn = "send", Advance(t, f)
  PROVE  TopOnly(t) /\ Balanced(t, Weight(f), 0)
<1>1. stack[t] # <<>> /\ Weight(Top(t)) = 0 /\ Weight(f) \in Int
  BY DEF InSend, Weight, CountsLevel
<1>2. CASE Global(f)
  BY <1>1, <1>2, ReplacedLevels DEF Advance
<1>3. CASE ~Global(f)
  <2>1. PICK g : g = [f EXCEPT !.i = @ + 1]
    OBVIOUS
  <2>2. g \in Frame /\ g.at = f.at /\ g.fn = f.fn
    BY <2>1 DEF Frame
  <2>3. stack' = Becomes(t, g) /\ Weight(g) = Weight(f)
    BY <1>3, <2>1, <2>2 DEF Advance, Weight, CountsLevel
  <2> QED
    BY <1>1, <2>2, <2>3, ReplacedLevels
<1> QED
  BY <1>2, <1>3

\* An exception ends the handler, and an exec below it that it leaves.
LEMMA ThrownLevels ==
  ASSUME Safe, NEW t \in Threads, HandlerThrow(t)
  PROVE  LevelsFollow(t)
<1> DEFINE m == Len(stack[t])
<1>1. /\ stack[t] # <<>> /\ m \in Nat \ {0} /\ Top(t).fn = "send" /\ Top(t).at = "deliver"
      /\ Top(t) = stack[t][m] /\ Typed
  BY TopType DEF HandlerThrow, InSend, Top, Safe, IInv
<1> DEFINE below == IF Len(stack[t]) - 1 > 0 /\ stack[t][Len(stack[t]) - 1].at = "check"
                      THEN stack[t][Len(stack[t]) - 1].fn ELSE "send"
<1>4. /\ loopLevel' = [loopLevel EXCEPT ![t] = @ - (IF below = "exec" THEN 2 ELSE 1)]
      /\ stack' = [stack EXCEPT ![t] =
                     SubSeq(@, 1, Len(@) - (IF below = "send" THEN 1 ELSE 2))]
  BY DEF HandlerThrow
<1>2. CASE ~(m > 1 /\ stack[t][m - 1].at = "check" /\ stack[t][m - 1].fn # "send")
  <2>0. below = "send"
    BY <1>1, <1>2
  <2>1. stack' = Pop(t)
    BY <1>4, <2>0 DEF Pop
  <2>2. Raised(t, 0, 1)
    <3>1. loopLevel' = [loopLevel EXCEPT ![t] = @ - 1]
      BY <1>4, <2>0
    <3>2. \A u \in Threads : loopLevel[u] \in Int
      BY <1>1 DEF Typed
    <3> QED
      BY <1>1, <3>1, <3>2 DEF Typed, Raised
  <2>3. Weight(Top(t)) = 1
    BY <1>1 DEF Weight, CountsLevel
  <2>4. TopOnly(t) /\ Balanced(t, 0, 1)
    BY <1>1, <2>1, <2>3, PoppedLevels
  <2> QED
    BY <2>2, <2>4 DEF LevelsFollow
<1>3. CASE m > 1 /\ stack[t][m - 1].at = "check" /\ stack[t][m - 1].fn # "send"
  <2> DEFINE n == m - 2
             b == m - 1
             S == Levels(t) \ {m}
             w == IF stack[t][b].fn = "exec" THEN 2 ELSE 1
  <2>0. below = stack[t][b].fn /\ below # "send"
    BY <1>1, <1>3
  <2>1. n \in 0 .. Len(stack[t]) /\ b \in 1 .. m /\ b # m /\ n < b
    BY <1>1, <1>3
  <2>2. stack' = [stack EXCEPT ![t] = SubSeq(@, 1, n)]
    <3>1. stack' = [stack EXCEPT ![t] = SubSeq(@, 1, Len(@) - 2)]
      BY <1>4, <2>0
    <3> QED
      BY <1>1, <3>1 DEF Typed
  <2>3. /\ OthersKept(t) /\ Len(stack'[t]) = n
        /\ \A k \in 1 .. n : stack'[t][k] = stack[t][k]
    <3> HIDE DEF n
    <3> QED
      BY <1>1, <2>1, <2>2, PoppedStack
  <2>4. TopOnly(t)
    BY <1>1, <2>1, <2>3 DEF TopOnly
  <2>5. \A k : k \in 1 .. m <=> k \in 1 .. n \/ k = b \/ k = m
    BY <1>1, <1>3
  <2>6. b \notin 1 .. n /\ m \notin 1 .. n
    BY <1>1
  <2>7. Levels(t)' = {k \in 1 .. n : CountsLevel(stack'[t][k])}
    BY <2>3 DEF Levels
  <2>8. Levels(t) = {k \in 1 .. m : CountsLevel(stack[t][k])}
    BY DEF Levels
  <2>9. stack[t][b].at # "deliver"
    BY <1>3
  <2>10. loopLevel' = [loopLevel EXCEPT ![t] = @ - w]
    BY <1>4, <2>0
  <2> HIDE DEF n, m
  <2>11. CountsLevel(stack[t][m]) /\ (CountsLevel(stack[t][b]) <=> stack[t][b].fn = "exec")
    BY <1>1, <2>9 DEF CountsLevel
  <2> HIDE DEF b
  <2>12. S \ {m} = Levels(t) \ {m} /\ m \notin S /\ m \in Levels(t)
    BY <2>5, <2>8, <2>11
  <2>13. Levels(t)' \ {b} = S \ {b} /\ b \notin Levels(t)' /\ (b \in S <=> stack[t][b].fn = "exec")
    BY <2>1, <2>3, <2>5, <2>6, <2>7, <2>8, <2>11
  <2> HIDE DEF S
  <2>14. IsFiniteSet(Levels(t)) /\ Cardinality(Levels(t)) \in Nat
    BY <1>1, LevelsFinite
  <2>15. Cardinality(S) = Cardinality(Levels(t)) - 1
    <3>1. Cardinality(S) = Cardinality(Levels(t)) + (IF m \in S THEN 1 ELSE 0)
                                                  - (IF m \in Levels(t) THEN 1 ELSE 0)
      BY <2>12, <2>14, OneDifference
    <3> QED
      BY <2>12, <2>14, <3>1
  <2>16. IsFiniteSet(S)
    BY <2>14, FS_Subset DEF S
  <2>17. Cardinality(Levels(t)') = Cardinality(S) + (IF b \in Levels(t)' THEN 1 ELSE 0)
                                                  - (IF b \in S THEN 1 ELSE 0)
    BY <2>13, <2>16, OneDifference
  <2>18. w \in Nat
    OBVIOUS
  <2>19. Balanced(t, 0, w)
    BY <2>13, <2>14, <2>15, <2>17 DEF Balanced
  <2>20. Raised(t, 0, w)
    <3>1. \A u \in Threads : loopLevel[u] \in Int
      BY <1>1 DEF Typed
    <3> HIDE DEF w
    <3> QED
      BY <1>1, <2>10, <2>18, <3>1 DEF Typed, Raised
  <2> HIDE DEF w
  <2> QED
    BY <2>4, <2>18, <2>19, <2>20 DEF LevelsFollow
<1> QED
  BY <1>2, <1>3

\* The steps of sendPostedEvents.
LEMMA SendLevels ==
  ASSUME Safe, NEW t \in Threads, Send(t)
  PROVE  LevelsFollow(t)
<1>0. Typed
  BY DEF Safe, IInv
<1>1. ASSUME TopOnly(t), Balanced(t, 0, 0), loopLevel' = loopLevel PROVE LevelsFollow(t)
  BY <1>0, <1>1, NotRaised DEF LevelsFollow
<1>2. ASSUME NEW q \in SendRequests, SendBegin(t, q[1], q[2]) PROVE LevelsFollow(t)
  <2>1. q[1] \in Objects \cup {None} /\ q[2] \in Types \cup {Any}
    BY ConstantsAssumption
  <2>2. PICK f : f = SendFrame(q[1], q[2])
    OBVIOUS
  <2>3. f \in Frame /\ Weight(f) = 0
    BY <2>1, <2>2, FrameTypes DEF SendFrame, Weight, CountsLevel
  <2> QED
    BY <1>0, <1>1, <1>2, <2>2, <2>3, PushedLevels DEF SendBegin
<1>3. ASSUME stack[t] # <<>>, stack' = Pop(t), loopLevel' = loopLevel, ~CountsLevel(Top(t))
      PROVE  LevelsFollow(t)
  <2>1. Weight(Top(t)) = 0
    BY <1>3 DEF Weight
  <2> QED
    BY <1>0, <1>1, <1>3, <2>1, PoppedLevels
<1>4. CASE SendNothing(t) \/ SendEnd(t)
  BY <1>3, <1>4 DEF SendNothing, SendEnd, InSend, CountsLevel
<1>5. CASE SendStart(t)
  <2>1. stack[t] # <<>> /\ Top(t) \in Frame /\ Top(t).at = "enter" /\ Top(t).fn = "send"
    BY <1>0, <1>5, TopType DEF SendStart, InSend
  <2>2. PICK f : f = [Top(t) EXCEPT !.at = "scan", !.i = startOffset[t]]
    OBVIOUS
  <2>3. f \in Frame /\ f.at = "scan" /\ f.fn = "send"
    BY <1>0, <2>1, <2>2 DEF Frame, Typed
  <2>6. Weight(f) = 0 /\ Weight(Top(t)) = 0
    BY <2>1, <2>3 DEF Weight, CountsLevel
  <2>4. stack' = Becomes(t, f) /\ loopLevel' = loopLevel
    BY <1>5, <2>2 DEF SendStart
  <2>5. TopOnly(t) /\ Balanced(t, Weight(f), Weight(Top(t)))
    BY <1>0, <2>1, <2>3, <2>4, ReplacedLevels
  <2> QED
    BY <1>1, <2>4, <2>5, <2>6
<1>6. CASE ScanNull(t) \/ ScanOther(t) \/ ScanHold(t)
  <2>1. /\ Scanning(t) /\ InSend(t, "scan") /\ Top(t).fn = "send"
        /\ Top(t).at = "scan" /\ Advance(t, Top(t)) /\ loopLevel' = loopLevel
    BY <1>6 DEF ScanNull, ScanOther, ScanHold, Scanning, InSend
  <2>2. Top(t) \in Frame /\ Weight(Top(t)) = 0
    BY <1>0, <2>1, CurrentType DEF Weight, CountsLevel
  <2> QED
    BY <1>0, <1>1, <2>1, <2>2, AdvancedLevels
<1>7. CASE ScanDeliver(t)
  <2>1. Scanning(t) /\ InSend(t, "scan") /\ Top(t).fn = "send"
    BY <1>7 DEF ScanDeliver, Scanning, InSend
  <2>2. Top(t) \in Frame /\ Current(t) \in Entry
    BY <1>0, <2>1, CurrentType
  <2>3. PICK f : f = [Top(t) EXCEPT !.at = "deliver", !.event = Current(t)]
    OBVIOUS
  <2>4. f \in Frame /\ f.fn = "send" /\ Weight(f) = 1
    BY <2>1, <2>2, <2>3 DEF Frame, Weight, CountsLevel
  <2>5. Advance(t, f) /\ loopLevel' = [loopLevel EXCEPT ![t] = @ + 1]
    BY <1>7, <2>3 DEF ScanDeliver
  <2>6. TopOnly(t) /\ Balanced(t, Weight(f), 0)
    BY <1>0, <2>1, <2>4, <2>5, AdvancedLevels
  <2>7. Raised(t, 1, 0)
    <3>1. \A u \in Threads : loopLevel[u] \in Int
      BY <1>0 DEF Typed
    <3> QED
      BY <1>0, <2>5, <3>1 DEF Typed, Raised
  <2> QED
    BY <2>4, <2>6, <2>7 DEF LevelsFollow
<1>8. CASE HandlerReturn(t)
  <2>1. stack[t] # <<>> /\ Top(t) \in Frame /\ Top(t).at = "deliver" /\ Top(t).fn = "send"
    BY <1>0, <1>8, TopType DEF HandlerReturn, InSend
  <2>2. PICK f : f = [Top(t) EXCEPT !.at = "scan", !.event = Nulled(0)]
    OBVIOUS
  <2>3. f \in Frame /\ f.at = "scan" /\ f.fn = "send"
    BY <2>1, <2>2, FrameTypes DEF Frame
  <2>4. Weight(f) = 0 /\ Weight(Top(t)) = 1
    BY <2>1, <2>3 DEF Weight, CountsLevel
  <2>5. stack' = Becomes(t, f) /\ loopLevel' = [loopLevel EXCEPT ![t] = @ - 1]
    BY <1>8, <2>2 DEF HandlerReturn
  <2>6. TopOnly(t) /\ Balanced(t, 0, 1)
    BY <1>0, <2>1, <2>3, <2>4, <2>5, ReplacedLevels
  <2>7. Raised(t, 0, 1)
    <3>1. \A u \in Threads : loopLevel[u] \in Int
      BY <1>0 DEF Typed
    <3> QED
      BY <1>0, <2>5, <3>1 DEF Typed, Raised
  <2> QED
    BY <2>6, <2>7 DEF LevelsFollow
<1>9. CASE HandlerThrow(t)
  BY <1>9, ThrownLevels
<1> QED
  BY <1>2, <1>4, <1>5, <1>6, <1>7, <1>8, <1>9 DEF Send

\* The steps of the loops.
LEMMA LoopLevels ==
  ASSUME Safe, NEW t \in Threads, Loop(t)
  PROVE  LevelsFollow(t)
<1>0. Typed
  BY DEF Safe, IInv
<1>1. ASSUME TopOnly(t), Balanced(t, 0, 0), loopLevel' = loopLevel PROVE LevelsFollow(t)
  BY <1>0, <1>1, NotRaised DEF LevelsFollow
<1>2. ASSUME NEW fn \in {"exec", "process"}, LoopBegin(t, fn) PROVE LevelsFollow(t)
  <2>1. PICK f : f = LoopFrame(fn)
    OBVIOUS
  <2>2. f \in Frame /\ f.at = "test" /\ f.fn = fn
    BY <2>1, FrameTypes DEF LoopFrame
  <2>3. PICK n : n = Weight(f)
    OBVIOUS
  <2>4. n = (IF fn = "exec" THEN 1 ELSE 0) /\ n \in Nat
    BY <2>2, <2>3 DEF Weight, CountsLevel
  <2>5. stack' = Push(t, f) /\ loopLevel' = [loopLevel EXCEPT ![t] = @ + n]
    BY <1>2, <2>1, <2>4 DEF LoopBegin
  <2>6. TopOnly(t) /\ Balanced(t, n, 0)
    BY <1>0, <2>2, <2>3, <2>5, PushedLevels
  <2>7. Raised(t, n, 0)
    <3>1. \A u \in Threads : loopLevel[u] \in Int
      BY <1>0 DEF Typed
    <3> QED
      BY <1>0, <2>4, <2>5, <3>1 DEF Typed, Raised
  <2> QED
    BY <2>4, <2>6, <2>7 DEF LevelsFollow
<1>3. CASE LoopSend(t)
  <2> DEFINE n == Len(stack[t])
             f == [stack[t][n] EXCEPT !.at = "check"]
             below == [stack[t] EXCEPT ![n] = f]
             g == SendFrame(None, Any)
  <2>1. /\ stack[t] # <<>> /\ Top(t) \in Frame /\ Top(t).at = "awake" /\ loopLevel' = loopLevel
        /\ n \in Nat \ {0} /\ stack[t] \in Seq(Frame)
    BY <1>0, <1>3, TopType DEF LoopSend, InLoop, Typed
  <2>2. /\ f \in Frame /\ f.at = "check" /\ stack[t][n].at = "awake"
        /\ f.fn = stack[t][n].fn
    BY <2>1 DEF Top, Frame
  <2>3. /\ below \in Seq(Frame) /\ Len(below) = n /\ below[n] = f
        /\ \A k \in 1 .. n - 1 : below[k] = stack[t][k]
    BY <2>1, <2>2, ExceptSeq
  <2>4. g \in Frame /\ g.at = "enter" /\ g.fn = "send"
    BY FrameTypes DEF SendFrame
  <2>5. stack' = [stack EXCEPT ![t] = Append(below, g)]
    BY <1>0, <1>3 DEF LoopSend, Typed
  <2>6. stack'[t] = Append(below, g) /\ OthersKept(t)
    BY <1>0, <2>5 DEF OthersKept, Typed
  <2> HIDE DEF f, g, below
  <2>7. /\ Len(stack'[t]) = n + 1 /\ stack'[t][n + 1] = g
        /\ \A k \in 1 .. n : stack'[t][k] = below[k]
    BY <2>3, <2>4, <2>6, AppendProperties
  <2>8. \A k : k \in 1 .. n + 1 <=> k \in 1 .. n - 1 \/ k = n \/ k = n + 1
    BY <2>1
  <2>9. \A k : k \in 1 .. n <=> k \in 1 .. n - 1 \/ k = n
    BY <2>1
  <2>10. TopOnly(t)
    BY <2>3, <2>6, <2>7, <2>9 DEF TopOnly
  <2>11. Levels(t)' = {k \in 1 .. n + 1 : CountsLevel(stack'[t][k])}
    BY <2>7 DEF Levels
  <2>12. Levels(t) = {k \in 1 .. n : CountsLevel(stack[t][k])}
    BY DEF Levels
  <2>13. ~CountsLevel(g) /\ (CountsLevel(f) <=> CountsLevel(stack[t][n]))
    BY <2>2, <2>4 DEF CountsLevel
  <2> HIDE DEF n
  <2>14. Levels(t)' = Levels(t)
    BY <2>3, <2>7, <2>8, <2>9, <2>11, <2>12, <2>13
  <2>15. Balanced(t, 0, 0)
    BY <1>0, <2>14, LevelsFinite DEF Balanced
  <2> QED
    BY <1>1, <2>1, <2>10, <2>15
<1>4. ASSUME stack[t] # <<>>, Top(t).at # "deliver",
             NEW a \in {"test", "awake", "block", "wait", "poll"},
             stack' = Becomes(t, [Top(t) EXCEPT !.at = a]), loopLevel' = loopLevel
      PROVE  LevelsFollow(t)
  <2>1. Top(t) \in Frame
    BY <1>0, <1>4, TopType
  <2>2. PICK f : f = [Top(t) EXCEPT !.at = a]
    OBVIOUS
  <2>3. f \in Frame /\ f.at # "deliver" /\ f.fn = Top(t).fn
    BY <1>4, <2>1, <2>2 DEF Frame
  <2>4. Weight(f) = Weight(Top(t))
    BY <1>4, <2>3 DEF Weight, CountsLevel
  <2>5. TopOnly(t) /\ Balanced(t, Weight(f), Weight(Top(t)))
    BY <1>0, <1>4, <2>2, <2>3, ReplacedLevels
  <2>6. Weight(f) \in Nat
    BY DEF Weight
  <2>7. Balanced(t, 0, 0)
    BY <1>0, <2>4, <2>5, <2>6, LevelsFinite DEF Balanced
  <2> QED
    BY <1>1, <1>4, <2>5, <2>7
<1>5. CASE LoopAwake(t) \/ LoopCheck(t) \/ LoopBlock(t)
  <2>1. stack[t] # <<>> /\ Top(t).at # "deliver" /\ loopLevel' = loopLevel
    BY <1>5 DEF LoopAwake, LoopCheck, LoopBlock, InLoop, dataVars
  <2>2. \E a \in {"awake", "block", "wait", "poll"} :
          stack' = Becomes(t, [Top(t) EXCEPT !.at = a])
    BY <1>5 DEF LoopAwake, LoopCheck, LoopBlock
  <2> QED
    BY <1>4, <2>1, <2>2
<1>6. CASE LoopSelect(t)
  <2>1. stack[t] # <<>> /\ Top(t).at # "deliver" /\ loopLevel' = loopLevel
    BY <1>6 DEF LoopSelect, InLoop, dataVars
  <2>2. CASE Top(t).fn = "exec"
    <3>1. stack' = Becomes(t, [Top(t) EXCEPT !.at = "test"])
      BY <1>6, <2>2 DEF LoopSelect
    <3> QED
      BY <1>4, <2>1, <3>1
  <2>3. CASE Top(t).fn # "exec"
    <3>1. stack' = Pop(t) /\ Weight(Top(t)) = 0
      BY <1>6, <2>1, <2>3 DEF LoopSelect, Weight, CountsLevel
    <3> QED
      BY <1>0, <1>1, <2>1, <3>1, PoppedLevels
  <2> QED
    BY <2>2, <2>3
<1>7. CASE LoopEnd(t)
  <2>1. stack[t] # <<>> /\ Top(t).fn = "exec" /\ stack' = Pop(t)
    BY <1>7 DEF LoopEnd, InLoop
  <2>2. Weight(Top(t)) = 1
    BY <2>1 DEF Weight, CountsLevel
  <2>3. TopOnly(t) /\ Balanced(t, 0, 1)
    BY <1>0, <2>1, <2>2, PoppedLevels
  <2>4. Raised(t, 0, 1)
    <3>1. \A u \in Threads : loopLevel[u] \in Int
      BY <1>0 DEF Typed
    <3> QED
      BY <1>0, <1>7, <3>1 DEF LoopEnd, Typed, Raised
  <2> QED
    BY <2>3, <2>4 DEF LevelsFollow
<1> QED
  BY <1>2, <1>3, <1>5, <1>6, <1>7 DEF Loop

\* The other calls touch neither.
LEMMA CallLevels ==
  ASSUME Safe, NEW t \in Threads, CallStepOf(t)
  PROVE  stack' = stack /\ loopLevel' = loopLevel
<1> USE DEF queueVars, objectVars, dataVars
<1>1. CASE Post(t)
  BY <1>1 DEF Post, PostBegin, PostFollow, PostCompress, PostAdd, PostWakeUp
<1>2. CASE Remove(t)
  BY <1>2 DEF Remove, RemoveBegin, RemoveStart, RemoveMatch, RemoveKeep,
              RemoveEnd, RemoveEvent
<1>3. CASE Move(t)
  BY <1>3 DEF Move, MoveBegin, MoveStep, MoveEnd
<1>4. CASE \E r \in Objects : Destroy(t, r)
  BY <1>4 DEF Destroy
<1> QED
  BY <1>1, <1>2, <1>3, <1>4 DEF CallStepOf

\* loopLevel is the number of loops and handlers on the stack.
LEMMA LevelsStep == Safe /\ LevelCounts /\ [Next]_vars => LevelCounts'
<1> SUFFICES ASSUME Safe, LevelCounts, [Next]_vars PROVE LevelCounts'
  OBVIOUS
<1>1. CASE stack' = stack /\ loopLevel' = loopLevel
  BY <1>1 DEF LevelCounts, Levels
<1>2. ASSUME NEW t \in Threads, LevelsFollow(t) PROVE LevelCounts'
  <2>1. PICK a \in Nat, b \in Nat : Balanced(t, a, b) /\ Raised(t, a, b)
    BY <1>2 DEF LevelsFollow
  <2>2. ASSUME NEW u \in Threads PROVE loopLevel'[u] = Cardinality(Levels(u)')
    <3>1. CASE u = t
      BY <2>1, <3>1 DEF Balanced, Raised, LevelCounts
    <3>2. CASE u # t
      <4>1. stack'[u] = stack[u] /\ loopLevel'[u] = loopLevel[u]
        BY <1>2, <2>1, <3>2 DEF LevelsFollow, TopOnly, OthersKept, Raised
      <4>2. Levels(u)' = Levels(u)
        BY <4>1 DEF Levels
      <4> QED
        BY <4>1, <4>2 DEF LevelCounts
    <3> QED
      BY <3>1, <3>2
  <2> QED
    BY <2>2 DEF LevelCounts
<1>3. CASE UNCHANGED vars
  BY <1>1, <1>3 DEF vars, dataVars
<1>4. Next => \E t \in Threads : StepOf(t)
  BY DEF Next, CallStepOf, StepOf
<1> QED
  BY <1>1, <1>2, <1>3, <1>4, CallLevels, SendLevels, LoopLevels DEF StepOf

-----------------------------------------------------------------------------
(* Where the entries of a list come from.                                  *)

\* The entries of a list that have an event.
Entries(l) == {l[k] : k \in LiveAt(l)}

\* What the operations on lists add to them.
LEMMA InsertSource ==
  ASSUME NEW l \in Seq(Entry), NEW k \in 0 .. Len(l), NEW e \in Entry,
         NEW m, m = Insert(l, k, e)
  PROVE  Entries(m) \subseteq Entries(l) \cup {e}
<1>1. Len(l) \in Nat
  BY LenProperties
<1>2. /\ Len(m) = Len(l) + 1
      /\ \A i \in 1 .. Len(l) + 1 :
           m[i] = IF i <= k THEN l[i] ELSE IF i = k + 1 THEN e ELSE l[i - 1]
  BY InsertedEntries
<1>3. ASSUME NEW i \in LiveAt(m) PROVE m[i] \in Entries(l) \cup {e}
  <2>1. i \in 1 .. Len(l) + 1 /\ Live(m[i])
    BY <1>2, <1>3 DEF LiveAt
  <2>2. CASE i <= k
    <3>1. i \in 1 .. Len(l) /\ m[i] = l[i]
      BY <1>1, <1>2, <2>1, <2>2
    <3> QED
      BY <2>1, <3>1 DEF Entries, LiveAt
  <2>3. CASE i > k + 1
    <3>1. i - 1 \in 1 .. Len(l) /\ m[i] = l[i - 1]
      BY <1>1, <1>2, <2>1, <2>3
    <3> QED
      BY <2>1, <3>1 DEF Entries, LiveAt
  <2>4. CASE i = k + 1
    BY <1>1, <1>2, <2>1, <2>4
  <2> QED
    BY <1>1, <2>1, <2>2, <2>3, <2>4
<1> QED
  BY <1>3 DEF Entries

LEMMA NullSource ==
  ASSUME NEW l \in Seq(Entry), NEW i \in 1 .. Len(l), NEW p, NEW m, m = [l EXCEPT ![i] = Nulled(p)]
  PROVE  Entries(m) \subseteq Entries(l)
<1>1. DOMAIN l = 1 .. Len(l) /\ Len(l) \in Nat
  BY LenProperties
<1>2. Len(m) = Len(l) /\ \A k \in 1 .. Len(l) : m[k] = IF k = i THEN Nulled(p) ELSE l[k]
  BY <1>1, ExceptSeq
<1>3. ~Live(Nulled(p))
  BY DEF Live, Nulled
<1>4. \A k \in LiveAt(m) : k \in LiveAt(l) /\ m[k] = l[k]
  BY <1>2, <1>3 DEF LiveAt
<1> QED
  BY <1>4 DEF Entries

LEMMA SwapSource ==
  ASSUME NEW l \in Seq(Entry), NEW i \in 1 .. Len(l), NEW j \in 1 .. Len(l),
         NEW m, m = [l EXCEPT ![i] = l[j], ![j] = l[i]]
  PROVE  Entries(m) \subseteq Entries(l)
<1>1. DOMAIN l = 1 .. Len(l) /\ Len(l) \in Nat
  BY LenProperties
<1>2. Len(m) = Len(l)
  <2>1. m \in Seq(Entry) /\ Len(m) = Len(l)
    BY <1>1, ElementOfSeq, ExceptSeq
  <2> QED
    BY <2>1
<1>3. \A k \in 1 .. Len(l) : m[k] = IF k = j THEN l[i] ELSE IF k = i THEN l[j] ELSE l[k]
  BY <1>1
<1>4. \A k \in LiveAt(m) : \E a \in LiveAt(l) : m[k] = l[a]
  BY <1>2, <1>3 DEF LiveAt
<1> QED
  BY <1>4 DEF Entries

LEMMA FrontSource ==
  ASSUME NEW l \in Seq(Entry), NEW n \in 0 .. Len(l), NEW m, m = SubSeq(l, 1, n)
  PROVE  Entries(m) \subseteq Entries(l)
<1>1. Len(l) \in Nat /\ \A i \in 1 .. n : l[i] \in Entry
  BY LenProperties, ElementOfSeq
<1>2. Len(m) = n /\ \A k \in 1 .. n : m[k] = l[k]
  BY <1>1, SubSeqProperties
<1>3. \A k \in LiveAt(m) : k \in LiveAt(l) /\ m[k] = l[k]
  BY <1>1, <1>2 DEF LiveAt
<1> QED
  BY <1>3 DEF Entries

LEMMA BackSource ==
  ASSUME NEW l \in Seq(Entry), NEW n \in 0 .. Len(l), NEW m, m = SubSeq(l, n + 1, Len(l))
  PROVE  Entries(m) \subseteq Entries(l)
<1>1. Len(l) \in Nat /\ \A i \in 1 .. Len(l) : l[i] \in Entry
  BY LenProperties, ElementOfSeq
<1>2. Len(m) = Len(l) - n /\ \A k \in 1 .. Len(l) - n : m[k] = l[n + k]
  <2>1. \A i \in n + 1 .. Len(l) : l[i] \in Entry
    BY <1>1
  <2>2. /\ Len(m) = IF n + 1 <= Len(l) THEN Len(l) - (n + 1) + 1 ELSE 0
        /\ \A k \in 1 .. Len(l) - (n + 1) + 1 : m[k] = l[n + 1 + k - 1]
    BY <1>1, <2>1, SubSeqProperties
  <2>3. Len(m) = Len(l) - n
    BY <1>1, <2>2
  <2>4. \A k \in 1 .. Len(l) - n : k \in 1 .. Len(l) - (n + 1) + 1 /\ n + 1 + k - 1 = n + k
    BY <1>1
  <2> QED
    BY <2>2, <2>3, <2>4
<1>3. ASSUME NEW k \in LiveAt(m) PROVE n + k \in LiveAt(l) /\ l[n + k] = m[k]
  <2>1. k \in 1 .. Len(l) - n /\ n + k \in 1 .. Len(l)
    BY <1>1, <1>2 DEF LiveAt
  <2> QED
    BY <1>2, <2>1 DEF LiveAt
<1> QED
  BY <1>3 DEF Entries

\* What is in a list after a step of t was there before, with what it says
\* of the handler that posted it, or is new; what is moved says nothing.
Sourced(t) ==
  \A v \in Threads : \A e \in Entries(list'[v]) :
    \/ e \in Entries(list[v]) \/ e.by = 0
    \/ PostAdd(t) /\ v = call[t].data /\ e = PostedEntry(t, call[t])

\* A step changes one list, and adds nothing to it.
LEMMA OneSource ==
  ASSUME Safe, NEW t \in Threads, NEW u \in Threads, NEW l, list' = [list EXCEPT ![u] = l],
         Entries(l) \subseteq Entries(list[u])
  PROVE  Sourced(t)
<1>1. list'[u] = l /\ \A v \in Threads : v # u => list'[v] = list[v]
  BY DEF Safe, IInv, Typed
<1> QED
  BY <1>1 DEF Sourced

\* An event is taken out of a list.
LEMMA NulledSource ==
  ASSUME Safe, NEW t \in Threads, NEW u \in Threads, NEW k \in 1 .. Len(list[u]), NEW p,
         list' = [list EXCEPT ![u] = [list[u] EXCEPT ![k] = Nulled(p)]]
  PROVE  Sourced(t)
<1>1. PICK l : l = [list[u] EXCEPT ![k] = Nulled(p)]
  OBVIOUS
<1>2. Entries(l) \subseteq Entries(list[u])
  BY <1>1, ListTypes, NullSource
<1> QED
  BY <1>1, <1>2, OneSource

\* A new event is posted.
LEMMA PostSource ==
  ASSUME Safe, NEW t \in Threads, PostAdd(t)
  PROVE  Sourced(t)
<1> DEFINE u == call[t].data
           e == PostedEntry(t, call[t])
<1>1. u \in Threads /\ call[t].priority \in Int
  BY CallTypes DEF Safe, IInv, Call
<1>2. e \in Entry
  BY PostedEntryType DEF Safe, IInv
<1>3. PICK k \in AddPositions(list[u], insertionOffset[u], call[t].priority) :
        list' = [list EXCEPT ![u] = Insert(list[u], k, e)]
  BY DEF PostAdd
<1> HIDE DEF u, e
<1>4. k \in 0 .. Len(list[u])
  BY <1>1, <1>3, ListTypes, AddPositionsBounded
<1>5. PICK m : m = Insert(list[u], k, e)
  OBVIOUS
<1>6. Entries(m) \subseteq Entries(list[u]) \cup {e}
  BY <1>1, <1>2, <1>4, <1>5, ListTypes, InsertSource
<1>7. list'[u] = m /\ \A v \in Threads : v # u => list'[v] = list[v]
  BY <1>1, <1>3, <1>5 DEF Safe, IInv, Typed
<1> QED
  BY <1>6, <1>7 DEF Sourced, u, e

\* A deferred delete is posted again as it is.
LEMMA HoldSource ==
  ASSUME Safe, NEW t \in Threads, ScanHold(t)
  PROVE  Sourced(t)
<1>1. CASE Global(Top(t))
  <2> DEFINE e == Current(t)
             l == [list[t] EXCEPT ![At(t)] = Nulled(e.priority)]
  <2>1. e \in Entry /\ e.priority \in Int /\ At(t) \in 1 .. Len(list[t]) /\ Live(e)
    BY CurrentType DEF ScanHold, Entry, Safe, IInv
  <2>2. l \in Seq(Entry)
    BY <2>1, ListTypes, NulledType, ExceptSeq
  <2>3. PICK k \in AddPositions(l, insertionOffset[t], e.priority) :
          list' = [list EXCEPT ![t] = Insert(l, k, e)]
    BY <1>1 DEF ScanHold
  <2>4. e \in Entries(list[t])
    BY <2>1 DEF LiveAt, Current, Entries
  <2>5. Entries(l) \subseteq Entries(list[t])
    BY <2>1, ListTypes, NullSource
  <2> HIDE DEF l, e
  <2>6. k \in 0 .. Len(l)
    BY <2>1, <2>2, <2>3, ListTypes, AddPositionsBounded
  <2>7. PICK m : m = Insert(l, k, e)
    OBVIOUS
  <2>8. Entries(m) \subseteq Entries(l) \cup {e}
    BY <2>1, <2>2, <2>6, <2>7, InsertSource
  <2>9. list' = [list EXCEPT ![t] = m] /\ Entries(m) \subseteq Entries(list[t])
    BY <2>3, <2>4, <2>5, <2>7, <2>8
  <2> QED
    BY <2>9, OneSource
<1>2. CASE ~Global(Top(t))
  BY <1>2 DEF ScanHold, Sourced
<1> QED
  BY <1>1, <1>2

\* An event is moved to the list of another thread.
LEMMA MoveSource ==
  ASSUME Safe, NEW t \in Threads, MoveStep(t)
  PROVE  Sourced(t)
<1> DEFINE k == call[t].i + 1
           e == MovedEntry(t)
           u == call[t].to
           moved == [e EXCEPT !.by = 0]
           l == [list[t] EXCEPT ![k] = Nulled(e.priority)]
<1>1. u \in Threads /\ u # t /\ call[t].i \in Nat
  BY CallTypes DEF Call, CallOf, MoveStep, Moving, Safe, IInv
<1>2. k \in 1 .. Len(list[t])
  BY <1>1, ListTypes DEF MoveStep, Moving
<1>3. e \in Entry /\ e = list[t][k]
  BY <1>2, ListTypes DEF MovedEntry
<1>4. CASE ~Mine(t)
  BY <1>4 DEF MoveStep, Mine, MovedEntry, Sourced
<1>5. CASE Mine(t)
  <2>1. moved \in Entry /\ e.priority \in Int /\ moved.by = 0
    BY <1>3 DEF Entry
  <2>2. PICK n \in AddPositions(list[u], insertionOffset[u], e.priority) :
          list' = [list EXCEPT ![t][k] = Nulled(e.priority), ![u] = Insert(@, n, moved)]
    BY <1>5 DEF MoveStep, Mine, MovedEntry
  <2> DEFINE m == Insert(list[u], n, moved)
  <2>3. list'[t] = l /\ list'[u] = m /\ \A v \in Threads : v \notin {t, u} => list'[v] = list[v]
    <3>1. list \in [Threads -> Seq(Entry)]
      BY DEF Safe, IInv, Typed
    <3> HIDE DEF k, e, u
    <3> QED
      BY <1>1, <2>2, <3>1
  <2>4. Entries(l) \subseteq Entries(list[t])
    BY <1>2, ListTypes, NullSource
  <2> HIDE DEF l, moved, e, k, u
  <2>5. n \in 0 .. Len(list[u])
    BY <1>1, <2>1, ListTypes, AddPositionsBounded
  <2>6. Entries(m) \subseteq Entries(list[u]) \cup {moved}
    BY <1>1, <2>1, <2>5, ListTypes, InsertSource
  <2> HIDE DEF m
  <2> QED
    BY <2>1, <2>3, <2>4, <2>6 DEF Sourced
<1> QED
  BY <1>4, <1>5

\* The end of a send erases entries.
LEMMA CleanUpSource ==
  ASSUME Safe, NEW t \in Threads, NEW waits, CleanUp(t, waits)
  PROVE  Sourced(t)
<1>1. CASE Global(Top(t))
  <2>1. PICK l : l = SubSeq(list[t], startOffset[t] + 1, Len(list[t]))
    OBVIOUS
  <2>2. list' = [list EXCEPT ![t] = l]
    BY <1>1, <2>1 DEF CleanUp
  <2>3. startOffset[t] \in 0 .. Len(list[t])
    BY TakenBefore DEF Safe
  <2>4. Entries(l) \subseteq Entries(list[t])
    BY <2>1, <2>3, ListTypes, BackSource
  <2> QED
    BY <2>2, <2>4, OneSource
<1>2. CASE ~Global(Top(t))
  BY <1>2 DEF CleanUp, Sourced
<1> QED
  BY <1>1, <1>2

\* A removal moves entries up, and truncates the list.
LEMMA RemovalSource ==
  ASSUME Safe, NEW t \in Threads, RemoveKeep(t) \/ RemoveEnd(t)
  PROVE  Sourced(t)
<1> DEFINE u == call[t].data
           i == call[t].i + 1
           j == call[t].j + 1
<1>1. CASE list' = list
  BY <1>1 DEF Sourced
<1>2. CASE RemoveKeep(t) /\ Compacting(u)
  <2>1. u \in Threads /\ i \in 1 .. Len(list[u]) /\ j \in 1 .. Len(list[u])
    BY <1>2, RemovingType DEF RemoveKeep, Safe, IInv
  <2>2. list' = [list EXCEPT ![u][i] = list[u][j], ![u][j] = list[u][i]]
    BY <1>2 DEF RemoveKeep
  <2>3. PICK l : l = [list[u] EXCEPT ![i] = list[u][j], ![j] = list[u][i]]
    OBVIOUS
  <2>4. list' = [list EXCEPT ![u] = l]
    BY <2>1, <2>2, <2>3 DEF Safe, IInv, Typed
  <2> HIDE DEF u, i, j
  <2>5. Entries(l) \subseteq Entries(list[u])
    BY <2>1, <2>3, ListTypes, SwapSource
  <2> QED
    BY <2>1, <2>4, <2>5, OneSource
<1>3. CASE RemoveEnd(t) /\ Compacting(u)
  <2>1. u \in Threads /\ call[t].j \in Nat /\ call[t].i \in Nat /\ call[t].fn = "removing"
    BY <1>3, CallTypes DEF RemoveEnd, Call, Safe, IInv
  <2>2. call[t].j <= call[t].i /\ call[t].i <= Len(list[u])
    BY <1>3, <2>1 DEF RemoveEnd, Removing, RemovalInList, Safe, IInv
  <2>3. call[t].j \in 0 .. Len(list[u])
    BY <2>1, <2>2, ListTypes
  <2>4. PICK l : l = SubSeq(list[u], 1, call[t].j)
    OBVIOUS
  <2>5. list' = [list EXCEPT ![u] = l]
    BY <1>3, <2>4 DEF RemoveEnd
  <2> HIDE DEF u
  <2>6. Entries(l) \subseteq Entries(list[u])
    BY <2>1, <2>3, <2>4, ListTypes, FrontSource
  <2> QED
    BY <2>1, <2>5, <2>6, OneSource
<1> QED
  BY <1>1, <1>2, <1>3 DEF RemoveKeep, RemoveEnd

\* Every step.
LEMMA StepSource ==
  ASSUME Safe, NEW t \in Threads, StepOf(t)
  PROVE  Sourced(t)
<1>1. CASE list' = list
  BY <1>1 DEF Sourced
<1>2. CASE RemoveMatch(t)
  <2>1. PICK u \in Threads, k \in Nat : u = call[t].data /\ k = call[t].i + 1 /\ k \in LiveAt(list[u])
    <3>1. \A v \in Threads : LiveAt(list[v]) \subseteq Nat
      BY ListTypes DEF LiveAt
    <3> QED
      BY <1>2, <3>1, MatchEvents
  <2>2. list' = [list EXCEPT ![u] = [list[u] EXCEPT ![k] = Nulled(list[u][k].priority)]]
    BY <1>2, <2>1 DEF RemoveMatch, Safe, IInv, Typed
  <2>3. k \in 1 .. Len(list[u])
    BY <2>1 DEF LiveAt
  <2> QED
    BY <2>2, <2>3, NulledSource
<1>3. ASSUME NEW k \in 1 .. Len(list[t]), RemoveEvent(t, k) PROVE Sourced(t)
  <2>1. list' = [list EXCEPT ![t] = [list[t] EXCEPT ![k] = Nulled(list[t][k].priority)]]
    BY <1>3 DEF RemoveEvent, Safe, IInv, Typed
  <2> QED
    BY <2>1, NulledSource
<1>4. CASE ScanDeliver(t)
  <2>1. At(t) \in 1 .. Len(list[t])
    BY <1>4, CurrentType DEF ScanDeliver, Safe, IInv
  <2>2. list' = [list EXCEPT ![t] = [list[t] EXCEPT ![At(t)] = Nulled(Current(t).priority)]]
    BY <1>4 DEF ScanDeliver, Safe, IInv, Typed
  <2> QED
    BY <2>1, <2>2, NulledSource
<1>5. CASE SendChanges(t)
  BY <1>4, <1>5, HoldSource, CleanUpSource DEF SendChanges, HandlerThrow, SendEnd
<1>6. CASE CallChanges(t)
  BY <1>2, <1>3, <1>6, PostSource, RemovalSource, MoveSource DEF CallChanges
<1> QED
  BY <1>1, <1>5, <1>6, OtherCallSteps, OtherSendSteps DEF StepOf

-----------------------------------------------------------------------------
(* Deferred deletes wait for the handler that posted them.                 *)

\* loopLevel when the n-th call of t was begun.
Level(t, n) == Cardinality({k \in Levels(t) : k <= n})

\* A deferred delete has the level of its handler, as long as that runs, and
\* that event is never posted again.
Waits(t, e) ==
  /\ e.d > 0 /\ e.by <= lastEvent
  /\ \A u \in Threads : \A x \in In(u) : x.event # e.by
  /\ \A n \in Delivers(t) : stack[t][n].event.event = e.by => e.d <= Level(t, n)

DeletesWait ==
  \A t \in Threads :
    /\ \A n \in Delivers(t) : stack[t][n].event.event # 0
    /\ \A e \in Entries(list[t]) : e.by # 0 => Waits(t, e)

\* The level of a handler is at most loopLevel, which it is for the innermost.
LEMMA LevelType ==
  ASSUME Safe, LevelCounts, NEW t \in Threads
  PROVE  /\ \A n \in Nat : Level(t, n) \in Nat /\ Level(t, n) <= loopLevel[t]
         /\ Level(t, Len(stack[t])) = loopLevel[t]
         /\ \A n \in Delivers(t) : loopLevel[t] > 0
<1>1. IsFiniteSet(Levels(t)) /\ Cardinality(Levels(t)) \in Nat /\ loopLevel[t] = Cardinality(Levels(t))
  BY LevelsFinite DEF LevelCounts, Safe, IInv
<1>2. ASSUME NEW n \in Nat PROVE Level(t, n) \in Nat /\ Level(t, n) <= loopLevel[t]
  <2>1. PICK S : S = {k \in Levels(t) : k <= n}
    OBVIOUS
  <2>2. S \subseteq Levels(t)
    BY <2>1
  <2>3. IsFiniteSet(S) /\ Cardinality(S) <= Cardinality(Levels(t))
    BY <1>1, <2>2, FS_Subset
  <2>4. Cardinality(S) \in Nat
    BY <2>3, FS_CardinalityType
  <2> QED
    BY <1>1, <2>1, <2>3, <2>4 DEF Level
<1>3. Level(t, Len(stack[t])) = loopLevel[t]
  <2>1. {k \in Levels(t) : k <= Len(stack[t])} = Levels(t)
    BY DEF Levels
  <2> QED
    BY <1>1, <2>1 DEF Level
<1>4. ASSUME NEW n \in Delivers(t) PROVE loopLevel[t] > 0
  <2>1. n \in Levels(t)
    BY <1>4 DEF Delivers, Levels, CountsLevel
  <2>2. Cardinality(Levels(t)) # 0
    BY <1>1, <2>1, FS_EmptySet
  <2> QED
    BY <1>1, <2>2
<1> QED
  BY <1>2, <1>3, <1>4

\* A handler that goes on keeps its level.
LEMMA LevelKept ==
  ASSUME Safe, NEW t \in Threads, TopOnly(t), SameFrames(t), NEW n \in Delivers(t), n \in Delivers(t)'
  PROVE  Level(t, n)' = Level(t, n)
<1>1. n \in 1 .. Len(stack[t]) /\ n \in 1 .. Len(stack'[t]) /\ stack'[t][n] = stack[t][n]
  BY DEF Delivers, SameFrames
<1>2. Len(stack[t]) \in Nat
  BY StackType DEF Safe, IInv
<1>3. PICK m \in Nat : m = Len(stack[t])
  BY <1>2
<1>4. PICK q : q = Len(stack'[t])
  OBVIOUS
<1>5. ASSUME NEW k \in 1 .. n PROVE k \in 1 .. m /\ k \in 1 .. q /\ stack'[t][k] = stack[t][k]
  <2>1. k \in 1 .. m /\ k \in 1 .. q
    BY <1>1, <1>3, <1>4
  <2>2. CASE k = n
    BY <1>1, <2>1, <2>2
  <2>3. CASE k # n
    <3>1. k \in 1 .. Len(stack[t]) - 1 /\ k <= Len(stack'[t])
      BY <1>1, <1>3, <1>4, <2>1, <2>3
    <3> QED
      BY <2>1, <3>1 DEF TopOnly
  <2> QED
    BY <2>2, <2>3
<1>6. {k \in Levels(t) : k <= n} = {k \in 1 .. n : CountsLevel(stack[t][k])}
  <2>1. Levels(t) = {k \in 1 .. m : CountsLevel(stack[t][k])}
    BY <1>3 DEF Levels
  <2> QED
    BY <1>1, <1>5, <2>1
<1>7. {k \in Levels(t)' : k <= n} = {k \in 1 .. n : CountsLevel(stack'[t][k])}
  <2>1. Levels(t)' = {k \in 1 .. q : CountsLevel(stack'[t][k])}
    BY <1>4 DEF Levels
  <2> QED
    BY <1>1, <1>5, <2>1
<1>8. {k \in Levels(t)' : k <= n} = {k \in Levels(t) : k <= n}
  BY <1>5, <1>6, <1>7
<1>9. Level(t, n)' = Cardinality({k \in Levels(t)' : k <= n})
  BY DEF Level
<1> QED
  BY <1>8, <1>9 DEF Level

\* The handlers after a step ran before, at the level they have, or the
\* step is the delivery of their event.
LEMMA HandlersAfter ==
  ASSUME Safe, NEW s \in Threads, StepOf(s), NEW t \in Threads, NEW n \in Delivers(t)'
  PROVE  \/ n \in Delivers(t) /\ stack'[t][n] = stack[t][n] /\ Level(t, n)' = Level(t, n)
         \/ t = s /\ ScanDeliver(s) /\ stack'[t][n].event = Current(s)
<1>1. CASE stack'[t] = stack[t]
  BY <1>1 DEF Delivers, Level, Levels
<1>2. CASE CallStepOf(s)
  BY <1>1, <1>2, CallLevels
<1>3. CASE Send(s) \/ Loop(s)
  <2>1. TopOnly(s)
    BY <1>3, SendLevels, LoopLevels DEF LevelsFollow
  <2>2. CASE t # s
    BY <1>1, <2>1, <2>2 DEF TopOnly, OthersKept
  <2>3. CASE t = s /\ (HandlersKept(s) \/ HandlerEnded(s))
    <3>1. SameFrames(t) /\ n \in Delivers(t)
      BY <2>3 DEF HandlersKept, HandlerEnded
    <3>2. stack'[t][n] = stack[t][n]
      BY <3>1 DEF SameFrames
    <3> QED
      BY <2>1, <2>3, <3>1, <3>2, LevelKept
  <2>4. CASE t = s /\ ScanDeliver(s) /\ HandlerBegun(s, Current(s))
    <3>1. SameFrames(t) /\ (n \in Delivers(t) \/ n = Len(stack[t]))
      BY <2>4 DEF HandlerBegun
    <3>2. CASE n \in Delivers(t)
      <4>1. stack'[t][n] = stack[t][n]
        BY <3>1, <3>2 DEF SameFrames
      <4> QED
        BY <2>1, <2>4, <3>1, <3>2, <4>1, LevelKept
    <3>3. CASE n = Len(stack[t])
      BY <2>4, <3>3 DEF HandlerBegun
    <3> QED
      BY <3>1, <3>2, <3>3
  <2> QED
    BY <1>3, <2>2, <2>3, <2>4, SendHandlers, LoopHandlers
<1> QED
  BY <1>2, <1>3 DEF StepOf

\* An event that has been posted and is in no list any more stays so.
LEMMA NeverAgain ==
  ASSUME Safe, NEW s \in Threads, StepOf(s), NEW b \in Nat, b <= lastEvent,
         \A u \in Threads : \A x \in In(u) : x.event # b
  PROVE  /\ b <= lastEvent'
         /\ \A u \in Threads : \A x \in In(u)' : x.event # b
<1>1. lastEvent \in Nat /\ (lastEvent' = lastEvent \/ lastEvent' = lastEvent + 1)
  BY StepKinds DEF Keeps, Adds, Carries, Takes, Safe, IInv, Typed
<1>2. ASSUME NEW u \in Threads, NEW x \in Recs(list'[u]) PROVE x.event # b
  <2>1. CASE x \in In(u)
    BY <2>1
  <2>2. CASE Adds(s) /\ x = PostedRec(s)
    <3>1. x.event = lastEvent + 1
      BY <2>2, PostedTo DEF Adds
    <3> QED
      BY <1>1, <3>1
  <2>3. CASE Carries(s) /\ x = Rec(MovedEntry(s))
    BY <2>3 DEF Carries, Relocated
  <2> QED
    BY <1>2, <2>1, <2>2, <2>3, NewEvents
<1>3. \A u \in Threads : In(u)' = Recs(list'[u])
  BY DEF In, Recs, Rec, LiveAt
<1> QED
  BY <1>1, <1>2, <1>3

\* A deferred delete is posted at the level of the handler that posts it.
LEMMA NewDelete ==
  ASSUME Safe, LevelCounts, NEW t \in Threads, PostAdd(t), StepOf(t),
         NEW e, e = PostedEntry(t, call[t]), e.by # 0
  PROVE  call[t].data = t /\ Waits(t, e)'
<1>1. call[t].data = t /\ e.by = Running(t) /\ e.d = loopLevel[t]
  BY DEF PostedEntry
<1> DEFINE n == Len(stack[t])
<1>2. InSend(t, "deliver") /\ e.by = Top(t).event.event
  BY <1>1 DEF Running
<1>3. n \in Delivers(t) /\ stack[t][n].event.event = e.by /\ n \in Nat
  BY <1>2, TopType DEF InSend, Delivers, Top, Safe, IInv
<1>4. e.d > 0 /\ e.d = Level(t, n) /\ Level(t, n) \in Nat
  BY <1>1, <1>3, LevelType
<1>5. /\ e.by <= lastEvent
      /\ \A u \in Threads : \A x \in In(u) : x.event # e.by
      /\ \A k \in Delivers(t) : stack[t][k].event.event = e.by => k = n
  BY <1>3 DEF Safe, PInv, HandledOnce
<1>6. e.by \in Nat
  <2>1. Top(t) \in Frame
    BY <1>2, TopType DEF InSend, Safe, IInv
  <2> QED
    BY <1>2, <2>1 DEF Frame, Entry
<1>7. e.by <= lastEvent' /\ \A u \in Threads : \A x \in In(u)' : x.event # e.by
  BY <1>5, <1>6, NeverAgain
<1>8. stack' = stack
  BY DEF PostAdd
<1>9. ASSUME NEW k \in Delivers(t)', stack'[t][k].event.event = e.by PROVE e.d <= Level(t, k)'
  <2>1. k \in Delivers(t) /\ k = n
    BY <1>5, <1>8, <1>9 DEF Delivers
  <2>2. Level(t, k)' = Level(t, k)
    BY <1>8 DEF Level, Levels
  <2> HIDE DEF n
  <2> QED
    BY <1>4, <2>1, <2>2
<1> QED
  BY <1>1, <1>4, <1>7, <1>9 DEF Waits

\* Every step keeps this, and it holds initially.
LEMMA WaitsStep == Safe /\ LevelCounts /\ DeletesWait /\ [Next]_vars => DeletesWait'
<1> SUFFICES ASSUME Safe, LevelCounts, DeletesWait, [Next]_vars PROVE DeletesWait'
  OBVIOUS
<1>1. ASSUME NEW s \in Threads, StepOf(s) PROVE DeletesWait'
  <2>1. ASSUME ScanDeliver(s)
        PROVE  /\ Current(s).event # 0
               /\ \E x \in In(s) : x.event = Current(s).event
    <3>1. At(s) \in LiveAt(list[s]) /\ list[s][At(s)] = Current(s)
      BY <2>1, CurrentType DEF ScanDeliver, LiveAt, Current, Safe, IInv
    <3>2. Rec(Current(s)) \in In(s) /\ Rec(Current(s)).event = Current(s).event
      BY <3>1, ListTypes DEF Rec
    <3> QED
      BY <3>1, <3>2 DEF LiveAt, Live
  <2>2. ASSUME NEW t \in Threads, NEW n \in Delivers(t)' PROVE stack'[t][n].event.event # 0
    <3>1. CASE n \in Delivers(t) /\ stack'[t][n] = stack[t][n]
      BY <3>1 DEF DeletesWait
    <3>2. CASE t = s /\ ScanDeliver(s) /\ stack'[t][n].event = Current(s)
      BY <2>1, <3>2
    <3> QED
      BY <1>1, <2>2, <3>1, <3>2, HandlersAfter
  <2>3. ASSUME NEW t \in Threads, NEW e \in Entries(list[t]), e.by # 0 PROVE Waits(t, e)'
    <3>1. Waits(t, e)
      BY <2>3 DEF DeletesWait
    <3>2. e.by \in Nat
      <4>1. \A k \in LiveAt(list[t]) : list[t][k] \in Entry
        BY ListTypes DEF LiveAt
      <4> QED
        BY <4>1 DEF Entries, Entry
    <3>3. e.by <= lastEvent' /\ \A u \in Threads : \A x \in In(u)' : x.event # e.by
      BY <1>1, <3>1, <3>2, NeverAgain DEF Waits
    <3>4. ASSUME NEW n \in Delivers(t)', stack'[t][n].event.event = e.by PROVE e.d <= Level(t, n)'
      <4>1. CASE n \in Delivers(t) /\ stack'[t][n] = stack[t][n] /\ Level(t, n)' = Level(t, n)
        BY <3>1, <3>4, <4>1 DEF Waits
      <4>2. CASE t = s /\ ScanDeliver(s) /\ stack'[t][n].event = Current(s)
        BY <2>1, <3>1, <3>4, <4>2 DEF Waits
      <4> QED
        BY <1>1, <3>4, <4>1, <4>2, HandlersAfter
    <3> QED
      BY <3>1, <3>3, <3>4 DEF Waits
  <2>4. ASSUME NEW t \in Threads, NEW e \in Entries(list'[t]), e.by # 0 PROVE Waits(t, e)'
    <3>1. CASE e \in Entries(list[t])
      BY <2>3, <2>4, <3>1
    <3>2. CASE PostAdd(s) /\ t = call[s].data /\ e = PostedEntry(s, call[s])
      <4>1. call[s].data = s /\ Waits(s, e)'
        BY <1>1, <2>4, <3>2, NewDelete
      <4> QED
        BY <3>2, <4>1
    <3>3. Sourced(s)
      BY <1>1, StepSource
    <3> QED
      BY <2>4, <3>1, <3>2, <3>3 DEF Sourced
  <2>5. \A t \in Threads : Entries(list[t])' = Entries(list'[t])
    BY DEF Entries, LiveAt
  <2> QED
    BY <2>2, <2>4, <2>5 DEF DeletesWait
<1>2. CASE UNCHANGED vars
  <2>1. UNCHANGED <<list, stack, lastEvent>>
    BY <1>2 DEF vars, dataVars, queueVars
  <2> QED
    BY <2>1 DEF DeletesWait, Waits, Entries, Delivers, Level, Levels, In
<1>3. Next => \E s \in Threads : StepOf(s)
  BY DEF Next, CallStepOf, StepOf
<1> QED
  BY <1>1, <1>2, <1>3

LEMMA WaitsInitially == Init => LevelCounts /\ DeletesWait
<1> SUFFICES ASSUME Init PROVE LevelCounts /\ DeletesWait
  OBVIOUS
<1>1. \A t \in Threads : /\ Len(stack[t]) = 0 /\ Len(list[t]) = 0 /\ loopLevel[t] = 0
  BY DEF Init
<1>2. \A t \in Threads : Levels(t) = {} /\ Delivers(t) = {} /\ LiveAt(list[t]) = {}
  BY <1>1 DEF Levels, Delivers, LiveAt
<1>3. \A t \in Threads : Entries(list[t]) = {}
  BY <1>2 DEF Entries
<1> QED
  BY <1>1, <1>2, <1>3, FS_EmptySet DEF LevelCounts, DeletesWait

\* A deferred delete is not delivered while the handler that called
\* deleteLater runs, however it nests loops and sends, whatever is thrown,
\* moved or removed, and posted again meanwhile, unless code at the level of
\* that handler sends the DeferredDelete events.
THEOREM DeletesAreDeferred == Spec => DeferredDeleteWaits
<1>1. Init => LevelCounts /\ DeletesWait
  BY WaitsInitially
<1>2. Safe /\ LevelCounts /\ [Next]_vars => LevelCounts'
  BY LevelsStep
<1>3. Safe /\ LevelCounts /\ DeletesWait /\ [Next]_vars => DeletesWait'
  BY WaitsStep
<1> DEFINE Waiting == \A t \in Threads : Delivery(t) =>
                        LET e == Top(t)'.event IN
                        e.type = DeferredDelete /\ e.by \in Handlers(t) =>
                          Top(t).type = DeferredDelete /\ e.d = loopLevel[t]
<1>4. Safe /\ LevelCounts /\ DeletesWait /\ [Next]_vars => [Waiting]_vars
  <2> SUFFICES ASSUME Safe, LevelCounts, DeletesWait, Next PROVE Waiting
    OBVIOUS
  <2>1. PICK u \in Threads : StepOf(u)
    BY DEF Next, CallStepOf, StepOf
  <2>2. SUFFICES ASSUME NEW t \in Threads, Delivery(t), NEW e, e = Top(t)'.event,
                        e.type = DeferredDelete, e.by \in Handlers(t)
                 PROVE  Top(t).type = DeferredDelete /\ e.d = loopLevel[t]
    OBVIOUS
  <2>3. ScanDeliver(t) /\ e = Current(t)
    BY <2>1, <2>2, DeliverySteps
  <2>4. At(t) \in LiveAt(list[t]) /\ list[t][At(t)] = e /\ e \in Entry
    BY <2>3, CurrentType DEF ScanDeliver, LiveAt, Current, Safe, IInv
  <2>5. e \in Entries(list[t])
    BY <2>4 DEF Entries
  <2>6. PICK n \in Delivers(t) : stack[t][n].event.event = e.by
    BY <2>2 DEF Handlers, Delivers
  <2>7. Waits(t, e)
    BY <2>5, <2>6 DEF DeletesWait
  <2>8. e.d > 0 /\ e.d <= Level(t, n)
    BY <2>6, <2>7 DEF Waits
  <2>9. n \in Nat /\ e.d \in Int /\ loopLevel[t] \in Int
    BY <2>4 DEF Delivers, Entry, Safe, IInv, Typed
  <2>10. Level(t, n) \in Nat /\ Level(t, n) <= loopLevel[t]
    BY <2>9, LevelType
  <2>11. AllowDeferredDelete(e, Top(t).type, loopLevel[t])
    BY <2>2, <2>3 DEF ScanDeliver, Held
  <2> QED
    BY <2>8, <2>9, <2>10, <2>11 DEF AllowDeferredDelete
<1>5. DeferredDeleteWaits <=> [][Waiting]_vars
  BY DEF DeferredDeleteWaits
<1> HIDE DEF Waiting
<1> QED
  BY <1>1, <1>2, <1>3, <1>4, <1>5, SafeAlways, PTL DEF Spec

\* For any threads, objects, requests and exceptions, recursion, loopLevel and
\* postedEvents are never negative, startOffset is a position in the list and
\* at most insertionOffset, and a removal's positions are in order within the
\* list: it takes that recursion counts the sends on the stack, loopLevel its
\* loops and handlers, and postedEvents the entries of the queues.
THEOREM TypeCorrect == Spec => []TypeOK
<1>1. Init => LevelCounts
  BY WaitsInitially
<1>2. Safe /\ LevelCounts /\ [Next]_vars => LevelCounts'
  BY LevelsStep
<1>3. Safe /\ LevelCounts => TypeOK
  <2> SUFFICES ASSUME Safe, LevelCounts PROVE TypeOK
    OBVIOUS
  <2>1. Typed /\ OffsetsInList /\ RecursionCountsSends /\ RemovalInList /\ Counted
    BY DEF Safe, IInv, PInv
  <2>2. ASSUME NEW t \in Threads
        PROVE  /\ startOffset[t] \in 0 .. Len(list[t])
               /\ insertionOffset[t] \in Nat
               /\ insertionOffset[t] >= startOffset[t]
    <3>1. /\ startOffset[t] \in Nat /\ insertionOffset[t] \in Int
          /\ list[t] \in Seq(Entry) /\ Len(list[t]) \in Nat
      BY <2>1, LenProperties DEF Typed
    <3> QED
      BY <2>1, <3>1 DEF OffsetsInList
  <2>3. recursion \in [Threads -> Nat]
    <3>1. \A t \in Threads : recursion[t] \in Nat
      BY <2>1, SendsFinite DEF RecursionCountsSends
    <3> QED
      BY <2>1, <3>1 DEF Typed
  <2>4. loopLevel \in [Threads -> Nat]
    <3>1. \A t \in Threads : loopLevel[t] \in Nat
      BY <2>1, LevelsFinite DEF LevelCounts
    <3> QED
      BY <2>1, <3>1 DEF Typed
  <2>5. postedEvents \in [Objects -> Nat]
    <3>1. \A r \in Objects : postedEvents[r] \in Nat
      BY <2>1, FS_CardinalityType DEF Counted
    <3> QED
      BY <2>1, <3>1 DEF Typed
  <2>6. ASSUME NEW t \in Threads, call[t].fn = "removing"
        PROVE  /\ call[t].i \in 0 .. Len(list[call[t].data])
               /\ call[t].j \in 0 .. call[t].i
    <3>1. call[t] \in Call
      BY <2>1 DEF Typed
    <3>2. call[t].i \in Nat /\ call[t].j \in Nat /\ call[t].data \in Threads
      BY <3>1 DEF Call
    <3>3. Len(list[call[t].data]) \in Nat
      BY <2>1, <3>2, LenProperties DEF Typed
    <3> QED
      BY <2>1, <2>6, <3>2, <3>3 DEF RemovalInList
  <2> QED
    BY <2>1, <2>2, <2>3, <2>4, <2>5, <2>6 DEF Typed, TypeOK
<1> QED
  BY <1>1, <1>2, <1>3, SafeAlways, PTL DEF Spec

=============================================================================
