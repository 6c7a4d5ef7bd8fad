--------------------------- MODULE PendingProofs ---------------------------
(***************************************************************************)
(* Proof that the lists implement the abstract queue of EventQueue         *)
(* (ImplementsEventQueue), that postedEvents of an object counts what is   *)
(* posted to it, that at most one deferred delete of it is posted, and     *)
(* nothing after its destructor, for any threads, objects and requests.    *)
(*                                                                         *)
(* A list is looked at as a set of records, one for each live entry.  A    *)
(* step adds one to the set of a thread, takes one out, or moves one       *)
(* between two of them.  That it does nothing else rests on the numbers of *)
(* the events, all different, and on the mutexes: while a removal or a     *)
(* move walks along a list, only the walking thread changes it.            *)
(***************************************************************************)
EXTENDS PostedEventsProofs

\* What EventQueue knows of an entry.
Rec(e) == [event |-> e.event, receiver |-> e.receiver, type |-> e.type]

LiveAt(l) == {k \in 1 .. Len(l) : Live(l[k])}
Recs(l) == {Rec(l[k]) : k \in LiveAt(l)}

\* No two live entries of a list hold the same event.
Once(l) == \A j, k \in LiveAt(l) : l[j].event = l[k].event => j = k

-----------------------------------------------------------------------------
(* What the operations on lists do to the set of records.                  *)

\* An event is inserted that is not in the list.
LEMMA InsertRecs ==
  ASSUME NEW l \in Seq(Entry), NEW k \in 0 .. Len(l), NEW e \in Entry, Live(e),
         Once(l), \A x \in Recs(l) : x.event # e.event
  PROVE  /\ Recs(Insert(l, k, e)) = Recs(l) \cup {Rec(e)}
         /\ Once(Insert(l, k, e))
<1> DEFINE m == Insert(l, k, e)
<1>1. Len(l) \in Nat
  BY LenProperties
<1>2. /\ Len(m) = Len(l) + 1
      /\ \A i \in 1 .. Len(l) + 1 :
           m[i] = IF i <= k THEN l[i] ELSE IF i = k + 1 THEN e ELSE l[i - 1]
  BY InsertedEntries
<1> HIDE DEF m
<1>3. m[k + 1] = e /\ k + 1 \in LiveAt(m)
  BY <1>1, <1>2 DEF LiveAt
<1>4. ASSUME NEW i \in LiveAt(l)
      PROVE  \E j \in LiveAt(m) : m[j] = l[i]
  <2>1. CASE i <= k
    <3>1. i \in 1 .. Len(l) + 1 /\ m[i] = l[i]
      BY <1>1, <1>2, <2>1 DEF LiveAt
    <3> QED
      BY <1>2, <3>1 DEF LiveAt
  <2>2. CASE i > k
    <3>1. i + 1 \in 1 .. Len(l) + 1 /\ ~(i + 1 <= k) /\ i + 1 # k + 1 /\ (i + 1) - 1 = i
      BY <1>1, <2>2 DEF LiveAt
    <3>2. m[i + 1] = l[i]
      BY <1>2, <3>1
    <3> QED
      BY <1>2, <3>1, <3>2 DEF LiveAt
  <2> QED
    BY <1>1, <2>1, <2>2 DEF LiveAt
\* An entry of the new list is e, or was one place before, or is where it was.
<1> DEFINE from(i) == IF i <= k THEN i ELSE i - 1
<1>5. ASSUME NEW i \in LiveAt(m), i # k + 1
      PROVE  from(i) \in LiveAt(l) /\ l[from(i)] = m[i]
  <2>1. i \in 1 .. Len(l) + 1 /\ Live(m[i])
    BY <1>2 DEF LiveAt
  <2>2. from(i) \in 1 .. Len(l)
    BY <1>1, <1>5, <2>1
  <2>3. m[i] = l[from(i)]
    BY <1>2, <1>5, <2>1
  <2> QED
    BY <2>1, <2>2, <2>3 DEF LiveAt
<1>6. ASSUME NEW i \in LiveAt(m), NEW j \in LiveAt(m), i # k + 1, j # k + 1,
             from(i) = from(j)
      PROVE  i = j
  <2>1. i \in Int /\ j \in Int /\ k \in Int
    BY <1>1, <1>2 DEF LiveAt
  <2> QED
    BY <1>6, <2>1
<1> HIDE DEF from
<1>7. Recs(m) \subseteq Recs(l) \cup {Rec(e)}
  <2> SUFFICES ASSUME NEW i \in LiveAt(m) PROVE Rec(m[i]) \in Recs(l) \cup {Rec(e)}
    BY DEF Recs
  <2> QED
    BY <1>3, <1>5 DEF Recs
<1>8. Recs(l) \cup {Rec(e)} \subseteq Recs(m)
  BY <1>3, <1>4 DEF Recs
<1>9. ASSUME NEW i \in LiveAt(m), i # k + 1 PROVE m[i].event # e.event
  <2>1. Rec(m[i]) \in Recs(l)
    BY <1>5, <1>9 DEF Recs
  <2>2. Rec(m[i]).event = m[i].event
    BY DEF Rec
  <2> QED
    BY <2>1, <2>2
<1>10. ASSUME NEW i \in LiveAt(m), NEW j \in LiveAt(m), m[i].event = m[j].event
       PROVE  i = j
  <2>1. CASE i # k + 1 /\ j # k + 1
    <3>1. from(i) = from(j)
      BY <1>5, <1>10, <2>1 DEF Once
    <3> QED
      BY <1>6, <2>1, <3>1
  <2> QED
    BY <1>3, <1>9, <1>10, <2>1
<1>11. Once(m)
  BY <1>10 DEF Once
<1> QED
  BY <1>7, <1>8, <1>11 DEF m

\* A live entry is nulled.
LEMMA NullRecs ==
  ASSUME NEW l \in Seq(Entry), NEW i \in LiveAt(l), NEW p, Once(l)
  PROVE  /\ Recs([l EXCEPT ![i] = Nulled(p)]) = Recs(l) \ {Rec(l[i])}
         /\ Rec(l[i]) \in Recs(l)
         /\ Once([l EXCEPT ![i] = Nulled(p)])
<1> DEFINE m == [l EXCEPT ![i] = Nulled(p)]
<1>1. DOMAIN l = 1 .. Len(l) /\ Len(l) \in Nat /\ i \in 1 .. Len(l)
  BY LenProperties DEF LiveAt
<1>2. Len(m) = Len(l) /\ \A k \in 1 .. Len(l) : m[k] = IF k = i THEN Nulled(p) ELSE l[k]
  BY <1>1, ExceptSeq
<1>3. ~Live(Nulled(p))
  BY DEF Live, Nulled
<1> HIDE DEF m
<1>4. LiveAt(m) = LiveAt(l) \ {i} /\ \A k \in LiveAt(m) : m[k] = l[k]
  BY <1>2, <1>3 DEF LiveAt
<1>5. \A k \in LiveAt(m) : l[k].event # l[i].event
  BY <1>4 DEF Once
<1>6. \A k \in LiveAt(m) : Rec(l[k]) # Rec(l[i])
  BY <1>5 DEF Rec
<1>7. Recs(m) = Recs(l) \ {Rec(l[i])}
  BY <1>4, <1>6 DEF Recs
<1>8. Once(m)
  BY <1>4 DEF Once
<1> QED
  BY <1>7, <1>8 DEF m, Recs

\* Two entries are swapped.
LEMMA SwapRecs ==
  ASSUME NEW l \in Seq(Entry), NEW i \in 1 .. Len(l), NEW j \in 1 .. Len(l)
  PROVE  /\ Recs([l EXCEPT ![i] = l[j], ![j] = l[i]]) = Recs(l)
         /\ Once(l) => Once([l EXCEPT ![i] = l[j], ![j] = l[i]])
<1> DEFINE m == [l EXCEPT ![i] = l[j], ![j] = l[i]]
           p(k) == IF k = i THEN j ELSE IF k = j THEN i ELSE k
<1>1. DOMAIN l = 1 .. Len(l) /\ Len(l) \in Nat
  BY LenProperties
<1>2. Len(m) = Len(l) /\ \A k \in 1 .. Len(l) : m[k] = l[p(k)]
  <2>1. m \in Seq(Entry) /\ Len(m) = Len(l)
    BY <1>1, ElementOfSeq, ExceptSeq
  <2>2. \A k \in 1 .. Len(l) : m[k] = IF k = j THEN l[i] ELSE IF k = i THEN l[j] ELSE l[k]
    BY <1>1
  <2> QED
    BY <2>1, <2>2
<1>3. \A k \in 1 .. Len(l) : p(k) \in 1 .. Len(l) /\ p(p(k)) = k
  OBVIOUS
<1> HIDE DEF m, p
<1>4. \A k \in LiveAt(l) : p(k) \in LiveAt(m) /\ m[p(k)] = l[k]
  BY <1>2, <1>3 DEF LiveAt
<1>5. \A k \in LiveAt(m) : p(k) \in LiveAt(l) /\ l[p(k)] = m[k] /\ k \in 1 .. Len(l)
  BY <1>2, <1>3 DEF LiveAt
<1>6. Recs(m) \subseteq Recs(l)
  BY <1>5 DEF Recs
<1>7. Recs(l) \subseteq Recs(m)
  BY <1>4 DEF Recs
<1>8. ASSUME Once(l), NEW a \in LiveAt(m), NEW b \in LiveAt(m), m[a].event = m[b].event
      PROVE  a = b
  <2>1. p(a) = p(b)
    BY <1>5, <1>8 DEF Once
  <2> QED
    BY <1>3, <1>5, <2>1
<1>9. Once(l) => Once(m)
  BY <1>8 DEF Once
<1> QED
  BY <1>6, <1>7, <1>9 DEF m

\* Nothing live follows the front.
LEMMA FrontRecs ==
  ASSUME NEW l \in Seq(Entry), NEW n \in 0 .. Len(l),
         \A k \in n + 1 .. Len(l) : ~Live(l[k])
  PROVE  /\ Recs(SubSeq(l, 1, n)) = Recs(l)
         /\ Once(l) => Once(SubSeq(l, 1, n))
<1> DEFINE m == SubSeq(l, 1, n)
<1>1. Len(l) \in Nat /\ \A i \in 1 .. n : l[i] \in Entry
  BY LenProperties, ElementOfSeq
<1>2. Len(m) = n /\ \A k \in 1 .. n : m[k] = l[k]
  BY <1>1, SubSeqProperties
<1> HIDE DEF m
<1>3. \A k \in LiveAt(l) : k \in 1 .. n
  BY <1>1 DEF LiveAt
<1>4. LiveAt(m) = LiveAt(l) /\ \A k \in LiveAt(l) : m[k] = l[k]
  BY <1>1, <1>2, <1>3 DEF LiveAt
<1>5. Recs(m) = Recs(l) /\ (Once(l) => Once(m))
  BY <1>4 DEF Recs, Once
<1> QED
  BY <1>5 DEF m

\* Nothing live comes before the back.
LEMMA BackRecs ==
  ASSUME NEW l \in Seq(Entry), NEW n \in 0 .. Len(l), Taken(l, n)
  PROVE  /\ Recs(SubSeq(l, n + 1, Len(l))) = Recs(l)
         /\ Once(l) => Once(SubSeq(l, n + 1, Len(l)))
<1> DEFINE m == SubSeq(l, n + 1, Len(l))
<1>1. Len(l) \in Nat /\ \A i \in 1 .. Len(l) : l[i] \in Entry
  BY LenProperties, ElementOfSeq
<1>2. Len(m) = Len(l) - n /\ \A k \in 1 .. Len(l) - n : m[k] = l[n + k]
  <2>1. \A i \in n + 1 .. Len(l) : l[i] \in Entry
    BY <1>1
  <2>2. /\ Len(m) = IF n + 1 <= Len(l) THEN Len(l) - (n + 1) + 1 ELSE 0
        /\ \A k \in 1 .. Len(l) - (n + 1) + 1 : m[k] = l[n + 1 + k - 1]
    BY <1>1, <2>1, SubSeqProperties
  <2>3. Len(m) = Len(l) - n
    BY <1>1, <2>2
  <2>4. \A k \in 1 .. Len(l) - n : k \in 1 .. Len(l) - (n + 1) + 1 /\ n + 1 + k - 1 = n + k
    BY <1>1
  <2> QED
    BY <2>2, <2>3, <2>4
<1> HIDE DEF m
<1>3. ASSUME NEW k \in LiveAt(m) PROVE n + k \in LiveAt(l) /\ l[n + k] = m[k] /\ k \in Int
  <2>1. k \in 1 .. Len(l) - n /\ n + k \in 1 .. Len(l)
    BY <1>1, <1>2 DEF LiveAt
  <2> QED
    BY <1>2, <2>1 DEF LiveAt
<1>4. ASSUME NEW k \in LiveAt(l) PROVE \E i \in LiveAt(m) : m[i] = l[k]
  <2>1. k \in 1 .. Len(l) /\ Live(l[k]) /\ ~(k \in 1 .. n)
    BY DEF LiveAt, Taken
  <2>2. k - n \in 1 .. Len(l) - n /\ n + (k - n) = k
    BY <1>1, <2>1
  <2>3. m[k - n] = l[k] /\ k - n \in 1 .. Len(m)
    BY <1>2, <2>2
  <2> QED
    BY <2>1, <2>3 DEF LiveAt
<1>5. Recs(m) \subseteq Recs(l)
  BY <1>3 DEF Recs
<1>6. Recs(l) \subseteq Recs(m)
  BY <1>4 DEF Recs
<1>7. ASSUME Once(l), NEW a \in LiveAt(m), NEW b \in LiveAt(m), m[a].event = m[b].event
      PROVE  a = b
  <2>1. n + a = n + b /\ a \in Int /\ b \in Int
    BY <1>3, <1>7 DEF Once
  <2> QED
    BY <2>1
<1>8. Once(l) => Once(m)
  BY <1>7 DEF Once
<1> QED
  BY <1>5, <1>6, <1>8 DEF m

-----------------------------------------------------------------------------
(* The inductive invariant.                                                *)

\* What is pending in the list of t, and what is posted to r.
In(t) == Recs(list[t])
Posted(r) == {e \in PendingEvents : e.receiver = r}

\* Every event is in one place.
EachOnce ==
  /\ \A t \in Threads : Once(list[t])
  /\ \A t, u \in Threads : \A e \in In(t), f \in In(u) : e.event = f.event => t = u

Numbered ==
  \A t \in Threads : \A e \in In(t) :
    e.receiver \in Objects /\ e.event \in 1 .. lastEvent

Counted ==
  \A r \in Objects : IsFiniteSet(Posted(r)) /\ postedEvents[r] = Cardinality(Posted(r))

\* Thread u is moving r to t.
Moves(u, r, t) ==
  call[u].fn = "moving" /\ call[u].receiver = r /\ call[u].to = t

InPlace ==
  \A t \in Threads : \A e \in In(t) :
    threadData[e.receiver] = t \/ \E u \in Threads : Moves(u, e.receiver, t)

\* An object that a thread posts to or moves is alive; who moves it owns it.
CalledAlive ==
  \A u \in Threads :
    /\ call[u].fn \in {"post", "moving"} =>
         call[u].receiver \in Objects /\ alive[call[u].receiver]
    /\ call[u].fn = "post" => call[u].type \in Types
    /\ call[u].fn = "moving" =>
         call[u].type = Any /\ call[u].data = u /\ threadData[call[u].receiver] = u

\* What a removal or a move looks for is not where it has already looked.
Swept ==
  \A u \in Threads : call[u].fn \in {"removing", "moving"} =>
    \A k \in LiveAt(list[call[u].data]) :
      k <= call[u].i => ~Matches(list[call[u].data][k], call[u].receiver, call[u].type)

\* A removal that compacts has left a gap behind it.
Gap ==
  \A u \in Threads : call[u].fn = "removing" /\ Compacting(call[u].data) =>
    \A k \in call[u].j + 1 .. call[u].i : ~Live(list[call[u].data][k])

OneDeferred ==
  \A t, u \in Threads : \A e \in In(t), f \in In(u) :
    e.receiver = f.receiver /\ e.type = DeferredDelete /\ f.type = DeferredDelete
      => e.event = f.event

\* The destructor of an object to which something is posted is removing it.
Sweeps(t, r) ==
  /\ call[t].fn \in {"remove", "removing"} /\ call[t].receiver = r
  /\ call[t].type = Any /\ call[t].data = t

DeadSwept ==
  \A t \in Threads : \A e \in In(t) : ~alive[e.receiver] => Sweeps(t, e.receiver)

\* An event that is handled is handled once, and not pending.
Delivers(t) == {k \in 1 .. Len(stack[t]) : stack[t][k].at = "deliver"}

HandledOnce ==
  \A t \in Threads :
    /\ \A j, k \in Delivers(t) :
         stack[t][j].event.event = stack[t][k].event.event => j = k
    /\ \A k \in Delivers(t) :
         /\ stack[t][k].fn = "send"
         /\ stack[t][k].event.event <= lastEvent
         /\ \A u \in Threads : \A e \in In(u) : e.event # stack[t][k].event.event

PInv == /\ EachOnce /\ Numbered /\ Counted /\ InPlace /\ CalledAlive /\ Swept /\ Gap
        /\ OneDeferred /\ DeadSwept /\ HandledOnce

Safe == IInv /\ PassedAreTaken /\ PInv

-----------------------------------------------------------------------------
(* What each action does to the sets.                                      *)

OnceAfter == \A v \in Threads : Once(list'[v])

SameEvents == \A v \in Threads : Recs(list'[v]) = In(v)

Added(u, x) ==
  /\ Recs(list'[u]) = In(u) \cup {x}
  /\ \A v \in Threads : v # u => Recs(list'[v]) = In(v)

Removed(u, x) ==
  /\ x \in In(u) /\ Recs(list'[u]) = In(u) \ {x}
  /\ \A v \in Threads : v # u => Recs(list'[v]) = In(v)

Relocated(t, u, x) ==
  /\ t # u /\ x \in In(t)
  /\ Recs(list'[t]) = In(t) \ {x} /\ Recs(list'[u]) = In(u) \cup {x}
  /\ \A v \in Threads : v \notin {t, u} => Recs(list'[v]) = In(v)

\* A step changes one list, to l.
LEMMA OneList ==
  ASSUME Safe, NEW u \in Threads, NEW l, list' = [list EXCEPT ![u] = l], Once(l)
  PROVE  /\ list'[u] = l /\ OnceAfter
         /\ \A v \in Threads : v # u => list'[v] = list[v] /\ Recs(list'[v]) = In(v)
<1>1. list'[u] = l /\ \A v \in Threads : v # u => list'[v] = list[v]
  BY DEF Safe, IInv, Typed
<1> QED
  BY <1>1 DEF OnceAfter, Safe, PInv, EachOnce, In

\* What the proofs use of a list: its type, and each event in it once.
LEMMA ListTypes ==
  ASSUME Safe, NEW t \in Threads
  PROVE  /\ list[t] \in Seq(Entry) /\ Len(list[t]) \in Nat /\ Once(list[t])
         /\ insertionOffset[t] \in Nat
         /\ \A k \in 1 .. Len(list[t]) : list[t][k] \in Entry
         /\ \A k \in LiveAt(list[t]) : Rec(list[t][k]) \in In(t)
  BY OffsetTypes DEF Safe, IInv, PInv, EachOnce, In, Recs

\* A step that leaves the lists alone leaves every event where it is.
LEMMA SameListEvents ==
  ASSUME Safe, list' = list
  PROVE  SameEvents /\ OnceAfter
  BY DEF SameEvents, OnceAfter, In, Safe, PInv, EachOnce

\* An event is taken out of a list.
LEMMA NullEvents ==
  ASSUME Safe, NEW u \in Threads, NEW k \in LiveAt(list[u]), NEW p,
         list' = [list EXCEPT ![u] = [list[u] EXCEPT ![k] = Nulled(p)]]
  PROVE  Removed(u, Rec(list[u][k])) /\ OnceAfter
<1> DEFINE l == [list[u] EXCEPT ![k] = Nulled(p)]
<1>1. /\ Recs(l) = In(u) \ {Rec(list[u][k])} /\ Rec(list[u][k]) \in In(u) /\ Once(l)
  BY ListTypes, NullRecs DEF In
<1>2. list' = [list EXCEPT ![u] = l]
  OBVIOUS
<1> HIDE DEF l
<1> QED
  BY <1>1, <1>2, OneList DEF Removed

\* A new event is posted.
LEMMA PostEvents ==
  ASSUME Safe, NEW t \in Threads, PostAdd(t)
  PROVE  Added(call[t].data, Rec(PostedEntry(t, call[t]))) /\ OnceAfter
<1> DEFINE u == call[t].data
           e == PostedEntry(t, call[t])
<1>1. u \in Threads /\ call[t].priority \in Int
  BY CallTypes DEF Safe, IInv, Call
<1>2. e \in Entry
  BY PostedEntryType DEF Safe, IInv
<1>3. PICK k \in AddPositions(list[u], insertionOffset[u], call[t].priority) :
        list' = [list EXCEPT ![u] = Insert(list[u], k, e)]
  BY DEF PostAdd
<1>4. e.event = lastEvent + 1 /\ lastEvent \in Nat
  BY DEF PostedEntry, Safe, IInv, Typed
<1> HIDE DEF u, e
<1>5. Live(e) /\ \A x \in Recs(list[u]) : x.event # e.event
  <2>1. \A x \in Recs(list[u]) : x.event \in 1 .. lastEvent
    BY <1>1 DEF Safe, PInv, Numbered, In
  <2>2. \A n \in 1 .. lastEvent : n # lastEvent + 1
    BY <1>4
  <2>3. lastEvent + 1 # 0
    BY <1>4
  <2> QED
    BY <1>4, <2>1, <2>2, <2>3 DEF Live
<1>6. k \in 0 .. Len(list[u])
  BY <1>1, <1>3, ListTypes, AddPositionsBounded
<1>7. Recs(Insert(list[u], k, e)) = In(u) \cup {Rec(e)} /\ Once(Insert(list[u], k, e))
  BY <1>1, <1>2, <1>5, <1>6, ListTypes, InsertRecs DEF In
<1>8. Added(u, Rec(e)) /\ OnceAfter
  BY <1>1, <1>3, <1>7, OneList DEF Added
<1> QED
  BY <1>8 DEF u, e

\* A deferred delete that waits is posted again.
LEMMA HoldEvents ==
  ASSUME Safe, NEW t \in Threads, ScanHold(t)
  PROVE  SameEvents /\ OnceAfter
<1>1. CASE Global(Top(t))
  <2> DEFINE e == Current(t)
             l == [list[t] EXCEPT ![At(t)] = Nulled(e.priority)]
  <2>1. e \in Entry /\ e.priority \in Int /\ At(t) \in 1 .. Len(list[t]) /\ Live(e)
    BY CurrentType DEF ScanHold, Entry, Safe, IInv
  <2>2. l \in Seq(Entry)
    BY <2>1, ListTypes, NulledType, ExceptSeq
  <2>3. PICK k \in AddPositions(l, insertionOffset[t], e.priority) :
          list' = [list EXCEPT ![t] = Insert(l, k, e)]
    BY <1>1 DEF ScanHold
  <2>4. At(t) \in LiveAt(list[t]) /\ list[t][At(t)] = e
    BY <2>1 DEF LiveAt, Current
  <2>5. Recs(l) = In(t) \ {Rec(e)} /\ Rec(e) \in In(t) /\ Once(l)
    BY <2>4, ListTypes, NullRecs DEF In
  <2> HIDE DEF l, e
  <2>6. k \in 0 .. Len(l)
    BY <2>1, <2>2, <2>3, ListTypes, AddPositionsBounded
  <2>7. \A x \in Recs(l) : x.event # e.event
    <3>1. ASSUME NEW j \in LiveAt(list[t]), list[t][j].event = e.event PROVE Rec(list[t][j]) = Rec(e)
      BY <2>4, <3>1, ListTypes DEF Once
    <3>2. \A x \in In(t) : x.event = e.event => x = Rec(e)
      BY <3>1 DEF In, Recs, Rec
    <3> QED
      BY <2>5, <3>2
  <2>8. Recs(Insert(l, k, e)) = Recs(l) \cup {Rec(e)} /\ Once(Insert(l, k, e))
    BY <2>1, <2>2, <2>5, <2>6, <2>7, InsertRecs
  <2> QED
    BY <2>3, <2>5, <2>8, OneList DEF SameEvents
<1>2. CASE ~Global(Top(t))
  BY <1>2, SameListEvents DEF ScanHold
<1> QED
  BY <1>1, <1>2

\* sendPostedEvents takes the event it delivers out of its list.
LEMMA DeliverEvents ==
  ASSUME Safe, NEW t \in Threads, ScanDeliver(t)
  PROVE  Removed(t, Rec(Current(t))) /\ OnceAfter
<1>1. At(t) \in LiveAt(list[t]) /\ list[t][At(t)] = Current(t)
  BY CurrentType DEF ScanDeliver, LiveAt, Current, Safe, IInv
<1>2. list' = [list EXCEPT ![t] = [list[t] EXCEPT ![At(t)] = Nulled(Current(t).priority)]]
  BY DEF ScanDeliver, Safe, IInv, Typed
<1> QED
  BY <1>1, <1>2, NullEvents

\* The end of a send erases what has been taken.
LEMMA CleanUpEvents ==
  ASSUME Safe, NEW t \in Threads, NEW waits, CleanUp(t, waits)
  PROVE  SameEvents /\ OnceAfter
<1>1. CASE Global(Top(t))
  <2> DEFINE n == startOffset[t]
             l == SubSeq(list[t], n + 1, Len(list[t]))
  <2>1. list' = [list EXCEPT ![t] = l]
    BY <1>1 DEF CleanUp
  <2>2. n \in 0 .. Len(list[t]) /\ Taken(list[t], n)
    BY TakenBefore DEF Safe
  <2>3. Recs(l) = In(t) /\ Once(l)
    BY <2>2, ListTypes, BackRecs DEF In
  <2> HIDE DEF l
  <2> QED
    BY <2>1, <2>3, OneList DEF SameEvents
<1>2. CASE ~Global(Top(t))
  BY <1>2, SameListEvents DEF CleanUp
<1> QED
  BY <1>1, <1>2

\* removePostedEvents takes the event at which it stands out of the list.
LEMMA MatchEvents ==
  ASSUME Safe, NEW t \in Threads, RemoveMatch(t)
  PROVE  /\ Removed(call[t].data, Rec(list[call[t].data][call[t].i + 1])) /\ OnceAfter
         /\ call[t].data \in Threads /\ call[t].i + 1 \in LiveAt(list[call[t].data])
<1> DEFINE u == call[t].data
           k == call[t].i + 1
<1>1. u \in Threads /\ k \in 1 .. Len(list[u])
  BY RemovingType DEF RemoveMatch, Safe, IInv
<1>2. Live(list[u][k])
  BY DEF RemoveMatch, ToRemove
<1>3. k \in LiveAt(list[u])
  BY <1>1, <1>2 DEF LiveAt
<1>4. list' = [list EXCEPT ![u] = [list[u] EXCEPT ![k] = Nulled(list[u][k].priority)]]
  BY DEF RemoveMatch, Safe, IInv, Typed
<1> HIDE DEF u, k
<1>5. Removed(u, Rec(list[u][k])) /\ OnceAfter
  BY <1>1, <1>3, <1>4, NullEvents
<1> QED
  BY <1>1, <1>3, <1>5 DEF u, k

\* What a removal keeps is moved up, or left in place.
LEMMA KeepEvents ==
  ASSUME Safe, NEW t \in Threads, RemoveKeep(t)
  PROVE  SameEvents /\ OnceAfter
<1> DEFINE u == call[t].data
           i == call[t].i + 1
           j == call[t].j + 1
           l == [list[u] EXCEPT ![i] = list[u][j], ![j] = list[u][i]]
<1>1. u \in Threads /\ i \in 1 .. Len(list[u]) /\ j \in 1 .. Len(list[u])
  BY RemovingType DEF RemoveKeep, Safe, IInv
<1>2. CASE Compacting(u)
  <2>1. list' = [list EXCEPT ![u][i] = list[u][j], ![u][j] = list[u][i]]
    BY <1>2 DEF RemoveKeep
  <2>2. list' = [list EXCEPT ![u] = l]
    BY <1>1, <2>1 DEF Safe, IInv, Typed
  <2>3. Recs(l) = In(u) /\ Once(l)
    BY <1>1, ListTypes, SwapRecs DEF In
  <2> HIDE DEF l, u
  <2> QED
    BY <1>1, <2>2, <2>3, OneList DEF SameEvents
<1>3. CASE ~Compacting(u)
  BY <1>3, SameListEvents DEF RemoveKeep
<1> QED
  BY <1>2, <1>3

\* What is cut off is the gap.
LEMMA CutEvents ==
  ASSUME Safe, NEW t \in Threads, RemoveEnd(t)
  PROVE  SameEvents /\ OnceAfter
<1> DEFINE u == call[t].data
           j == call[t].j
           l == SubSeq(list[u], 1, j)
<1>1. u \in Threads /\ j \in Nat /\ call[t].i \in Nat /\ call[t].fn = "removing"
  BY CallTypes DEF RemoveEnd, Call, Safe, IInv
<1>2. j <= call[t].i /\ call[t].i <= Len(list[u]) /\ ~(call[t].i < Len(list[u]))
  BY <1>1 DEF RemoveEnd, Removing, RemovalInList, Safe, IInv
<1>3. call[t].i = Len(list[u]) /\ j \in 0 .. Len(list[u])
  BY <1>1, <1>2, ListTypes
<1>4. CASE Compacting(u)
  <2>1. list' = [list EXCEPT ![u] = l]
    BY <1>4 DEF RemoveEnd
  <2>2. \A k \in j + 1 .. Len(list[u]) : ~Live(list[u][k])
    BY <1>1, <1>3, <1>4 DEF Gap, Safe, PInv
  <2> HIDE DEF j, u
  <2>3. Recs(l) = In(u) /\ Once(l)
    BY <1>1, <1>3, <2>2, ListTypes, FrontRecs DEF In
  <2> HIDE DEF l
  <2> QED
    BY <1>1, <2>1, <2>3, OneList DEF SameEvents
<1>5. CASE ~Compacting(u)
  BY <1>5, SameListEvents DEF RemoveEnd
<1> QED
  BY <1>4, <1>5

\* Code that deletes an event takes it out of its list.
LEMMA DiscardEvents ==
  ASSUME Safe, NEW t \in Threads, NEW k \in 1 .. Len(list[t]), RemoveEvent(t, k)
  PROVE  Removed(t, Rec(list[t][k])) /\ OnceAfter /\ k \in LiveAt(list[t])
<1>1. k \in LiveAt(list[t])
  BY DEF RemoveEvent, LiveAt
<1>2. list' = [list EXCEPT ![t] = [list[t] EXCEPT ![k] = Nulled(list[t][k].priority)]]
  BY DEF RemoveEvent, Safe, IInv, Typed
<1> QED
  BY <1>1, <1>2, NullEvents

\* The entry a move has come to.
MovedEntry(t) == list[t][call[t].i + 1]
Mine(t) == Live(MovedEntry(t)) /\ MovedEntry(t).receiver = call[t].receiver

\* A step of moveToThread carries the event at which it stands to the
\* list of the new thread, when it is the object's, and changes no other.
LEMMA MoveEvents ==
  ASSUME Safe, NEW t \in Threads, MoveStep(t)
  PROVE  /\ OnceAfter
         /\ IF Mine(t) THEN Relocated(t, call[t].to, Rec(MovedEntry(t))) ELSE SameEvents
         /\ call[t].to \in Threads /\ call[t].to # t
<1> DEFINE k == call[t].i + 1
           e == MovedEntry(t)
           u == call[t].to
           moved == [e EXCEPT !.by = 0]
           l == [list[t] EXCEPT ![k] = Nulled(e.priority)]
<1>1. u \in Threads /\ u # t /\ call[t].i \in Nat
  BY CallTypes DEF Call, CallOf, MoveStep, Moving, Safe, IInv
<1>2. k \in 1 .. Len(list[t])
  BY <1>1, ListTypes DEF MoveStep, Moving
<1>3. e \in Entry /\ e = list[t][k]
  BY <1>2, ListTypes DEF MovedEntry
<1>4. CASE ~Mine(t)
  <2>1. list' = list
    BY <1>4 DEF MoveStep, Mine, MovedEntry
  <2> QED
    BY <1>1, <1>4, <2>1, SameListEvents
<1>5. CASE Mine(t)
  <2>1. moved \in Entry /\ e.priority \in Int /\ Rec(moved) = Rec(e) /\ moved.event = e.event
    BY <1>3 DEF Entry, Rec
  <2>2. PICK n \in AddPositions(list[u], insertionOffset[u], e.priority) :
          list' = [list EXCEPT ![t][k] = Nulled(e.priority), ![u] = Insert(@, n, moved)]
    BY <1>5 DEF MoveStep, Mine, MovedEntry
  <2> DEFINE m == Insert(list[u], n, moved)
  <2>3. list'[t] = l /\ list'[u] = m /\ \A v \in Threads : v \notin {t, u} => list'[v] = list[v]
    <3>1. list \in [Threads -> Seq(Entry)]
      BY DEF Safe, IInv, Typed
    <3> HIDE DEF k, e, u
    <3> QED
      BY <1>1, <2>2, <3>1
  <2>4. k \in LiveAt(list[t])
    BY <1>2, <1>3, <1>5 DEF LiveAt, Mine
  <2>5. Recs(l) = In(t) \ {Rec(e)} /\ Rec(e) \in In(t) /\ Once(l)
    BY <1>3, <2>4, ListTypes, NullRecs DEF In
  <2>6. Live(moved)
    BY <1>5, <2>1 DEF Live, Mine
  <2> HIDE DEF l, moved, e, k, u
  <2>7. \A x \in Recs(list[u]) : x.event # moved.event
    <3>1. Rec(e).event = moved.event
      BY <2>1 DEF Rec
    <3> QED
      BY <1>1, <2>5, <3>1 DEF Safe, PInv, EachOnce, In
  <2>8. n \in 0 .. Len(list[u])
    BY <1>1, <2>1, ListTypes, AddPositionsBounded
  <2>9. Recs(m) = In(u) \cup {Rec(e)} /\ Once(m)
    BY <1>1, <2>1, <2>6, <2>7, <2>8, ListTypes, InsertRecs DEF In
  <2> HIDE DEF m
  <2>10. \A v \in Threads : v \notin {t, u} => Recs(list'[v]) = In(v)
    BY <2>3 DEF In
  <2>11. Relocated(t, u, Rec(e))
    BY <1>1, <2>3, <2>5, <2>9, <2>10 DEF Relocated
  <2>12. OnceAfter
    <3>1. \A v \in Threads : Once(list[v])
      BY DEF Safe, PInv, EachOnce
    <3> QED
      BY <2>3, <2>5, <2>9, <3>1 DEF OnceAfter
  <2> QED
    BY <1>1, <1>5, <2>11, <2>12 DEF u, e
<1> QED
  BY <1>4, <1>5

\* The other actions leave the lists.
CallChanges(t) ==
  \/ PostAdd(t) \/ RemoveMatch(t) \/ RemoveKeep(t) \/ RemoveEnd(t) \/ MoveStep(t)
  \/ \E k \in 1 .. Len(list[t]) : RemoveEvent(t, k)
SendChanges(t) ==
  ScanHold(t) \/ ScanDeliver(t) \/ HandlerThrow(t) \/ SendEnd(t)

\* The other steps of calls leave the lists and the counts alone.
LEMMA OtherCallSteps ==
  ASSUME NEW t \in Threads, CallStepOf(t), ~CallChanges(t)
  PROVE  list' = list /\ postedEvents' = postedEvents /\ lastEvent' = lastEvent
<1> USE DEF queueVars, objectVars, dataVars
<1>1. CASE Post(t)
  BY <1>1 DEF CallChanges, Post, PostBegin, PostFollow, PostCompress, PostWakeUp
<1>2. CASE Remove(t)
  BY <1>2 DEF CallChanges, Remove, RemoveBegin, RemoveStart
<1>3. CASE Move(t)
  BY <1>3 DEF CallChanges, Move, MoveBegin, MoveEnd
<1>4. CASE \E r \in Objects : Destroy(t, r)
  BY <1>4 DEF Destroy
<1> QED
  BY <1>1, <1>2, <1>3, <1>4 DEF CallStepOf

\* So do the other steps of sendPostedEvents and of the loops.
LEMMA OtherSendSteps ==
  ASSUME NEW t \in Threads, Send(t) \/ Loop(t), ~SendChanges(t)
  PROVE  list' = list /\ postedEvents' = postedEvents /\ lastEvent' = lastEvent
<1> USE DEF queueVars, objectVars, dataVars
<1>1. CASE Send(t)
  BY <1>1 DEF SendChanges, Send, SendBegin, SendNothing, SendStart, ScanNull, ScanOther,
              HandlerReturn
<1>2. CASE Loop(t)
  BY <1>2 DEF Loop, LoopBegin, LoopEnd, LoopAwake, LoopSend, LoopCheck, LoopBlock,
         LoopSelect
<1> QED
  BY <1>1, <1>2

-----------------------------------------------------------------------------
(* Who walks along a list is the only one to change it.                    *)

StepOf(t) == CallStepOf(t) \/ Send(t) \/ Loop(t)

\* The calls of the other threads.
LEMMA OtherCalls ==
  ASSUME Safe, NEW t \in Threads, StepOf(t)
  PROVE  \A u \in Threads : u # t => call'[u] = call[u]
<1>1. CASE CallStepOf(t)
  BY <1>1, PostCalls, RemoveCalls, MoveCalls, DestroyCalls DEF CallStepOf, CallKept, Safe, IInv
<1>2. CASE Send(t) \/ Loop(t)
  BY <1>2, SendCalls DEF Safe
<1> QED
  BY <1>1, <1>2 DEF StepOf

\* A list whose mutex a thread holds is changed by no other thread, and no
\* sendPostedEvents of it starts.
LEMMA HeldLists ==
  ASSUME Safe, NEW t \in Threads, StepOf(t), NEW u \in Threads, u # t,
         NEW w \in Threads, Holds(u, w)
  PROVE  list'[w] = list[w] /\ (recursion'[w] = 0 => recursion[w] = 0)
<1>1. ~MutexFree(w) /\ ~InSend(w, "scan") /\ ~Holds(t, w)
  BY MutexHolders DEF Safe, IInv, MutexExclusive
<1>2. recursion[w] \in Nat /\ list \in [Threads -> Seq(Entry)]
  BY SendsFinite DEF Safe, IInv, RecursionCountsSends, Typed
<1>3. CASE CallStepOf(t)
  <2>1. recursion' = recursion
    BY <1>3, CallStepKeeps
  <2>2. ASSUME NEW v \in Threads, v # w, NEW l, list' = [list EXCEPT ![v] = l]
        PROVE  list'[w] = list[w]
    BY <1>2, <2>2
  <2>3. ASSUME PostAdd(t) PROVE list'[w] = list[w]
    <3>1. call[t].data # w /\ call[t].data \in Threads
      BY <1>1, <2>3, CallTypes DEF PostAdd, Safe, IInv, Call
    <3>2. PICK l : list' = [list EXCEPT ![call[t].data] = l]
      BY <1>2, <2>3 DEF PostAdd
    <3> QED
      BY <2>2, <3>1, <3>2
  <2>4. ASSUME RemoveMatch(t) \/ RemoveKeep(t) \/ RemoveEnd(t) PROVE list'[w] = list[w]
    <3>1. call[t].data # w /\ call[t].data \in Threads
      BY <1>1, <2>4, CallTypes
      DEF RemoveMatch, RemoveKeep, RemoveEnd, Removing, Holds, Safe, IInv, Call
    <3>2. list' = list \/ \E l : list' = [list EXCEPT ![call[t].data] = l]
      BY <1>2, <2>4, <3>1 DEF RemoveMatch, RemoveKeep, RemoveEnd
    <3> QED
      BY <2>2, <3>1, <3>2
  <2>5. ASSUME NEW k \in 1 .. Len(list[t]), RemoveEvent(t, k) PROVE list'[w] = list[w]
    <3>1. t # w
      BY <1>1, <2>5 DEF RemoveEvent
    <3>2. list' = [list EXCEPT ![t] = [list[t] EXCEPT ![k] = Nulled(list[t][k].priority)]]
      BY <1>2, <2>5 DEF RemoveEvent
    <3> QED
      BY <2>2, <3>1, <3>2
  <2>6. ASSUME MoveStep(t) PROVE list'[w] = list[w]
    <3>1. call[t].fn = "moving" /\ call[t].data = t
      BY <2>6 DEF MoveStep, Moving, Safe, PInv, CalledAlive
    <3>2. w # t /\ w # call[t].to /\ call[t].to \in Threads
      BY <1>1, <2>6, <3>1, MoveEvents DEF Holds
    <3>3. list' = list \/ \E n, e, m : list' = [list EXCEPT ![t][n] = e, ![call[t].to] = m]
      BY <2>6 DEF MoveStep
    <3>4. ASSUME NEW n, NEW e, NEW m, list' = [list EXCEPT ![t][n] = e, ![call[t].to] = m]
          PROVE  list'[w] = list[w]
      BY <1>2, <3>2, <3>4
    <3> QED
      BY <3>3, <3>4
  <2>7. ~CallChanges(t) => list' = list
    BY <1>3, OtherCallSteps
  <2>8. list'[w] = list[w]
    BY <2>3, <2>4, <2>5, <2>6, <2>7 DEF CallChanges
  <2> QED
    BY <2>1, <2>8
<1>4. CASE (Send(t) \/ Loop(t)) /\ w # t
  BY <1>4, SendLists, LoopLists DEF ListKept, Safe
<1>5. CASE (Send(t) \/ Loop(t)) /\ w = t
  <2>1. CASE Send(t)
    <3>1. \E q \in SendRequests : SendBegin(t, q[1], q[2])
      BY <1>1, <1>5, <2>1 DEF Send, SendNothing, SendStart, ScanNull, ScanOther, ScanHold,
         ScanDeliver, Scanning, HandlerReturn, HandlerThrow, SendEnd
    <3>2. list' = list /\ recursion' = [recursion EXCEPT ![t] = @ + 1]
      BY <3>1 DEF SendBegin
    <3>3. recursion'[t] = recursion[t] + 1
      BY <3>2 DEF Safe, IInv, Typed
    <3> QED
      BY <1>2, <1>5, <3>2, <3>3
  <2>2. CASE Loop(t)
    <3>1. list' = list /\ (recursion' = recursion \/ recursion' = [recursion EXCEPT ![t] = @ + 1])
      BY <2>2 DEF Loop, LoopBegin, LoopEnd, LoopAwake, LoopSend, LoopCheck, LoopBlock,
         LoopSelect, dataVars, queueVars
    <3>2. recursion'[t] = recursion[t] \/ recursion'[t] = recursion[t] + 1
      BY <3>1 DEF Safe, IInv, Typed
    <3> QED
      BY <1>2, <1>5, <3>1, <3>2
  <2> QED
    BY <1>5, <2>1, <2>2
<1> QED
  BY <1>3, <1>4, <1>5 DEF StepOf

\* The walking thread itself: a removal takes an entry, or keeps it.
SweptBy(c, l) ==
  \A k \in LiveAt(l) : k <= c.i => ~Matches(l[k], c.receiver, c.type)
GapBehind(c, l) == \A k \in c.j + 1 .. c.i : ~Live(l[k])

\* A match leaves nothing that the removal asks for behind it.
LEMMA RemoveMatchSwept ==
  ASSUME Safe, NEW t \in Threads, RemoveMatch(t)
  PROVE  /\ call'[t] = [call[t] EXCEPT !.i = @ + 1]
         /\ SweptBy(call'[t], list'[call[t].data])
         /\ Compacting(call[t].data) => GapBehind(call'[t], list'[call[t].data])
<1> DEFINE u == call[t].data
           k == call[t].i + 1
           l == list[u]
           m == list'[u]
<1>1. /\ u \in Threads /\ k \in 1 .. Len(l) /\ call[t].i \in Nat /\ call[t].j \in Nat
      /\ DOMAIN l = 1 .. Len(l)
  BY RemovingType, ListTypes, LenProperties DEF RemoveMatch, Safe, IInv
<1>2. m = [l EXCEPT ![k] = Nulled(l[k].priority)]
  BY <1>1 DEF RemoveMatch, Safe, IInv, Typed
<1>3. call[t] \in Call /\ call[t].fn = "removing"
  BY CallTypes DEF RemoveMatch, Removing, Safe, IInv
<1>4. call'[t] = [call[t] EXCEPT !.i = @ + 1]
  BY DEF RemoveMatch, Safe, IInv, Typed
<1>5. /\ call'[t].i = k /\ call'[t].j = call[t].j
      /\ call'[t].receiver = call[t].receiver /\ call'[t].type = call[t].type
  BY <1>3, <1>4 DEF Call
<1>6. \A n \in 1 .. Len(l) : m[n] = IF n = k THEN Nulled(l[k].priority) ELSE l[n]
  BY <1>1, <1>2
<1>7. Len(m) = Len(l)
  BY <1>1, <1>2, ListTypes, NulledType, ExceptSeq DEF Entry
<1>8. ~Live(m[k])
  BY <1>1, <1>6 DEF Live, Nulled
<1>9. \A n \in LiveAt(l) : n <= call[t].i => ~Matches(l[n], call[t].receiver, call[t].type)
  BY <1>3 DEF Swept, Safe, PInv
<1>10. Compacting(u) => \A n \in call[t].j + 1 .. call[t].i : ~Live(l[n])
  BY <1>3 DEF Gap, Safe, PInv
<1>11. call[t].i = k - 1 /\ call[t].j <= call[t].i
  BY <1>1, <1>3 DEF RemovalInList, Safe, IInv
<1> HIDE DEF k, l, m, u
<1>12. ASSUME NEW n \in LiveAt(m), n <= k
       PROVE  ~Matches(m[n], call[t].receiver, call[t].type)
  <2>1. n # k /\ n \in 1 .. Len(l) /\ Live(m[n]) /\ m[n] = l[n]
    BY <1>6, <1>7, <1>8 DEF LiveAt
  <2>2. n \in LiveAt(l) /\ n <= call[t].i
    BY <1>1, <1>11, <1>12, <2>1 DEF LiveAt
  <2> QED
    BY <1>9, <2>1, <2>2
<1>13. ASSUME Compacting(u), NEW n \in call[t].j + 1 .. k PROVE ~Live(m[n])
  <2>1. CASE n = k
    BY <1>8, <2>1
  <2>2. CASE n # k
    <3>1. n \in call[t].j + 1 .. call[t].i /\ n \in 1 .. Len(l)
      BY <1>1, <1>11, <1>13, <2>2
    <3> QED
      BY <1>6, <1>10, <1>13, <2>2, <3>1
  <2> QED
    BY <2>1, <2>2
<1>14. SweptBy(call'[t], m) /\ (Compacting(u) => GapBehind(call'[t], m))
  BY <1>5, <1>12, <1>13 DEF SweptBy, GapBehind
<1> QED
  BY <1>4, <1>14 DEF m, u

\* Nor does an entry that is kept, moved down or not.
LEMMA RemoveKeepSwept ==
  ASSUME Safe, NEW t \in Threads, RemoveKeep(t)
  PROVE  /\ call'[t] \in {[call[t] EXCEPT !.i = @ + 1],
                          [call[t] EXCEPT !.i = @ + 1, !.j = @ + 1]}
         /\ SweptBy(call'[t], list'[call[t].data])
         /\ Compacting(call[t].data) => GapBehind(call'[t], list'[call[t].data])
<1> DEFINE u == call[t].data
           i == call[t].i + 1
           j == call[t].j + 1
           l == list[u]
           m == list'[u]
<1>1. /\ u \in Threads /\ i \in 1 .. Len(l) /\ j \in 1 .. Len(l)
      /\ call[t].i \in Nat /\ call[t].j \in Nat
      /\ DOMAIN l = 1 .. Len(l)
  BY RemovingType, ListTypes, LenProperties DEF RemoveKeep, Safe, IInv
<1>3. call[t] \in Call /\ call[t].fn = "removing" /\ call \in [Threads -> Call]
  BY CallTypes DEF RemoveKeep, Removing, Safe, IInv, Typed
<1>4. call[t].i = i - 1 /\ call[t].j = j - 1 /\ j <= i
  BY <1>1, <1>3 DEF RemovalInList, Safe, IInv
<1>5. Live(l[i]) => ~Matches(l[i], call[t].receiver, call[t].type)
  BY DEF RemoveKeep, ToRemove
<1>9. \A n \in LiveAt(l) : n <= call[t].i => ~Matches(l[n], call[t].receiver, call[t].type)
  BY <1>3 DEF Swept, Safe, PInv
<1>10. Compacting(u) => \A n \in call[t].j + 1 .. call[t].i : ~Live(l[n])
  BY <1>3 DEF Gap, Safe, PInv
<1>11. CASE ~Compacting(u)
  <2>1. m = l /\ call' = [call EXCEPT ![t].i = @ + 1]
    BY <1>11 DEF RemoveKeep
  <2>2. /\ call'[t] = [call[t] EXCEPT !.i = @ + 1]
        /\ call'[t].i = i
        /\ call'[t].receiver = call[t].receiver /\ call'[t].type = call[t].type
    BY <1>1, <1>3, <2>1 DEF Call
  <2> HIDE DEF l, m, i, j, u
  <2>3. ASSUME NEW n \in LiveAt(l), n <= i PROVE ~Matches(l[n], call[t].receiver, call[t].type)
    <3>1. CASE n = i
      BY <1>5, <3>1 DEF LiveAt
    <3>2. CASE n # i
      <4>1. n <= call[t].i
        BY <1>1, <1>4, <2>3, <3>2 DEF LiveAt
      <4> QED
        BY <1>9, <4>1
    <3> QED
      BY <3>1, <3>2
  <2>4. SweptBy(call'[t], m)
    BY <2>1, <2>2, <2>3 DEF SweptBy
  <2> QED
    BY <1>11, <2>2, <2>4 DEF m, u
<1>12. CASE Compacting(u)
  <2>1. /\ list' = [list EXCEPT ![u][i] = l[j], ![u][j] = l[i]]
        /\ call' = [call EXCEPT ![t].i = @ + 1, ![t].j = @ + 1]
    BY <1>12 DEF RemoveKeep
  <2>2. /\ call'[t] = [call[t] EXCEPT !.i = @ + 1, !.j = @ + 1]
        /\ call'[t].i = i /\ call'[t].j = j
        /\ call'[t].receiver = call[t].receiver /\ call'[t].type = call[t].type
    BY <1>3, <2>1 DEF Call
  <2>3. m = [l EXCEPT ![i] = l[j], ![j] = l[i]]
    BY <1>1, <2>1 DEF Safe, IInv, Typed
  <2>4. Len(m) = Len(l)
    <3>1. l \in Seq(Entry) /\ l[i] \in Entry /\ l[j] \in Entry
      BY <1>1, ListTypes
    <3> HIDE DEF l
    <3> QED
      BY <1>1, <2>3, <3>1, ExceptSeq
  <2> HIDE DEF l, m, i, j, u
  <2>5. \A n \in 1 .. Len(l) : m[n] = IF n = j THEN l[i] ELSE IF n = i THEN l[j] ELSE l[n]
    BY <1>1, <2>3
  <2>6. ASSUME NEW n \in LiveAt(m), n <= i PROVE ~Matches(m[n], call[t].receiver, call[t].type)
    <3>1. n \in 1 .. Len(l) /\ Live(m[n])
      BY <2>4 DEF LiveAt
    <3>2. CASE n = j
      BY <1>5, <2>5, <3>1, <3>2
    <3>3. CASE n = i /\ n # j
      <4>1. m[n] = l[j] /\ j <= call[t].i
        BY <1>1, <1>4, <2>5, <3>1, <3>3
      <4>2. j \in LiveAt(l)
        BY <1>1, <3>1, <4>1 DEF LiveAt
      <4> QED
        BY <1>9, <4>1, <4>2
    <3>4. CASE n # i /\ n # j
      <4>1. m[n] = l[n] /\ n <= call[t].i
        BY <1>1, <1>4, <2>5, <2>6, <3>1, <3>4
      <4>2. n \in LiveAt(l)
        BY <3>1, <4>1 DEF LiveAt
      <4> QED
        BY <1>9, <4>1, <4>2
    <3> QED
      BY <3>2, <3>3, <3>4
  <2>7. ASSUME NEW n \in j + 1 .. i PROVE ~Live(m[n])
    <3>1. n \in 1 .. Len(l) /\ n # j
      BY <1>1, <2>7
    <3>2. CASE n = i
      <4>1. j \in call[t].j + 1 .. call[t].i
        BY <1>1, <1>4, <2>7, <3>2
      <4>2. m[n] = l[j]
        BY <2>5, <3>1, <3>2
      <4> QED
        BY <1>10, <1>12, <4>1, <4>2
    <3>3. CASE n # i
      <4>1. n \in call[t].j + 1 .. call[t].i
        BY <1>1, <1>4, <2>7, <3>3
      <4>2. m[n] = l[n]
        BY <2>5, <3>1, <3>3
      <4> QED
        BY <1>10, <1>12, <4>1, <4>2
    <3> QED
      BY <3>2, <3>3
  <2>8. SweptBy(call'[t], m) /\ GapBehind(call'[t], m)
    BY <2>2, <2>6, <2>7 DEF SweptBy, GapBehind
  <2> QED
    BY <2>2, <2>8 DEF m, u
<1> QED
  BY <1>11, <1>12


-----------------------------------------------------------------------------
(* A step leaves the sets as they are, or adds the event that is posted,   *)
(* or takes one out and discounts it, or moves one.                        *)

Keeps == SameEvents /\ UNCHANGED <<postedEvents, lastEvent>>

PostedRec(t) == Rec(PostedEntry(t, call[t]))
Adds(t) ==
  /\ PostAdd(t) /\ Added(call[t].data, PostedRec(t)) /\ lastEvent' = lastEvent + 1
  /\ postedEvents' = [postedEvents EXCEPT ![call[t].receiver] = @ + 1]

Takes(u, x) ==
  Removed(u, x) /\ postedEvents' = Uncounted(x.receiver) /\ lastEvent' = lastEvent

Carries(t) ==
  /\ MoveStep(t) /\ Mine(t) /\ Relocated(t, call[t].to, Rec(MovedEntry(t)))
  /\ UNCHANGED <<postedEvents, lastEvent>>

\* Each step changes the lists, the counts and lastEvent together in one
\* of these ways.
LEMMA StepKinds ==
  ASSUME Safe, NEW t \in Threads, StepOf(t)
  PROVE  /\ OnceAfter
         /\ \/ Keeps \/ Adds(t) \/ Carries(t)
            \/ \E u \in Threads : \E x \in In(u) : Takes(u, x)
<1> USE DEF objectVars
<1>1. CASE PostAdd(t)
  <2>1. Adds(t)
    BY <1>1, PostEvents DEF PostAdd, Adds, PostedRec
  <2> QED
    BY <1>1, <2>1, PostEvents
<1>2. CASE RemoveMatch(t)
  <2> DEFINE u == call[t].data
             e == list[u][call[t].i + 1]
  <2>1. u \in Threads /\ Removed(u, Rec(e)) /\ OnceAfter
    BY <1>2, MatchEvents
  <2>2. postedEvents' = Uncounted(Rec(e).receiver) /\ lastEvent' = lastEvent
    BY <1>2 DEF RemoveMatch, Rec
  <2> HIDE DEF u, e
  <2> QED
    BY <2>1, <2>2 DEF Takes, Removed
<1>3. CASE RemoveKeep(t) \/ RemoveEnd(t)
  BY <1>3, KeepEvents, CutEvents DEF RemoveKeep, RemoveEnd, Keeps
<1>4. ASSUME NEW k \in 1 .. Len(list[t]), RemoveEvent(t, k)
      PROVE  OnceAfter /\ \E x \in In(t) : Takes(t, x)
  <2> DEFINE e == list[t][k]
  <2>1. Removed(t, Rec(e)) /\ OnceAfter
    BY <1>4, DiscardEvents
  <2>2. postedEvents' = Uncounted(Rec(e).receiver) /\ lastEvent' = lastEvent
    BY <1>4 DEF RemoveEvent, Rec
  <2> HIDE DEF e
  <2> QED
    BY <2>1, <2>2 DEF Takes, Removed
<1>5. CASE MoveStep(t)
  <2>1. UNCHANGED <<postedEvents, lastEvent>>
    BY <1>5 DEF MoveStep
  <2> QED
    BY <1>5, <2>1, MoveEvents DEF Carries, Keeps
<1>6. CASE CallStepOf(t) /\ ~CallChanges(t)
  BY <1>6, OtherCallSteps, SameListEvents DEF Keeps
<1>7. CASE ScanDeliver(t)
  <2> DEFINE e == Current(t)
  <2>1. Removed(t, Rec(e)) /\ OnceAfter
    BY <1>7, DeliverEvents
  <2>2. postedEvents' = Uncounted(Rec(e).receiver) /\ lastEvent' = lastEvent
    BY <1>7 DEF ScanDeliver, Rec
  <2> HIDE DEF e
  <2> QED
    BY <2>1, <2>2 DEF Takes, Removed
<1>8. CASE ScanHold(t)
  BY <1>8, HoldEvents DEF ScanHold, Keeps
<1>9. CASE HandlerThrow(t) \/ SendEnd(t)
  <2>1. \E waits : CleanUp(t, waits)
    BY <1>9 DEF HandlerThrow, SendEnd
  <2> QED
    BY <1>9, <2>1, CleanUpEvents DEF HandlerThrow, SendEnd, Keeps
<1>10. CASE (Send(t) \/ Loop(t)) /\ ~SendChanges(t)
  BY <1>10, OtherSendSteps, SameListEvents DEF Keeps
<1> QED
  BY <1>1, <1>2, <1>3, <1>4, <1>5, <1>6, <1>7, <1>8, <1>9, <1>10
  DEF StepOf, CallChanges, SendChanges

\* The receiver of an event that is posted or moved.
LEMMA PostedTo ==
  ASSUME Safe, NEW t \in Threads, PostAdd(t)
  PROVE  /\ call[t].data \in Threads /\ call[t].receiver \in Objects
         /\ PostedRec(t).receiver = call[t].receiver
         /\ PostedRec(t).event = lastEvent + 1 /\ lastEvent \in Nat
         /\ PostedRec(t).type = call[t].type
         /\ alive[call[t].receiver] /\ threadData[call[t].receiver] = call[t].data
         /\ PostedRec(t) \notin PendingEvents
         /\ \A u \in Threads : \A e \in In(u) : e.event # lastEvent + 1
<1>1. call[t].data \in Threads /\ call[t].fn = "post"
  BY CallTypes DEF PostAdd, Safe, IInv, Call
<1>2. call[t].receiver \in Objects /\ alive[call[t].receiver]
  BY <1>1 DEF Safe, PInv, CalledAlive
<1>3. /\ PostedRec(t).receiver = call[t].receiver /\ PostedRec(t).event = lastEvent + 1
      /\ PostedRec(t).type = call[t].type /\ lastEvent \in Nat
  BY DEF PostedRec, Rec, PostedEntry, Safe, IInv, Typed
<1>4. \A u \in Threads : \A e \in In(u) : e.event # lastEvent + 1
  <2>1. \A u \in Threads : \A e \in In(u) : e.event \in 1 .. lastEvent
    BY DEF Safe, PInv, Numbered
  <2>2. \A n \in 1 .. lastEvent : n # lastEvent + 1
    BY <1>3
  <2> QED
    BY <2>1, <2>2
<1>5. PendingEvents = UNION {In(u) : u \in Threads}
  BY DEF PendingEvents, In, Recs, Rec, LiveAt, LiveIn
<1>6. PostedRec(t) \notin PendingEvents
  BY <1>3, <1>4, <1>5
<1> QED
  BY <1>1, <1>2, <1>3, <1>4, <1>6 DEF PostAdd, Reached

\* What is pending after a step.
LEMMA PendingAfter ==
  ASSUME Safe, NEW t \in Threads, StepOf(t)
  PROVE  /\ Keeps \/ Carries(t) => PendingEvents' = PendingEvents
         /\ Adds(t) => PendingEvents' = PendingEvents \cup {PostedRec(t)}
         /\ \A u \in Threads : \A x \in In(u) : Takes(u, x) =>
              x \in PendingEvents /\ PendingEvents' = PendingEvents \ {x}
<1>1. PendingEvents = UNION {In(u) : u \in Threads}
  BY DEF PendingEvents, In, Recs, Rec, LiveAt, LiveIn
<1>2. PendingEvents' = UNION {Recs(list'[u]) : u \in Threads}
  BY DEF PendingEvents, Recs, Rec, LiveAt, LiveIn
<1>3. Keeps => PendingEvents' = PendingEvents
  BY <1>1, <1>2 DEF Keeps, SameEvents
<1>4. ASSUME Carries(t) PROVE PendingEvents' = PendingEvents
  <2>1. call[t].to \in Threads
    BY <1>4, MoveEvents DEF Carries
  <2>2. \A x : x \in PendingEvents' <=> x \in PendingEvents
    BY <1>1, <1>2, <1>4, <2>1 DEF Carries, Relocated
  <2> QED
    BY <2>2
<1>5. ASSUME Adds(t) PROVE PendingEvents' = PendingEvents \cup {PostedRec(t)}
  <2>1. call[t].data \in Threads
    BY <1>5, PostedTo DEF Adds
  <2>2. \A x : x \in PendingEvents' <=> x \in PendingEvents \cup {PostedRec(t)}
    BY <1>1, <1>2, <1>5, <2>1 DEF Adds, Added
  <2> QED
    BY <2>2
<1>6. ASSUME NEW u \in Threads, NEW x \in In(u), Takes(u, x)
      PROVE  x \in PendingEvents /\ PendingEvents' = PendingEvents \ {x}
  <2>1. \A v \in Threads : v # u => x \notin In(v)
    BY DEF Safe, PInv, EachOnce
  <2>2. \A y : y \in PendingEvents' <=> y \in PendingEvents \ {x}
    BY <1>1, <1>2, <1>6, <2>1 DEF Takes, Removed
  <2> QED
    BY <1>1, <2>2
<1> QED
  BY <1>3, <1>4, <1>5, <1>6

\* Every event stays in one place, with a number of its own.
LEMMA EachOnceStep ==
  ASSUME Safe, NEW t \in Threads, StepOf(t)
  PROVE  EachOnce' /\ Numbered'
<1>0. /\ \A u \in Threads : \A e \in In(u) :
           e.receiver \in Objects /\ e.event \in 1 .. lastEvent
      /\ \A u, v \in Threads : \A e \in In(u), f \in In(v) : e.event = f.event => u = v
      /\ lastEvent \in Nat
  BY DEF Safe, PInv, EachOnce, Numbered, IInv, Typed
<1>1. OnceAfter
  BY StepKinds
<1> DEFINE N(u) == Recs(list'[u])
<1>2. SUFFICES /\ \A u, v \in Threads : \A e \in N(u), f \in N(v) :
                    e.event = f.event => u = v
               /\ \A u \in Threads : \A e \in N(u) :
                    e.receiver \in Objects /\ e.event \in 1 .. lastEvent'
  BY <1>1 DEF EachOnce, Numbered, In, OnceAfter
<1>3. CASE Keeps
  BY <1>0, <1>3 DEF Keeps, SameEvents
<1>4. CASE Adds(t)
  <2> DEFINE w == call[t].data
             x == PostedRec(t)
  <2>1. /\ w \in Threads /\ x.receiver \in Objects /\ x.event = lastEvent + 1
        /\ \A u \in Threads : \A e \in In(u) : e.event # lastEvent + 1
        /\ lastEvent' = lastEvent + 1
    BY <1>4, PostedTo DEF Adds
  <2>2. N(w) = In(w) \cup {x} /\ \A v \in Threads : v # w => N(v) = In(v)
    BY <1>4 DEF Adds, Added
  <2>3. lastEvent + 1 \in 1 .. lastEvent' /\ \A n \in 1 .. lastEvent : n \in 1 .. lastEvent'
    BY <1>0, <2>1
  <2> HIDE DEF w, x, N
  <2>4. \A u \in Threads : \A e \in N(u) : e \in In(u) \/ (e = x /\ u = w)
    BY <2>1, <2>2
  <2>5. \A u \in Threads : \A e \in N(u) :
          e.receiver \in Objects /\ e.event \in 1 .. lastEvent'
    BY <1>0, <2>1, <2>3, <2>4
  <2>6. \A u, v \in Threads : \A e \in N(u), f \in N(v) : e.event = f.event => u = v
    BY <1>0, <2>1, <2>4
  <2> QED
    BY <2>5, <2>6
<1>5. CASE Carries(t)
  <2> DEFINE w == call[t].to
             x == Rec(MovedEntry(t))
  <2>1. w \in Threads
    BY <1>5, MoveEvents DEF Carries
  <2>2. /\ x \in In(t) /\ N(t) = In(t) \ {x} /\ N(w) = In(w) \cup {x} /\ w # t
        /\ \A v \in Threads : v \notin {t, w} => N(v) = In(v)
        /\ lastEvent' = lastEvent
    BY <1>5 DEF Carries, Relocated
  <2> HIDE DEF w, x, N
  <2>3. ASSUME NEW f \in In(t), f # x PROVE f.event # x.event
    <3>1. PICK j \in LiveAt(list[t]), k \in LiveAt(list[t]) :
            f = Rec(list[t][j]) /\ x = Rec(list[t][k])
      BY <2>2, <2>3 DEF In, Recs
    <3>2. f.event = list[t][j].event /\ x.event = list[t][k].event
      BY <3>1 DEF Rec
    <3> QED
      BY <2>3, <3>1, <3>2, ListTypes DEF Once
  <2>4. ASSUME NEW u \in Threads, NEW e \in N(u)
        PROVE  (e \in In(u) /\ e.event # x.event) \/ (e = x /\ u = w)
    <3>1. e \in In(u) \/ (e = x /\ u = w)
      BY <2>1, <2>2, <2>4
    <3>2. e \in In(u) /\ u # t => e.event # x.event
      BY <1>0, <2>2, <2>4
    <3>3. u = t => e.event # x.event
      BY <2>2, <2>3, <2>4
    <3> QED
      BY <3>1, <3>2, <3>3
  <2>5. \A u \in Threads : \A e \in N(u) :
          e.receiver \in Objects /\ e.event \in 1 .. lastEvent'
    BY <1>0, <2>2, <2>4
  <2>6. \A u, v \in Threads : \A e \in N(u), f \in N(v) : e.event = f.event => u = v
    BY <1>0, <2>4
  <2> QED
    BY <2>5, <2>6
<1>6. ASSUME NEW w \in Threads, NEW x \in In(w), Takes(w, x)
      PROVE  /\ \A u, v \in Threads : \A e \in N(u), f \in N(v) :
                  e.event = f.event => u = v
             /\ \A u \in Threads : \A e \in N(u) :
                  e.receiver \in Objects /\ e.event \in 1 .. lastEvent'
  <2>1. \A u \in Threads : N(u) \subseteq In(u)
    BY <1>6 DEF Takes, Removed
  <2>2. lastEvent' = lastEvent
    BY <1>6 DEF Takes
  <2> HIDE DEF N
  <2> QED
    BY <1>0, <2>1, <2>2
<1> HIDE DEF N
<1> QED
  BY <1>3, <1>4, <1>5, <1>6, StepKinds

\* The counter follows what is posted.
LEMMA CountedStep ==
  ASSUME Safe, NEW t \in Threads, StepOf(t)
  PROVE  Counted'
<1>0. SUFFICES ASSUME NEW r \in Objects
               PROVE  /\ IsFiniteSet(Posted(r)')
                      /\ postedEvents'[r] = Cardinality(Posted(r)')
  BY DEF Counted
<1>1. /\ IsFiniteSet(Posted(r)) /\ postedEvents[r] = Cardinality(Posted(r))
      /\ postedEvents \in [Objects -> Int] /\ Cardinality(Posted(r)) \in Nat
  BY FS_CardinalityType DEF Safe, PInv, Counted, IInv, Typed
<1>2. Posted(r) = {e \in PendingEvents : e.receiver = r}
  BY DEF Posted
<1>3. Posted(r)' = {e \in PendingEvents' : e.receiver = r}
  BY DEF Posted
<1>4. CASE Keeps \/ Carries(t)
  <2>1. Posted(r)' = Posted(r)
    BY <1>2, <1>3, <1>4, PendingAfter
  <2>2. postedEvents' = postedEvents
    BY <1>4 DEF Keeps, Carries
  <2> QED
    BY <1>1, <2>1, <2>2
<1>5. CASE Adds(t)
  <2>1. PostedRec(t).receiver = call[t].receiver /\ PostedRec(t) \notin PendingEvents
        /\ postedEvents' = [postedEvents EXCEPT ![call[t].receiver] = @ + 1]
        /\ PendingEvents' = PendingEvents \cup {PostedRec(t)}
        /\ call[t].receiver \in Objects
    BY <1>5, PostedTo, PendingAfter DEF Adds
  <2>2. CASE call[t].receiver = r
    <3>1. Posted(r)' = Posted(r) \cup {PostedRec(t)} /\ PostedRec(t) \notin Posted(r)
      BY <1>2, <1>3, <2>1, <2>2
    <3>2. IsFiniteSet(Posted(r)') /\ Cardinality(Posted(r)') = Cardinality(Posted(r)) + 1
      BY <1>1, <3>1, FS_AddElement
    <3>3. postedEvents'[r] = postedEvents[r] + 1
      BY <1>1, <2>1, <2>2
    <3> QED
      BY <1>1, <3>2, <3>3
  <2>3. CASE call[t].receiver # r
    <3>1. Posted(r)' = Posted(r)
      BY <1>2, <1>3, <2>1, <2>3
    <3>2. postedEvents'[r] = postedEvents[r]
      BY <1>1, <2>1, <2>3
    <3> QED
      BY <1>1, <3>1, <3>2
  <2> QED
    BY <2>2, <2>3
<1>6. ASSUME NEW u \in Threads, NEW x \in In(u), Takes(u, x)
      PROVE  IsFiniteSet(Posted(r)') /\ postedEvents'[r] = Cardinality(Posted(r)')
  <2>1. /\ x \in PendingEvents /\ PendingEvents' = PendingEvents \ {x}
        /\ postedEvents' = [postedEvents EXCEPT ![x.receiver] = @ - 1]
        /\ x.receiver \in Objects
    BY <1>6, PendingAfter DEF Takes, Uncounted, Safe, PInv, Numbered
  <2>2. CASE x.receiver = r
    <3>1. Posted(r)' = Posted(r) \ {x} /\ x \in Posted(r)
      BY <1>2, <1>3, <2>1, <2>2
    <3>2. IsFiniteSet(Posted(r)') /\ Cardinality(Posted(r)') = Cardinality(Posted(r)) - 1
      BY <1>1, <3>1, FS_RemoveElement
    <3>3. postedEvents'[r] = postedEvents[r] - 1
      BY <1>1, <2>1, <2>2
    <3> QED
      BY <1>1, <3>2, <3>3
  <2>3. CASE x.receiver # r
    <3>1. Posted(r)' = Posted(r)
      BY <1>2, <1>3, <2>1, <2>3
    <3>2. postedEvents'[r] = postedEvents[r]
      BY <1>1, <2>1, <2>3
    <3> QED
      BY <1>1, <3>1, <3>2
  <2> QED
    BY <2>2, <2>3
<1> QED
  BY <1>4, <1>5, <1>6, StepKinds

-----------------------------------------------------------------------------
(* Where the calls of the threads stand after a step.                      *)

\* Only a destructor kills, and only the end of a move gives away.
LEMMA ObjectsKept ==
  ASSUME NEW t \in Threads, StepOf(t)
  PROVE  /\ alive' = alive \/ \E r \in Objects : Destroy(t, r)
         /\ threadData' = threadData \/ MoveEnd(t)
<1> USE DEF queueVars, objectVars, dataVars
<1>1. CASE Post(t)
  BY <1>1 DEF Post, PostBegin, PostFollow, PostCompress, PostAdd, PostWakeUp
<1>2. CASE Remove(t)
  BY <1>2 DEF Remove, RemoveBegin, RemoveStart, RemoveMatch, RemoveKeep, RemoveEnd, RemoveEvent
<1>3. CASE Move(t)
  BY <1>3 DEF Move, MoveBegin, MoveStep, MoveEnd
<1>4. CASE \E r \in Objects : Destroy(t, r)
  BY <1>4 DEF Destroy
<1>5. CASE Send(t)
  BY <1>5 DEF Send, SendBegin, SendNothing, SendStart, ScanNull, ScanOther, ScanHold,
              ScanDeliver, HandlerReturn, HandlerThrow, SendEnd
<1>6. CASE Loop(t)
  BY <1>6 DEF Loop, LoopBegin, LoopEnd, LoopAwake, LoopSend, LoopCheck, LoopBlock,
         LoopSelect
<1> QED
  BY <1>1, <1>2, <1>3, <1>4, <1>5, <1>6 DEF StepOf, CallStepOf

\* What a thread that posts or moves has looked up before.
LEMMA CallsLookUp ==
  ASSUME Safe, NEW t \in Threads, StepOf(t)
  PROVE  /\ call'[t].fn \in {"post", "moving"} =>
              /\ call'[t].receiver \in Objects /\ alive[call'[t].receiver]
              /\ alive' = alive
         /\ call'[t].fn = "post" => call'[t].type \in Types
         /\ call'[t].fn = "moving" =>
              /\ call'[t].type = Any /\ call'[t].data = t
              /\ threadData[call'[t].receiver] = t /\ threadData' = threadData
<1> DEFINE c == call'[t]
           Goal == /\ c.fn \in {"post", "moving"} => c.receiver \in Objects /\ alive[c.receiver]
                   /\ c.fn = "post" => c.type \in Types
                   /\ c.fn = "moving" =>
                        /\ c.type = Any /\ c.data = t /\ threadData[c.receiver] = t
<1>0. /\ call \in [Threads -> Call] /\ call[t] \in Call
      /\ call[t].fn \in {"post", "moving"} =>
           call[t].receiver \in Objects /\ alive[call[t].receiver]
      /\ call[t].fn = "post" => call[t].type \in Types
      /\ call[t].fn = "moving" =>
           call[t].type = Any /\ call[t].data = t /\ threadData[call[t].receiver] = t
  BY CallTypes DEF Safe, IInv, PInv, CalledAlive, Typed
<1>1. CASE Post(t)
  <2>1. ASSUME NEW r \in Objects, NEW p, NEW ty \in Types, PostBegin(t, r, ty, p)
        PROVE  c.fn = "post" /\ c.receiver = r /\ alive[r] /\ c.type = ty
    BY <1>0, <2>1 DEF PostBegin, Idle
  <2>2. ASSUME PostFollow(t)
        PROVE  /\ c.fn = "post" /\ c.receiver = call[t].receiver /\ c.type = call[t].type
               /\ call[t].fn = "post"
    BY <1>0, <2>2 DEF PostFollow, Call
  <2>3. ASSUME PostCompress(t) \/ PostWakeUp(t) PROVE c.fn = "none"
    BY <1>0, <2>3 DEF PostCompress, PostWakeUp, Idle
  <2>4. ASSUME PostAdd(t) PROVE c.fn = "wake"
    <3>1. \E w : c = [Idle(t) EXCEPT !.fn = "wake", !.data = w]
      BY <1>0, <2>4 DEF PostAdd
    <3> QED
      BY <3>1 DEF Idle
  <2>5. alive' = alive
    BY <1>1 DEF Post, PostBegin, PostFollow, PostCompress, PostAdd, PostWakeUp, dataVars, objectVars
  <2>6. c.fn # "moving"
    BY <1>1, PostCalls DEF Safe, IInv
  <2> QED
    BY <1>0, <1>1, <2>1, <2>2, <2>3, <2>4, <2>5, <2>6 DEF Post
<1>2. CASE Remove(t)
  <2>1. c.fn \notin {"post", "moving"}
    <3>1. ASSUME NEW r, NEW ty, RemoveBegin(t, r, ty) PROVE c.fn = "remove"
      BY <1>0, <3>1 DEF RemoveBegin, RemoveCall, Idle
    <3>2. ASSUME RemoveStart(t) PROVE c.fn \in {"none", "removing"}
      BY <1>0, <3>2 DEF RemoveStart, Idle, Call
    <3>3. ASSUME RemoveMatch(t) \/ RemoveKeep(t) PROVE c.fn = "removing"
      BY <1>0, <3>3 DEF RemoveMatch, RemoveKeep, Removing, Call
    <3>4. ASSUME RemoveEnd(t) PROVE c.fn = "none"
      BY <1>0, <3>4 DEF RemoveEnd, Idle
    <3>5. ASSUME NEW k, RemoveEvent(t, k) PROVE c.fn = "none"
      BY <3>5 DEF RemoveEvent, UserCode
    <3> QED
      BY <1>2, <3>1, <3>2, <3>3, <3>4, <3>5 DEF Remove
  <2> QED
    BY <2>1
<1>3. CASE Move(t)
  <2>1. ASSUME NEW r \in Objects, NEW u, MoveBegin(t, r, u)
        PROVE  /\ c.fn = "moving" /\ c.receiver = r /\ alive[r] /\ threadData[r] = t
               /\ c.type = Any /\ c.data = t /\ call[t].fn = "none" /\ alive' = alive
               /\ threadData' = threadData
    BY <1>0, <2>1 DEF MoveBegin, Idle, UserCode, dataVars, objectVars
  <2>2. ASSUME MoveStep(t)
        PROVE  /\ c.fn = "moving" /\ call[t].fn = "moving" /\ c.receiver = call[t].receiver
               /\ c.type = call[t].type /\ c.data = call[t].data
    BY <1>0, <2>2 DEF MoveStep, Moving, Call
  <2>3. ASSUME MoveEnd(t) PROVE c.fn = "none"
    BY <1>0, <2>3 DEF MoveEnd, Idle
  <2>4. Goal
    BY <1>0, <1>3, <2>1, <2>2, <2>3 DEF Move
  <2>5. alive' = alive /\ (c.fn = "moving" => threadData' = threadData)
    BY <1>3, <2>3 DEF Move, MoveBegin, MoveStep, MoveEnd, dataVars, objectVars
  <2> QED
    BY <2>4, <2>5
<1>4. CASE \E r \in Objects : Destroy(t, r)
  <2>1. call[t].fn = "none" /\ (call' = call \/ \E r : call' = [call EXCEPT ![t] = RemoveCall(t, r, Any)])
    BY <1>4 DEF Destroy
  <2>2. ASSUME NEW r, call' = [call EXCEPT ![t] = RemoveCall(t, r, Any)]
        PROVE  c.fn = "remove"
    <3>1. c = RemoveCall(t, r, Any)
      BY <1>0, <2>2
    <3> QED
      BY <3>1 DEF RemoveCall, Idle
  <2>3. c.fn \in {"none", "remove"}
    BY <2>1, <2>2
  <2> QED
    BY <2>3
<1>5. CASE Send(t) \/ Loop(t)
  BY <1>5, SendCalls DEF Safe
<1> QED
  BY <1>1, <1>2, <1>3, <1>4, <1>5 DEF StepOf, CallStepOf

\* A step keeps that the object of a call is alive.
LEMMA CalledAliveStep ==
  ASSUME Safe, NEW t \in Threads, StepOf(t)
  PROVE  CalledAlive'
<1> SUFFICES ASSUME NEW u \in Threads
             PROVE  /\ call'[u].fn \in {"post", "moving"} =>
                         call'[u].receiver \in Objects /\ alive'[call'[u].receiver]
                    /\ call'[u].fn = "post" => call'[u].type \in Types
                    /\ call'[u].fn = "moving" =>
                         /\ call'[u].type = Any /\ call'[u].data = u
                         /\ threadData'[call'[u].receiver] = u
  BY DEF CalledAlive
<1>1. CASE u = t
  <2>1. call'[t].fn \in {"post", "moving"} => alive' = alive
    BY CallsLookUp
  <2>2. call'[t].fn = "moving" => threadData' = threadData
    BY CallsLookUp
  <2> QED
    BY <1>1, <2>1, <2>2, CallsLookUp
<1>2. CASE u # t
  <2>1. call'[u] = call[u]
    BY <1>2, OtherCalls
  <2>2. /\ call[u].fn \in {"post", "moving"} =>
             call[u].receiver \in Objects /\ alive[call[u].receiver]
        /\ call[u].fn = "post" => call[u].type \in Types
        /\ call[u].fn = "moving" =>
             call[u].type = Any /\ call[u].data = u /\ threadData[call[u].receiver] = u
    BY DEF Safe, PInv, CalledAlive
  <2>3. ASSUME NEW r \in Objects, Destroy(t, r), call[u].receiver \in Objects
        PROVE  alive'[call[u].receiver] = alive[call[u].receiver]
    <3>1. call[u].receiver # r /\ alive' = [alive EXCEPT ![r] = FALSE]
      BY <2>3 DEF Destroy
    <3> QED
      BY <2>3, <3>1 DEF Safe, IInv, Typed
  <2>4. ASSUME MoveEnd(t), call[u].fn = "moving"
        PROVE  threadData'[call[u].receiver] = threadData[call[u].receiver]
    <3>1. threadData' = [threadData EXCEPT ![call[t].receiver] = call[t].to]
      BY <2>4 DEF MoveEnd
    <3>2. threadData[call[t].receiver] = t
      BY <2>4 DEF MoveEnd, Safe, PInv, CalledAlive
    <3> QED
      BY <1>2, <2>2, <2>4, <3>1, <3>2 DEF Safe, IInv, Typed
  <2> QED
    BY <2>1, <2>2, <2>3, <2>4, ObjectsKept
<1> QED
  BY <1>1, <1>2

\* A move passes the entries of other objects, and takes those of its own.
LEMMA MoveStepSwept ==
  ASSUME Safe, NEW t \in Threads, MoveStep(t)
  PROVE  /\ call'[t].fn = "moving" /\ call'[t].data = t
         /\ SweptBy(call'[t], list'[t])
<1> DEFINE k == call[t].i + 1
           e == MovedEntry(t)
           l == list[t]
           m == list'[t]
<1>1. /\ call[t].fn = "moving" /\ call[t].data = t /\ call[t].type = Any
      /\ call[t].receiver \in Objects
  BY DEF MoveStep, Moving, Safe, PInv, CalledAlive
<1>2. call[t] \in Call /\ call[t].to \in Threads /\ call[t].to # t /\ call[t].i \in Nat
  BY CallTypes, MoveEvents DEF Call, Safe, IInv
<1>3. /\ call'[t].i = k /\ call'[t].fn = "moving" /\ call'[t].data = t
      /\ call'[t].receiver = call[t].receiver /\ call'[t].type = Any
  BY <1>1, <1>2 DEF MoveStep, Call, Safe, IInv, Typed
<1>4. /\ k \in 1 .. Len(l) /\ DOMAIN l = 1 .. Len(l) /\ Len(l) \in Nat
      /\ e = l[k] /\ e.priority \in Int /\ l \in Seq(Entry)
  <2>1. Len(l) \in Nat /\ l \in Seq(Entry) /\ DOMAIN l = 1 .. Len(l)
    BY ListTypes, LenProperties
  <2>2. k \in 1 .. Len(l)
    BY <1>2, <2>1 DEF MoveStep, Moving
  <2>3. e = l[k] /\ l[k] \in Entry
    BY <2>2, ListTypes DEF MovedEntry
  <2> QED
    BY <2>1, <2>2, <2>3 DEF Entry
<1>5. \A n \in LiveAt(l) : n <= call[t].i => ~Matches(l[n], call[t].receiver, Any)
  BY <1>1 DEF Safe, PInv, Swept
<1>6. m = IF Mine(t) THEN [l EXCEPT ![k] = Nulled(e.priority)] ELSE l
  <2>1. ~Mine(t) => list' = list
    BY DEF MoveStep, Mine, MovedEntry
  <2>2. Mine(t) => \E n : list' = [list EXCEPT ![t][k] = Nulled(e.priority),
                                 ![call[t].to] = Insert(@, n, [e EXCEPT !.by = 0])]
    BY DEF MoveStep, Mine, MovedEntry
  <2>3. list \in [Threads -> Seq(Entry)]
    BY DEF Safe, IInv, Typed
  <2> HIDE DEF e, k
  <2> QED
    BY <1>2, <2>1, <2>2, <2>3
<1>7. Len(m) = Len(l)
  BY <1>4, <1>6, NulledType, ExceptSeq
<1>8. \A n \in 1 .. Len(l) : m[n] = IF n = k /\ Mine(t) THEN Nulled(e.priority) ELSE l[n]
  BY <1>4, <1>6
<1>9. ~Live(Nulled(e.priority))
  BY DEF Live, Nulled
<1>10. Live(l[k]) /\ ~Mine(t) => l[k].receiver # call[t].receiver
  BY <1>4 DEF Mine
<1>11. call[t].receiver # None
  BY <1>1, ConstantsAssumption
<1>12. call[t].i = k - 1
  BY <1>2
<1> HIDE DEF k, e, l, m
<1>13. ASSUME NEW n \in LiveAt(m), n <= k PROVE ~Matches(m[n], call[t].receiver, Any)
  <2>1. n \in 1 .. Len(l) /\ Live(m[n]) /\ m[n] = l[n]
    BY <1>7, <1>8, <1>9 DEF LiveAt
  <2>2. CASE n = k
    BY <1>8, <1>9, <1>10, <1>11, <2>1, <2>2 DEF Matches
  <2>3. CASE n # k
    <3>1. n <= call[t].i /\ n \in LiveAt(l)
      BY <1>4, <1>12, <1>13, <2>1, <2>3 DEF LiveAt
    <3> QED
      BY <1>5, <2>1, <3>1
  <2> QED
    BY <2>2, <2>3
<1> QED
  BY <1>3, <1>13 DEF SweptBy, m

\* A step keeps what the removals have swept, and the gap behind them.
LEMMA SweptStep ==
  ASSUME Safe, NEW t \in Threads, StepOf(t)
  PROVE  Swept' /\ Gap'
<1> DEFINE Clean(u) ==
      /\ call'[u].fn \in {"removing", "moving"} => SweptBy(call'[u], list'[call'[u].data])
      /\ call'[u].fn = "removing" /\ recursion'[call'[u].data] = 0 =>
           GapBehind(call'[u], list'[call'[u].data])
<1>0. SUFFICES ASSUME NEW u \in Threads PROVE Clean(u)
  BY DEF Swept, Gap, SweptBy, GapBehind, Compacting
<1>1. /\ call \in [Threads -> Call] /\ call[t] \in Call /\ call[u] \in Call
      /\ call[u].data \in Threads /\ call[t].data \in Threads
  BY CallTypes DEF Safe, IInv, Typed, Call
<1>2. CASE u # t
  <2>1. call'[u] = call[u]
    BY <1>2, OtherCalls
  <2>2. CASE call[u].fn \in {"removing", "moving"}
    <3> DEFINE w == call[u].data
    <3>1. w \in Threads /\ Holds(u, w)
      BY <1>1, <2>2 DEF Holds
    <3>2. list'[w] = list[w] /\ (recursion'[w] = 0 => recursion[w] = 0)
      BY <1>2, <3>1, HeldLists
    <3>3. /\ SweptBy(call[u], list[w])
          /\ call[u].fn = "removing" /\ recursion[w] = 0 => GapBehind(call[u], list[w])
      BY <2>2 DEF Safe, PInv, Swept, Gap, Compacting, SweptBy, GapBehind
    <3> QED
      BY <2>1, <3>2, <3>3
  <2> QED
    BY <2>1, <2>2
<1>3. ASSUME call'[t].fn \notin {"removing", "moving"} PROVE Clean(t)
  BY <1>3
\* What walks has just begun.
<1>4. ASSUME call'[t].i = 0, call'[t].j = 0 PROVE Clean(t)
  <2>1. \A l : \A k \in LiveAt(l) : ~(k <= 0)
    BY DEF LiveAt
  <2> QED
    BY <1>4, <2>1 DEF SweptBy, GapBehind
<1>5. ASSUME Send(t) \/ Loop(t) PROVE Clean(t)
  BY <1>3, <1>5, SendCalls DEF Safe
<1>6. ASSUME Post(t) PROVE Clean(t)
  BY <1>3, <1>6, PostCalls DEF Safe, IInv
<1>7. ASSUME NEW r \in Objects, Destroy(t, r) PROVE Clean(t)
  <2>1. call[t].fn = "none" /\ (call' = call \/ call' = [call EXCEPT ![t] = RemoveCall(t, r, Any)])
    BY <1>7 DEF Destroy
  <2>2. RemoveCall(t, r, Any).fn = "remove"
    BY DEF RemoveCall, Idle
  <2>3. call' = [call EXCEPT ![t] = RemoveCall(t, r, Any)] => call'[t] = RemoveCall(t, r, Any)
    BY <1>1
  <2>4. call'[t].fn \in {"none", "remove"}
    BY <2>1, <2>2, <2>3
  <2> QED
    BY <1>3, <2>4
<1>8. ASSUME Remove(t) PROVE Clean(t)
  <2>1. ASSUME NEW r, NEW ty, RemoveBegin(t, r, ty) PROVE Clean(t)
    <3>1. call'[t].fn = "remove"
      BY <1>1, <2>1 DEF RemoveBegin, RemoveCall, Idle
    <3> QED
      BY <1>3, <3>1
  <2>2. ASSUME RemoveStart(t) PROVE Clean(t)
    <3>1. call[t].fn = "remove" /\ call[t].i = 0 /\ call[t].j = 0
      BY <2>2 DEF RemoveStart, Safe, IInv, RemovalInList
    <3>2. call'[t].i = 0 /\ call'[t].j = 0
      BY <1>1, <2>2, <3>1 DEF RemoveStart, Idle, Call
    <3> QED
      BY <1>4, <3>2
  <2>3. ASSUME RemoveMatch(t) PROVE Clean(t)
    <3>1. call'[t].data = call[t].data
      <4>1. call'[t] = [call[t] EXCEPT !.i = @ + 1]
        BY <2>3, RemoveMatchSwept
      <4> QED
        BY <1>1, <4>1 DEF Call
    <3>2. recursion' = recursion
      BY <2>3 DEF RemoveMatch
    <3>3. call'[t].fn = "removing"
      BY <1>1, <2>3, RemoveMatchSwept DEF Call, RemoveMatch, Removing
    <3> QED
      BY <2>3, <3>1, <3>2, RemoveMatchSwept DEF Compacting
  <2>4. ASSUME RemoveKeep(t) PROVE Clean(t)
    <3>1. call'[t].data = call[t].data
      <4>1. PICK i, j : call'[t] \in {[call[t] EXCEPT !.i = i], [call[t] EXCEPT !.i = i, !.j = j]}
        BY <2>4, RemoveKeepSwept
      <4> QED
        BY <1>1, <4>1 DEF Call
    <3>2. recursion' = recursion
      BY <2>4 DEF RemoveKeep
    <3> QED
      BY <2>4, <3>1, <3>2, RemoveKeepSwept DEF Compacting
  <2>5. ASSUME RemoveEnd(t) PROVE Clean(t)
    <3>1. call'[t].fn = "none"
      BY <1>1, <2>5 DEF RemoveEnd, Idle
    <3> QED
      BY <1>3, <3>1
  <2>6. ASSUME NEW k, RemoveEvent(t, k) PROVE Clean(t)
    <3>1. call'[t].fn = "none"
      BY <2>6 DEF RemoveEvent, UserCode
    <3> QED
      BY <1>3, <3>1
  <2> QED
    BY <1>8, <2>1, <2>2, <2>3, <2>4, <2>5, <2>6 DEF Remove
<1>9. ASSUME Move(t) PROVE Clean(t)
  <2>1. ASSUME NEW r, NEW w, MoveBegin(t, r, w) PROVE Clean(t)
    <3>1. call'[t].i = 0 /\ call'[t].j = 0
      BY <1>1, <2>1 DEF MoveBegin, Idle
    <3> QED
      BY <1>4, <3>1
  <2>2. ASSUME MoveStep(t) PROVE Clean(t)
    BY <2>2, MoveStepSwept
  <2>3. ASSUME MoveEnd(t) PROVE Clean(t)
    <3>1. call'[t].fn = "none"
      BY <1>1, <2>3 DEF MoveEnd, Idle
    <3> QED
      BY <1>3, <3>1
  <2> QED
    BY <1>9, <2>1, <2>2, <2>3 DEF Move
<1>10. CASE u = t
  BY <1>5, <1>6, <1>7, <1>8, <1>9, <1>10 DEF StepOf, CallStepOf
<1> QED
  BY <1>2, <1>10

-----------------------------------------------------------------------------
(* Where the events of an object are, and who may still find them.         *)

\* What a thread has after a step it had before, or is posted or moved to it.
LEMMA NewEvents ==
  ASSUME Safe, NEW t \in Threads, StepOf(t), NEW v \in Threads, NEW e \in Recs(list'[v])
  PROVE  \/ e \in In(v)
         \/ Adds(t) /\ e = PostedRec(t) /\ v = call[t].data
         \/ Carries(t) /\ e = Rec(MovedEntry(t)) /\ v = call[t].to
<1>1. CASE Keeps
  BY <1>1 DEF Keeps, SameEvents
<1>2. CASE Adds(t)
  BY <1>2 DEF Adds, Added
<1>3. CASE Carries(t)
  BY <1>3 DEF Carries, Relocated
<1>4. ASSUME NEW u \in Threads, NEW x \in In(u), Takes(u, x) PROVE e \in In(v)
  BY <1>4 DEF Takes, Removed
<1> QED
  BY <1>1, <1>2, <1>3, <1>4, StepKinds

\* An object that has an event in some list has postedEvents above 0.
LEMMA PostedPositive ==
  ASSUME Safe, NEW v \in Threads, NEW e \in In(v)
  PROVE  /\ e.receiver \in Objects /\ postedEvents[e.receiver] > 0
         /\ e \in PendingEvents
<1>1. PendingEvents = UNION {In(u) : u \in Threads}
  BY DEF PendingEvents, In, Recs, Rec, LiveAt, LiveIn
<1>2. e \in Posted(e.receiver) /\ e \in PendingEvents /\ e.receiver \in Objects
  BY <1>1 DEF Posted, Safe, PInv, Numbered
<1>3. /\ IsFiniteSet(Posted(e.receiver))
      /\ postedEvents[e.receiver] = Cardinality(Posted(e.receiver))
  BY <1>2 DEF Safe, PInv, Counted
<1>4. Cardinality(Posted(e.receiver)) \in Nat /\ Cardinality(Posted(e.receiver)) # 0
  BY <1>2, <1>3, FS_EmptySet, FS_CardinalityType
<1> QED
  BY <1>2, <1>3, <1>4

\* A move ends when nothing of the object is left behind, a removal when
\* nothing is left that it looks for.
LEMMA NothingLeft ==
  ASSUME Safe, NEW t \in Threads, call[t].fn \in {"removing", "moving"},
         ~(call[t].i < Len(list[call[t].data])), NEW e \in In(call[t].data)
  PROVE  ~Matches(e, call[t].receiver, call[t].type)
<1>1. call[t].data \in Threads /\ call[t].i \in Nat
  BY CallTypes DEF Safe, IInv, Call
<1>2. PICK k \in LiveAt(list[call[t].data]) : e = Rec(list[call[t].data][k])
  BY DEF In, Recs
<1>3. k <= call[t].i
  BY <1>1, <1>2, ListTypes DEF LiveAt
<1>4. ~Matches(list[call[t].data][k], call[t].receiver, call[t].type)
  BY <1>3 DEF Safe, PInv, Swept
<1> QED
  BY <1>2, <1>4 DEF Rec, Matches

\* A thread that moves an object goes on, or is through.
LEMMA MoverSteps ==
  ASSUME Safe, NEW t \in Threads, StepOf(t), call[t].fn = "moving", ~MoveEnd(t)
  PROVE  /\ MoveStep(t) /\ call'[t].fn = "moving"
         /\ call'[t].receiver = call[t].receiver /\ call'[t].to = call[t].to
<1>1. MoveStep(t)
  BY SendCalls DEF StepOf, CallStepOf, Safe, Post, PostBegin, PostFollow, PostCompress, PostAdd,
     PostWakeUp, Remove, RemoveBegin, RemoveStart, RemoveMatch, RemoveKeep, RemoveEnd,
     RemoveEvent, Removing, Move, MoveBegin, Destroy, UserCode
<1>2. call[t] \in Call /\ call \in [Threads -> Call]
  BY CallTypes DEF Safe, IInv, Typed
<1> QED
  BY <1>1, <1>2 DEF MoveStep, Call

\* A step keeps the events of an object in the list of its thread.
LEMMA InPlaceStep ==
  ASSUME Safe, NEW t \in Threads, StepOf(t)
  PROVE  InPlace'
<1> SUFFICES ASSUME NEW v \in Threads, NEW e \in Recs(list'[v])
             PROVE  threadData'[e.receiver] = v \/ \E u \in Threads : Moves(u, e.receiver, v)'
  BY DEF InPlace, In
<1> DEFINE r == e.receiver
           Goal == threadData'[r] = v \/ \E u \in Threads : Moves(u, r, v)'
<1>0. ASSUME NEW u \in Threads, u # t, NEW x PROVE Moves(u, x, v)' <=> Moves(u, x, v)
  BY <1>0, OtherCalls DEF Moves
<1>1. ASSUME e \in In(v) /\ ~MoveEnd(t) PROVE Goal
  <2>1. threadData' = threadData
    BY <1>1, ObjectsKept
  <2>2. threadData[r] = v \/ \E u \in Threads : Moves(u, r, v)
    BY <1>1 DEF Safe, PInv, InPlace
  <2>3. Moves(t, r, v) => Moves(t, r, v)'
    BY <1>1, MoverSteps DEF Moves
  <2> QED
    BY <1>0, <2>1, <2>2, <2>3
<1>2. ASSUME e \in In(v) /\ MoveEnd(t) PROVE Goal
  <2>1. /\ call[t].fn = "moving" /\ threadData' = [threadData EXCEPT ![call[t].receiver] = call[t].to]
        /\ call[t].type = Any /\ call[t].data = t /\ call[t].receiver \in Objects
        /\ ~(call[t].i < Len(list[t])) /\ threadData[call[t].receiver] = t
    BY <1>2 DEF MoveEnd, Moving, Safe, PInv, CalledAlive
  <2>2. threadData[r] = v \/ \E u \in Threads : Moves(u, r, v)
    BY <1>2 DEF Safe, PInv, InPlace
  <2>3. r \in Objects /\ threadData \in [Objects -> Threads]
    BY <1>2 DEF Safe, PInv, Numbered, IInv, Typed
  <2>4. CASE r # call[t].receiver
    <3>1. threadData'[r] = threadData[r]
      BY <2>1, <2>3, <2>4
    <3>2. ~Moves(t, r, v)
      BY <2>4 DEF Moves
    <3> QED
      BY <1>0, <2>2, <3>1, <3>2
  <2>5. CASE r = call[t].receiver
    <3>1. v # t
      <4>1. SUFFICES ASSUME v = t PROVE FALSE
        OBVIOUS
      <4>2. ~Matches(e, r, Any)
        BY <1>2, <2>1, <2>5, <4>1, NothingLeft
      <4> QED
        BY <4>2 DEF Matches
    <3>2. PICK u \in Threads : Moves(u, r, v)
      BY <2>1, <2>2, <2>5, <3>1
    <3>3. threadData[r] = u
      BY <3>2 DEF Moves, Safe, PInv, CalledAlive
    <3>4. call[t].to = v
      BY <2>1, <2>5, <3>2, <3>3 DEF Moves
    <3> QED
      BY <2>1, <2>3, <2>5, <3>4
  <2> QED
    BY <2>4, <2>5
<1>3. ASSUME Adds(t) /\ e = PostedRec(t) /\ v = call[t].data PROVE Goal
  <2>1. threadData[r] = v
    BY <1>3, PostedTo DEF Adds
  <2>2. threadData' = threadData
    BY <1>3 DEF Adds, PostAdd
  <2> QED
    BY <2>1, <2>2
<1>4. ASSUME Carries(t) /\ e = Rec(MovedEntry(t)) /\ v = call[t].to PROVE Goal
  <2>1. call[t].fn = "moving" /\ ~MoveEnd(t) /\ call[t].receiver = r
    BY <1>4 DEF Carries, MoveStep, MoveEnd, Moving, Mine, Rec
  <2>2. Moves(t, r, v)'
    BY <1>4, <2>1, MoverSteps DEF Moves
  <2> QED
    BY <2>2
<1> HIDE DEF Goal
<1>5. Goal
  BY <1>1, <1>2, <1>3, <1>4, NewEvents
<1> QED
  BY <1>5 DEF Goal

\* A removal on behalf of a destructor goes on while something is left.
LEMMA SweeperSteps ==
  ASSUME Safe, NEW t \in Threads, StepOf(t), NEW e \in In(t), Sweeps(t, e.receiver)
  PROVE  Sweeps(t, e.receiver)'
<1>1. /\ call[t].fn \in {"remove", "removing"} /\ call[t].receiver = e.receiver
      /\ call[t].type = Any /\ call[t].data = t
  BY DEF Sweeps
<1>2. call[t] \in Call /\ call \in [Threads -> Call]
  BY CallTypes DEF Safe, IInv, Typed
<1>3. RemoveStart(t) \/ RemoveMatch(t) \/ RemoveKeep(t) \/ RemoveEnd(t)
  BY <1>1, SendCalls DEF StepOf, CallStepOf, Safe, Post, PostBegin, PostFollow, PostCompress, PostAdd,
     PostWakeUp, Remove, RemoveBegin, RemoveEvent, Move, MoveBegin, MoveStep, MoveEnd, Moving,
     Destroy, UserCode
<1>4. CASE RemoveStart(t)
  <2>1. postedEvents[e.receiver] # 0
    BY PostedPositive, Typed DEF Safe, IInv, Typed
  <2>2. call'[t] = [call[t] EXCEPT !.fn = "removing"]
    BY <1>1, <1>2, <1>4, <2>1 DEF RemoveStart
  <2> QED
    BY <1>1, <1>2, <2>2 DEF Sweeps, Call
<1>5. CASE RemoveMatch(t) \/ RemoveKeep(t)
  <2>1. PICK i, j : call'[t] \in {[call[t] EXCEPT !.i = i], [call[t] EXCEPT !.i = i, !.j = j]}
    BY <1>5, RemoveMatchSwept, RemoveKeepSwept
  <2>2. call[t].fn = "removing"
    BY <1>5 DEF RemoveMatch, RemoveKeep, Removing
  <2> QED
    BY <1>1, <1>2, <2>1, <2>2 DEF Sweeps, Call
<1>6. CASE RemoveEnd(t)
  <2>1. call[t].fn = "removing" /\ ~(call[t].i < Len(list[call[t].data]))
    BY <1>6 DEF RemoveEnd, Removing
  <2>2. ~Matches(e, e.receiver, Any)
    BY <1>1, <2>1, NothingLeft
  <2> QED
    BY <2>2 DEF Matches
<1> QED
  BY <1>3, <1>4, <1>5, <1>6

\* A step keeps the lists free of events for objects that are deleted.
LEMMA DeadSweptStep ==
  ASSUME Safe, NEW t \in Threads, StepOf(t)
  PROVE  DeadSwept'
<1> SUFFICES ASSUME NEW v \in Threads, NEW e \in Recs(list'[v]), ~alive'[e.receiver]
             PROVE  Sweeps(v, e.receiver)'
  BY DEF DeadSwept, In
<1>1. e \in In(v)
  <2>1. Adds(t) => alive[PostedRec(t).receiver] /\ alive' = alive
    BY PostedTo DEF Adds, PostAdd
  <2>2. Carries(t) => alive[Rec(MovedEntry(t)).receiver] /\ alive' = alive
    BY DEF Carries, MoveStep, Moving, Mine, Rec, Safe, PInv, CalledAlive, objectVars
  <2> QED
    BY <2>1, <2>2, NewEvents
<1>2. CASE ~alive[e.receiver]
  <2>1. Sweeps(v, e.receiver)
    BY <1>1, <1>2 DEF Safe, PInv, DeadSwept
  <2>2. CASE v = t
    BY <1>1, <2>1, <2>2, SweeperSteps
  <2>3. CASE v # t
    BY <2>1, <2>3, OtherCalls DEF Sweeps
  <2> QED
    BY <2>2, <2>3
<1>3. CASE alive[e.receiver]
  <2>1. PICK r \in Objects : Destroy(t, r)
    BY <1>3, ObjectsKept
  <2>2. r = e.receiver
    <3>1. alive' = [alive EXCEPT ![r] = FALSE]
      BY <2>1 DEF Destroy
    <3> QED
      BY <1>1, <1>3, <3>1, PostedPositive DEF Safe, IInv, Typed
  <2>3. threadData[r] = t /\ \A u \in Threads : call[u].receiver # r
    BY <2>1 DEF Destroy
  <2>4. v = t
    BY <1>1, <2>2, <2>3 DEF Safe, PInv, InPlace, Moves
  <2>5. call' = [call EXCEPT ![t] = RemoveCall(t, r, Any)]
    BY <1>1, <2>1, <2>2, PostedPositive DEF Destroy, HasPosted
  <2>6. call'[t] = RemoveCall(t, r, Any)
    BY <2>5 DEF Safe, IInv, Typed
  <2>7. r # None
    BY ConstantsAssumption
  <2>8. Sweeps(t, r)'
    BY <2>3, <2>6, <2>7 DEF Sweeps, RemoveCall, Idle
  <2> QED
    BY <2>2, <2>4, <2>8
<1> QED
  BY <1>2, <1>3

\* A step keeps at most one deferred delete of an object in the lists.
LEMMA OneDeferredStep ==
  ASSUME Safe, NEW t \in Threads, StepOf(t)
  PROVE  OneDeferred'
<1> DEFINE One(S) == \A e, f \in S :
      e.receiver = f.receiver /\ e.type = DeferredDelete /\ f.type = DeferredDelete
        => e.event = f.event
<1>1. PendingEvents = UNION {In(u) : u \in Threads}
  BY DEF PendingEvents, In, Recs, Rec, LiveAt, LiveIn
<1>2. PendingEvents' = UNION {Recs(list'[u]) : u \in Threads}
  BY DEF PendingEvents, Recs, Rec, LiveAt, LiveIn
<1>3. One(PendingEvents)
  BY <1>1 DEF Safe, PInv, OneDeferred
<1>4. One(PendingEvents') => OneDeferred'
  BY <1>2 DEF OneDeferred, In
<1>5. CASE Keeps \/ Carries(t)
  BY <1>3, <1>4, <1>5, PendingAfter
<1>6. ASSUME NEW u \in Threads, NEW x \in In(u), Takes(u, x) PROVE OneDeferred'
  BY <1>3, <1>4, <1>6, PendingAfter
<1>7. CASE Adds(t)
  <2> DEFINE x == PostedRec(t)
             w == call[t].data
  <2>1. /\ x.receiver = call[t].receiver /\ threadData[x.receiver] = w /\ x.type = call[t].type
        /\ PendingEvents' = PendingEvents \cup {x} /\ w \in Threads
    BY <1>7, PostedTo, PendingAfter DEF Adds
  <2>2. MutexFree(w) /\ ~Compressed(list[w], call[t].receiver, call[t].type)
    BY <1>7 DEF Adds, PostAdd
  <2>3. ASSUME NEW v \in Threads, NEW f \in In(v), f.receiver = x.receiver,
               f.type = DeferredDelete, x.type = DeferredDelete
        PROVE  FALSE
    <3>1. v = w
      <4>1. SUFFICES ASSUME NEW u \in Threads, Moves(u, x.receiver, v) PROVE FALSE
        BY <2>1, <2>3 DEF Safe, PInv, InPlace
      <4>2. threadData[x.receiver] = u /\ call[u].data = u /\ call[u].fn = "moving"
        BY <4>1 DEF Moves, Safe, PInv, CalledAlive
      <4> QED
        BY <2>1, <2>2, <4>2 DEF MutexFree
    <3>2. PICK k \in LiveAt(list[w]) : f = Rec(list[w][k])
      BY <2>3, <3>1 DEF In, Recs
    <3>3. /\ k \in 1 .. Len(list[w]) /\ Live(list[w][k])
          /\ list[w][k].receiver = call[t].receiver /\ list[w][k].type = DeferredDelete
      BY <2>1, <2>3, <3>2 DEF LiveAt, Rec
    <3>4. postedEvents[call[t].receiver] > 0
      BY <2>1, <2>3, PostedPositive
    <3> QED
      BY <2>1, <2>2, <2>3, <3>3, <3>4 DEF Compressed
  <2> HIDE DEF x, w
  <2>4. \A f \in PendingEvents : ~(f.receiver = x.receiver /\ f.type = DeferredDelete
                                     /\ x.type = DeferredDelete)
    BY <1>1, <2>3
  <2>5. One(PendingEvents')
    BY <1>3, <2>1, <2>4
  <2> QED
    BY <1>4, <2>5
<1> QED
  BY <1>5, <1>6, <1>7, StepKinds

-----------------------------------------------------------------------------
(* The events whose handlers run.                                          *)

\* The deliveries of thread t after a step that does not touch them, that
\* begins the one on top, or that ends it.
SameFrames(t) ==
  /\ OthersKept(t)
  /\ \A k \in Delivers(t) : k \in Delivers(t)' => stack'[t][k] = stack[t][k]
HandlersKept(t) == SameFrames(t) /\ Delivers(t)' = Delivers(t)
HandlerBegun(t, e) ==
  /\ SameFrames(t) /\ Len(stack[t]) \notin Delivers(t)
  /\ Delivers(t)' = Delivers(t) \cup {Len(stack[t])}
  /\ stack'[t][Len(stack[t])].event = e /\ stack'[t][Len(stack[t])].fn = "send"
HandlerEnded(t) ==
  /\ SameFrames(t) /\ Len(stack[t]) \in Delivers(t)
  /\ Delivers(t)' = Delivers(t) \ {Len(stack[t])}

\* A new frame that delivers nothing leaves the handlers of events alone.
LEMMA PushedFrames ==
  ASSUME Safe, NEW t \in Threads, NEW f \in Frame, stack' = Push(t, f), f.at # "deliver"
  PROVE  HandlersKept(t)
<1>1. /\ OthersKept(t) /\ Len(stack[t]) \in Nat /\ Len(stack'[t]) = Len(stack[t]) + 1
      /\ \A k \in 1 .. Len(stack[t]) : stack'[t][k] = stack[t][k]
      /\ stack'[t][Len(stack[t]) + 1] = f
  BY PushedStack DEF Safe, IInv
<1>2. \A k : k \in 1 .. Len(stack'[t]) <=> k \in 1 .. Len(stack[t]) \/ k = Len(stack[t]) + 1
  BY <1>1
<1>3. Delivers(t)' = {k \in 1 .. Len(stack'[t]) : stack'[t][k].at = "deliver"}
  BY DEF Delivers
<1>4. Delivers(t)' = Delivers(t)
  BY <1>1, <1>2, <1>3 DEF Delivers
<1> QED
  BY <1>1, <1>4 DEF HandlersKept, SameFrames, Delivers

\* What a change of the top frame does to the handlers of events.
LEMMA ReplacedFrames ==
  ASSUME Safe, NEW t \in Threads, stack[t] # <<>>, NEW f \in Frame, stack' = Becomes(t, f)
  PROVE  /\ f.at # "deliver" /\ Top(t).at # "deliver" => HandlersKept(t)
         /\ f.at # "deliver" /\ Top(t).at = "deliver" => HandlerEnded(t)
         /\ f.at = "deliver" /\ Top(t).at # "deliver" /\ f.fn = "send" => HandlerBegun(t, f.event)
<1> DEFINE n == Len(stack[t])
<1>1. /\ OthersKept(t) /\ n \in Nat \ {0} /\ Len(stack'[t]) = n
      /\ \A k \in 1 .. n - 1 : stack'[t][k] = stack[t][k]
      /\ stack'[t][n] = f /\ stack[t][n] = Top(t)
  BY ReplacedStack DEF Safe, IInv, Top
<1>2. \A k : k \in 1 .. n <=> k \in 1 .. n - 1 \/ k = n
  BY <1>1
<1>3. n \notin 1 .. n - 1
  BY <1>1
<1>4. Delivers(t)' = {k \in 1 .. n : stack'[t][k].at = "deliver"}
  BY <1>1 DEF Delivers
<1>5. Delivers(t) = {k \in 1 .. n : stack[t][k].at = "deliver"}
  BY DEF Delivers
<1> HIDE DEF n
<1>6. Delivers(t)' \ {n} = Delivers(t) \ {n}
  BY <1>1, <1>2, <1>4, <1>5
<1>7. (n \in Delivers(t)' <=> f.at = "deliver") /\ (n \in Delivers(t) <=> Top(t).at = "deliver")
  BY <1>1, <1>2, <1>4, <1>5
<1>8. \A k \in Delivers(t) : k # n => stack'[t][k] = stack[t][k]
  BY <1>1, <1>2, <1>5
<1>9. ASSUME f.at # "deliver" PROVE SameFrames(t)
  BY <1>1, <1>7, <1>8, <1>9 DEF SameFrames
<1>10. ASSUME Top(t).at # "deliver" PROVE SameFrames(t)
  BY <1>1, <1>7, <1>8, <1>10 DEF SameFrames
<1>11. f.at # "deliver" /\ Top(t).at # "deliver" => HandlersKept(t)
  <2>1. SUFFICES ASSUME f.at # "deliver", Top(t).at # "deliver" PROVE HandlersKept(t)
    OBVIOUS
  <2>2. Delivers(t)' = Delivers(t)' \ {n} /\ Delivers(t) = Delivers(t) \ {n}
    BY <1>7, <2>1
  <2> QED
    BY <1>6, <1>9, <2>1, <2>2 DEF HandlersKept
<1>12. f.at # "deliver" /\ Top(t).at = "deliver" => HandlerEnded(t)
  BY <1>6, <1>7, <1>9 DEF HandlerEnded, n
<1>13. f.at = "deliver" /\ Top(t).at # "deliver" /\ f.fn = "send" => HandlerBegun(t, f.event)
  BY <1>1, <1>6, <1>7, <1>10 DEF HandlerBegun, n
<1> QED
  BY <1>11, <1>12, <1>13

\* What the end of frames does to the handlers: an exception ends those up
\* to the frame that catches it, of which only the top one delivers.
LEMMA PoppedFrames ==
  ASSUME Safe, NEW t \in Threads, NEW n \in 0 .. Len(stack[t]), n < Len(stack[t]),
         stack' = [stack EXCEPT ![t] = SubSeq(@, 1, n)],
         \A k \in n + 1 .. Len(stack[t]) - 1 : stack[t][k].fn # "send"
  PROVE  /\ Top(t).at # "deliver" => HandlersKept(t)
         /\ Top(t).at = "deliver" => HandlerEnded(t)
<1> DEFINE m == Len(stack[t])
<1>1. /\ OthersKept(t) /\ Len(stack'[t]) = n
      /\ \A k \in 1 .. n : stack'[t][k] = stack[t][k]
  BY PoppedStack DEF Safe, IInv
<1>2. m \in Nat /\ stack[t][m] = Top(t) /\ n \in 0 .. m /\ n < m
  BY StackType DEF Safe, IInv, Top
<1>3. \A k \in Delivers(t) : stack[t][k].fn = "send"
  BY DEF Safe, PInv, HandledOnce
<1>4. Delivers(t)' = {k \in 1 .. n : stack'[t][k].at = "deliver"}
  BY <1>1 DEF Delivers
<1>5. Delivers(t) = {k \in 1 .. m : stack[t][k].at = "deliver"}
  BY DEF Delivers
<1>6. \A k \in n + 1 .. m - 1 : stack[t][k].fn # "send"
  OBVIOUS
<1> HIDE DEF m
<1>7. \A k \in 1 .. n : k \in 1 .. m /\ k # m
  BY <1>2
<1>8. \A k \in 1 .. m : k \in 1 .. n \/ k = m \/ k \in n + 1 .. m - 1
  BY <1>2
<1>9. Delivers(t)' = Delivers(t) \ {m}
  BY <1>1, <1>3, <1>4, <1>5, <1>6, <1>7, <1>8
<1>10. m \in Delivers(t) <=> Top(t).at = "deliver"
  <2>1. m \in 1 .. m
    BY <1>2
  <2> QED
    BY <1>2, <1>5, <2>1
<1>11. SameFrames(t)
  BY <1>1, <1>4 DEF SameFrames
<1> QED
  BY <1>9, <1>10, <1>11 DEF HandlersKept, HandlerEnded, m

\* A send goes on to the next entry.
LEMMA AdvancedFrames ==
  ASSUME Safe, NEW t \in Threads, InSend(t, "scan"), NEW f \in Frame, f.fn = "send", Advance(t, f)
  PROVE  /\ f.at # "deliver" => HandlersKept(t)
         /\ f.at = "deliver" => HandlerBegun(t, f.event)
<1>1. stack[t] # <<>> /\ Top(t).at = "scan"
  BY DEF InSend
<1>2. CASE Global(f)
  BY <1>1, <1>2, ReplacedFrames DEF Advance
<1>3. CASE ~Global(f)
  <2>1. PICK g : g = [f EXCEPT !.i = @ + 1]
    OBVIOUS
  <2>2. g \in Frame /\ g.at = f.at /\ g.event = f.event /\ g.fn = "send"
    BY <2>1 DEF Frame
  <2>3. stack' = Becomes(t, g)
    BY <1>3, <2>1 DEF Advance
  <2> QED
    BY <1>1, <2>2, <2>3, ReplacedFrames
<1> QED
  BY <1>2, <1>3

\* The end of a frame that delivers nothing leaves the handlers alone.
LEMMA PoppedFrame ==
  ASSUME Safe, NEW t \in Threads, stack[t] # <<>>, stack' = Pop(t), Top(t).at # "deliver"
  PROVE  HandlersKept(t)
<1> DEFINE n == Len(stack[t]) - 1
<1>1. Len(stack[t]) \in Nat \ {0}
  BY TopType DEF Safe, IInv
<1>2. n \in 0 .. Len(stack[t]) /\ n < Len(stack[t])
  BY <1>1
<1>3. stack' = [stack EXCEPT ![t] = SubSeq(@, 1, n)]
  BY DEF Pop, Safe, IInv, Typed
<1>4. \A k \in n + 1 .. Len(stack[t]) - 1 : stack[t][k].fn # "send"
  BY <1>1
<1> HIDE DEF n
<1> QED
  BY <1>2, <1>3, <1>4, PoppedFrames

\* A delivery begins a handler, its return or exception ends it, and no
\* other step of sendPostedEvents does.
LEMMA SendHandlers ==
  ASSUME Safe, NEW t \in Threads, Send(t)
  PROVE  /\ ScanDeliver(t) => HandlerBegun(t, Current(t))
         /\ HandlerReturn(t) \/ HandlerThrow(t) => HandlerEnded(t)
         /\ ScanDeliver(t) \/ HandlerReturn(t) \/ HandlerThrow(t) \/ HandlersKept(t)
<1>1. ASSUME NEW q \in SendRequests, SendBegin(t, q[1], q[2]) PROVE HandlersKept(t)
  <2>1. q[1] \in Objects \cup {None} /\ q[2] \in Types \cup {Any}
    BY ConstantsAssumption
  <2>2. PICK f : f = SendFrame(q[1], q[2])
    OBVIOUS
  <2>3. f \in Frame /\ f.at = "enter"
    BY <2>1, <2>2, FrameTypes DEF SendFrame
  <2> QED
    BY <1>1, <2>2, <2>3, PushedFrames DEF SendBegin
<1>2. ASSUME SendNothing(t) PROVE HandlersKept(t)
  <2>1. stack[t] # <<>> /\ Top(t).at # "deliver" /\ stack' = Pop(t)
    BY <1>2 DEF SendNothing, InSend
  <2> QED
    BY <2>1, PoppedFrame
<1>3. ASSUME SendStart(t) PROVE HandlersKept(t)
  <2>1. stack[t] # <<>> /\ Top(t) \in Frame /\ Top(t).at = "enter"
    BY <1>3, TopType DEF SendStart, InSend, Safe, IInv
  <2>2. PICK f : f = [Top(t) EXCEPT !.at = "scan", !.i = startOffset[t]]
    OBVIOUS
  <2>3. f \in Frame /\ f.at = "scan"
    BY <2>1, <2>2 DEF Frame, Safe, IInv, Typed
  <2> QED
    BY <1>3, <2>1, <2>2, <2>3, ReplacedFrames DEF SendStart
<1>4. ASSUME ScanNull(t) \/ ScanOther(t) \/ ScanHold(t) PROVE HandlersKept(t)
  <2>1. /\ Scanning(t) /\ InSend(t, "scan") /\ Top(t).fn = "send"
        /\ Top(t).at = "scan" /\ Advance(t, Top(t))
    BY <1>4 DEF ScanNull, ScanOther, ScanHold, Scanning, InSend
  <2>2. Top(t) \in Frame
    BY <2>1, CurrentType DEF Safe, IInv
  <2> QED
    BY <2>1, <2>2, AdvancedFrames
<1>5. ASSUME ScanDeliver(t) PROVE HandlerBegun(t, Current(t))
  <2>1. Scanning(t) /\ InSend(t, "scan") /\ Top(t).fn = "send"
    BY <1>5 DEF ScanDeliver, Scanning, InSend
  <2>2. Top(t) \in Frame /\ Current(t) \in Entry
    BY <2>1, CurrentType DEF Safe, IInv
  <2>3. PICK f : f = [Top(t) EXCEPT !.at = "deliver", !.event = Current(t)]
    OBVIOUS
  <2>4. f \in Frame /\ f.at = "deliver" /\ f.event = Current(t) /\ f.fn = "send"
    BY <2>1, <2>2, <2>3 DEF Frame
  <2>5. Advance(t, f)
    BY <1>5, <2>3 DEF ScanDeliver
  <2> QED
    BY <2>1, <2>4, <2>5, AdvancedFrames
<1>6. ASSUME HandlerReturn(t) PROVE HandlerEnded(t)
  <2>1. stack[t] # <<>> /\ Top(t) \in Frame /\ Top(t).at = "deliver"
    BY <1>6, TopType DEF HandlerReturn, InSend, Safe, IInv
  <2>2. PICK f : f = [Top(t) EXCEPT !.at = "scan", !.event = Nulled(0)]
    OBVIOUS
  <2>3. f \in Frame /\ f.at = "scan"
    BY <2>1, <2>2, FrameTypes DEF Frame
  <2> QED
    BY <1>6, <2>1, <2>2, <2>3, ReplacedFrames DEF HandlerReturn
<1>7. ASSUME SendEnd(t) PROVE HandlersKept(t)
  <2>1. stack[t] # <<>> /\ Top(t).at # "deliver" /\ stack' = Pop(t)
    BY <1>7 DEF SendEnd, InSend
  <2> QED
    BY <2>1, PoppedFrame
<1>8. ASSUME HandlerThrow(t) PROVE HandlerEnded(t)
  <2>1. Top(t).at = "deliver"
    BY <1>8 DEF HandlerThrow, InSend
  <2>2. PICK n \in 0 .. Len(stack[t]) :
          /\ stack' = [stack EXCEPT ![t] = SubSeq(@, 1, n)] /\ n < Len(stack[t])
          /\ \A k \in n + 1 .. Len(stack[t]) - 1 : stack[t][k].fn # "send"
    BY <1>8, ThrownStack DEF Safe, IInv
  <2> QED
    BY <2>1, <2>2, PoppedFrames
<1> QED
  BY <1>1, <1>2, <1>3, <1>4, <1>5, <1>6, <1>7, <1>8 DEF Send

\* The steps of the loops leave the handlers alone.
LEMMA LoopHandlers ==
  ASSUME Safe, NEW t \in Threads, Loop(t)
  PROVE  HandlersKept(t)
<1>1. ASSUME NEW fn \in {"exec", "process"}, LoopBegin(t, fn) PROVE HandlersKept(t)
  <2>1. PICK f : f = LoopFrame(fn)
    OBVIOUS
  <2>2. f \in Frame /\ f.at = "test"
    BY <2>1, FrameTypes DEF LoopFrame
  <2> QED
    BY <1>1, <2>1, <2>2, PushedFrames DEF LoopBegin
<1>2. CASE LoopSend(t)
  <2> DEFINE n == Len(stack[t])
             f == [stack[t][n] EXCEPT !.at = "check"]
             below == [stack[t] EXCEPT ![n] = f]
             g == SendFrame(None, Any)
  <2>1. /\ stack[t] # <<>> /\ Top(t) \in Frame /\ Top(t).at = "awake"
        /\ n \in Nat \ {0} /\ stack[t] \in Seq(Frame)
    BY <1>2, TopType DEF LoopSend, InLoop, Safe, IInv, Typed
  <2>2. f \in Frame /\ f.at = "check" /\ stack[t][n].at = "awake"
    BY <2>1 DEF Top, Frame
  <2>3. /\ below \in Seq(Frame) /\ Len(below) = n /\ below[n] = f
        /\ \A k \in 1 .. n - 1 : below[k] = stack[t][k]
    BY <2>1, <2>2, ExceptSeq
  <2>4. g \in Frame /\ g.at = "enter"
    BY FrameTypes DEF SendFrame
  <2>5. stack' = [stack EXCEPT ![t] = Append(below, g)]
    BY <1>2 DEF LoopSend, Safe, IInv, Typed
  <2>6. stack'[t] = Append(below, g) /\ OthersKept(t)
    BY <2>5 DEF OthersKept, Safe, IInv, Typed
  <2> HIDE DEF f, g, below
  <2>7. /\ Len(stack'[t]) = n + 1 /\ stack'[t][n + 1] = g
        /\ \A k \in 1 .. n : stack'[t][k] = below[k]
    BY <2>3, <2>4, <2>6, AppendProperties
  <2>8. \A k : k \in 1 .. n + 1 <=> k \in 1 .. n - 1 \/ k = n \/ k = n + 1
    BY <2>1
  <2>9. \A k : k \in 1 .. n <=> k \in 1 .. n - 1 \/ k = n
    BY <2>1
  <2>10. Delivers(t)' = {k \in 1 .. n + 1 : stack'[t][k].at = "deliver"}
    BY <2>7 DEF Delivers
  <2>11. Delivers(t) = {k \in 1 .. n : stack[t][k].at = "deliver"}
    BY DEF Delivers
  <2> HIDE DEF n
  <2>12. Delivers(t)' = {k \in 1 .. n - 1 : stack[t][k].at = "deliver"}
    BY <2>2, <2>3, <2>4, <2>7, <2>8, <2>9, <2>10
  <2>13. Delivers(t) = {k \in 1 .. n - 1 : stack[t][k].at = "deliver"}
    BY <2>2, <2>9, <2>11
  <2>14. \A k \in 1 .. n - 1 : stack'[t][k] = stack[t][k]
    BY <2>3, <2>7, <2>9
  <2> QED
    BY <2>6, <2>12, <2>13, <2>14 DEF HandlersKept, SameFrames
<1>3. ASSUME stack[t] # <<>>, Top(t).at # "deliver",
             NEW a \in {"test", "awake", "block", "wait", "poll"},
             stack' = Becomes(t, [Top(t) EXCEPT !.at = a])
      PROVE  HandlersKept(t)
  <2>1. Top(t) \in Frame
    BY <1>3, TopType DEF Safe, IInv
  <2>2. PICK f : f = [Top(t) EXCEPT !.at = a]
    OBVIOUS
  <2>3. f \in Frame /\ f.at # "deliver"
    BY <1>3, <2>1, <2>2 DEF Frame
  <2> QED
    BY <1>3, <2>2, <2>3, ReplacedFrames
<1>4. CASE LoopAwake(t) \/ LoopCheck(t) \/ LoopBlock(t)
  <2>1. stack[t] # <<>> /\ Top(t).at # "deliver"
    BY <1>4 DEF LoopAwake, LoopCheck, LoopBlock, InLoop
  <2>2. \E a \in {"awake", "block", "wait", "poll"} :
          stack' = Becomes(t, [Top(t) EXCEPT !.at = a])
    BY <1>4 DEF LoopAwake, LoopCheck, LoopBlock
  <2> QED
    BY <1>3, <2>1, <2>2
<1>5. CASE LoopSelect(t)
  <2>1. stack[t] # <<>> /\ Top(t).at # "deliver"
    BY <1>5 DEF LoopSelect, InLoop
  <2>2. stack' = Becomes(t, [Top(t) EXCEPT !.at = "test"]) \/ stack' = Pop(t)
    BY <1>5 DEF LoopSelect
  <2> QED
    BY <1>3, <2>1, <2>2, PoppedFrame
<1>6. CASE LoopEnd(t)
  <2>1. stack[t] # <<>> /\ Top(t).at # "deliver" /\ stack' = Pop(t)
    BY <1>6 DEF LoopEnd, InLoop
  <2> QED
    BY <2>1, PoppedFrame
<1> QED
  BY <1>1, <1>2, <1>4, <1>5, <1>6 DEF Loop

\* What is handled is not pending, and handled once.
LEMMA HandledOnceStep ==
  ASSUME Safe, NEW t \in Threads, StepOf(t)
  PROVE  HandledOnce'
<1>1. PendingEvents = UNION {In(u) : u \in Threads}
  BY DEF PendingEvents, In, Recs, Rec, LiveAt, LiveIn
<1>2. PendingEvents' = UNION {Recs(list'[u]) : u \in Threads}
  BY DEF PendingEvents, Recs, Rec, LiveAt, LiveIn
<1> DEFINE Apart(v, k, e) == e.event # stack[v][k].event.event
<1>3. ASSUME NEW v \in Threads
      PROVE  /\ \A j, k \in Delivers(v) :
                  stack[v][j].event.event = stack[v][k].event.event => j = k
             /\ \A k \in Delivers(v) :
                  /\ stack[v][k].fn = "send" /\ stack[v][k].event.event <= lastEvent
                  /\ stack[v][k].event.event \in Nat
                  /\ \A e \in PendingEvents : e.event # stack[v][k].event.event
  <2>1. \A k \in Delivers(v) : stack[v][k].event.event \in Nat
    <3>1. \A k \in 1 .. Len(stack[v]) : stack[v][k] \in Frame
      BY ElementOfSeq DEF Safe, IInv, Typed
    <3> QED
      BY <3>1 DEF Delivers, Frame, Entry
  <2> QED
    BY <1>1, <2>1 DEF Safe, PInv, HandledOnce
<1>4. lastEvent \in Nat /\ (lastEvent' = lastEvent \/ lastEvent' = lastEvent + 1)
  BY StepKinds DEF Keeps, Adds, Carries, Takes, Safe, IInv, Typed
\* An event that is posted is new.
<1>5. \A e \in PendingEvents' : e \in PendingEvents \/ e.event = lastEvent + 1
  <2>1. Adds(t) => PostedRec(t).event = lastEvent + 1
    BY PostedTo DEF Adds
  <2> QED
    BY <2>1, StepKinds, PendingAfter
<1>6. ASSUME NEW v \in Threads, NEW k \in Delivers(v)
      PROVE  /\ stack[v][k].event.event <= lastEvent'
             /\ \A e \in PendingEvents' : e.event # stack[v][k].event.event
  <2>1. /\ stack[v][k].event.event <= lastEvent /\ stack[v][k].event.event \in Nat
        /\ \A e \in PendingEvents : e.event # stack[v][k].event.event
    BY <1>3
  <2>2. stack[v][k].event.event <= lastEvent' /\ stack[v][k].event.event # lastEvent + 1
    BY <1>4, <2>1
  <2> QED
    BY <1>5, <2>1, <2>2
<1>7. SUFFICES ASSUME NEW v \in Threads
               PROVE  /\ \A j, k \in Delivers(v)' :
                           stack'[v][j].event.event = stack'[v][k].event.event => j = k
                      /\ \A k \in Delivers(v)' :
                           /\ stack'[v][k].fn = "send"
                           /\ stack'[v][k].event.event <= lastEvent'
                           /\ \A e \in PendingEvents' : e.event # stack'[v][k].event.event
  BY <1>2 DEF HandledOnce, In
<1>8. CASE Delivers(v)' \subseteq Delivers(v)
            /\ \A k \in Delivers(v)' : stack'[v][k] = stack[v][k]
  BY <1>3, <1>6, <1>8
<1>9. CASE v # t /\ OthersKept(t)
  BY <1>8, <1>9 DEF OthersKept, Delivers
<1>10. CASE v = t /\ (HandlersKept(t) \/ HandlerEnded(t))
  BY <1>8, <1>10 DEF HandlersKept, HandlerEnded, SameFrames
<1>11. ASSUME CallStepOf(t) PROVE HandlersKept(t)
  BY <1>11, CallStepKeeps DEF HandlersKept, SameFrames, OthersKept, Delivers
<1>12. CASE v = t /\ ScanDeliver(t) /\ HandlerBegun(t, Current(t))
  <2> DEFINE n == Len(stack[t])
             x == Rec(Current(t))
  <2>1. /\ Delivers(t)' = Delivers(t) \cup {n} /\ n \notin Delivers(t)
        /\ \A k \in Delivers(t) : stack'[t][k] = stack[t][k]
        /\ stack'[t][n].event = Current(t) /\ stack'[t][n].fn = "send"
    BY <1>12 DEF HandlerBegun, SameFrames
  <2>2. x \in In(t) /\ x.event = Current(t).event
    BY <1>12, DeliverEvents DEF Removed, Rec
  <2>3. x \in PendingEvents /\ PendingEvents' = PendingEvents \ {x} /\ lastEvent' = lastEvent
    BY <1>12, <2>2, DeliverEvents, PendingAfter DEF Takes, ScanDeliver, Rec
  <2>4. x.event <= lastEvent'
    BY <1>4, <2>2, <2>3 DEF Safe, PInv, Numbered
  <2> HIDE DEF n, x
  <2>5. ASSUME NEW e \in PendingEvents', e.event = x.event PROVE FALSE
    <3>1. e \in PendingEvents /\ e # x
      BY <2>3, <2>5
    <3>2. PICK u \in Threads : e \in In(u)
      BY <1>1, <3>1
    <3>3. u = t
      BY <2>2, <2>5, <3>2 DEF Safe, PInv, EachOnce
    <3>4. PICK j \in LiveAt(list[t]), k \in LiveAt(list[t]) :
            e = Rec(list[t][j]) /\ x = Rec(list[t][k])
      BY <2>2, <3>2, <3>3 DEF In, Recs
    <3>5. list[t][j].event = list[t][k].event
      BY <2>5, <3>4 DEF Rec
    <3> QED
      BY <3>1, <3>4, <3>5, ListTypes DEF Once
  <2>6. \A k \in Delivers(t) : stack[t][k].event.event # x.event
    BY <1>3, <2>3
  <2>7. ASSUME NEW k \in Delivers(t)'
        PROVE  /\ stack'[t][k].fn = "send" /\ stack'[t][k].event.event <= lastEvent'
               /\ \A e \in PendingEvents' : e.event # stack'[t][k].event.event
    <3>1. CASE k \in Delivers(t)
      BY <1>3, <1>6, <2>1, <3>1
    <3>2. CASE k = n
      BY <2>1, <2>2, <2>4, <2>5, <3>2
    <3> QED
      BY <2>1, <3>1, <3>2
  <2>8. \A j, k \in Delivers(t)' :
          stack'[t][j].event.event = stack'[t][k].event.event => j = k
    BY <1>3, <2>1, <2>2, <2>6
  <2> QED
    BY <1>12, <2>7, <2>8
<1>13. CASE CallStepOf(t)
  BY <1>9, <1>10, <1>11, <1>13 DEF HandlersKept, SameFrames
<1>14. CASE Loop(t)
  BY <1>9, <1>10, <1>14, LoopHandlers DEF HandlersKept, SameFrames
<1>15. CASE Send(t)
  BY <1>9, <1>10, <1>12, <1>15, SendHandlers
  DEF HandlersKept, HandlerBegun, HandlerEnded, SameFrames
<1> QED
  BY <1>13, <1>14, <1>15 DEF StepOf

-----------------------------------------------------------------------------
(* The invariant holds.                                                    *)

\* Initially nothing is posted and nobody does anything.
LEMMA PendingInitially == Init => PInv
<1> SUFFICES ASSUME Init PROVE PInv
  OBVIOUS
<1>1. \A t \in Threads : /\ call[t].fn = "none" /\ stack[t] = <<>> /\ list[t] = <<>>
  BY DEF Init, Idle
<1>2. \A t \in Threads : Len(stack[t]) = 0 /\ Len(list[t]) = 0
  BY <1>1
<1>3. \A t \in Threads : LiveAt(list[t]) = {} /\ Delivers(t) = {}
  BY <1>2 DEF LiveAt, Delivers
<1>4. \A t \in Threads : In(t) = {}
  BY <1>3 DEF In, Recs
<1>5. PendingEvents = {}
  BY <1>3 DEF PendingEvents, LiveIn, LiveAt
<1>6. EachOnce /\ Numbered /\ InPlace /\ OneDeferred /\ DeadSwept
  BY <1>3, <1>4 DEF EachOnce, Once, Numbered, InPlace, OneDeferred, DeadSwept
<1>7. CalledAlive /\ Swept /\ Gap
  BY <1>1 DEF CalledAlive, Swept, Gap
<1>8. HandledOnce
  BY <1>3 DEF HandledOnce
<1>9. Counted
  <2>1. \A r \in Objects : Posted(r) = {} /\ postedEvents[r] = 0
    BY <1>5 DEF Posted, Init
  <2> QED
    BY <2>1, FS_EmptySet DEF Counted
<1> QED
  BY <1>6, <1>7, <1>8, <1>9 DEF PInv

\* Every step keeps the inductive invariant.
LEMMA PendingStep == Safe /\ [Next]_vars => PInv'
<1> SUFFICES ASSUME Safe, [Next]_vars PROVE PInv'
  OBVIOUS
<1>1. ASSUME NEW t \in Threads, StepOf(t) PROVE PInv'
  <2>1. EachOnce' /\ Numbered' /\ Counted'
    BY <1>1, EachOnceStep, CountedStep
  <2>2. InPlace' /\ CalledAlive' /\ Swept' /\ Gap'
    BY <1>1, InPlaceStep, CalledAliveStep, SweptStep
  <2>3. OneDeferred' /\ DeadSwept' /\ HandledOnce'
    BY <1>1, OneDeferredStep, DeadSweptStep, HandledOnceStep
  <2> QED
    BY <2>1, <2>2, <2>3 DEF PInv
<1>2. CASE UNCHANGED vars
  <2>1. UNCHANGED <<list, recursion, threadData, postedEvents, alive, stack, call, lastEvent>>
    BY <1>2 DEF vars, dataVars, queueVars, objectVars
  <2>2. EachOnce' = EachOnce /\ Numbered' = Numbered /\ OneDeferred' = OneDeferred
    BY <2>1 DEF EachOnce, Numbered, OneDeferred, In
  <2>3. Counted' = Counted
    BY <2>1 DEF Counted, Posted, PendingEvents, LiveIn
  <2>4. InPlace' = InPlace /\ CalledAlive' = CalledAlive /\ Swept' = Swept /\ Gap' = Gap
    BY <2>1 DEF InPlace, CalledAlive, Swept, Gap, Moves, In, Compacting
  <2>5. DeadSwept' = DeadSwept /\ HandledOnce' = HandledOnce
    BY <2>1 DEF DeadSwept, HandledOnce, Sweeps, In, Delivers
  <2> QED
    BY <2>2, <2>3, <2>4, <2>5 DEF Safe, PInv
<1>3. Next => \E t \in Threads : StepOf(t)
  BY DEF Next, CallStepOf, StepOf
<1> QED
  BY <1>1, <1>2, <1>3

\* The inductive invariant holds in every state that can be reached.
LEMMA SafeAlways == Spec => []Safe
<1>1. Init => Safe
  BY InitialInvariant, TakenInitially, PendingInitially DEF Safe
<1>2. Safe /\ [Next]_vars => Safe'
  BY InvariantStep, TakenStep, PendingStep DEF Safe
<1> QED
  BY <1>1, <1>2, PTL DEF Spec

\* The entries of an object, where they are, are as many as the events.
LEMMA EntriesCounted ==
  ASSUME Safe, NEW r \in Objects
  PROVE  postedEvents[r] = Cardinality(UNION {{t} \X PendingFor(r, t) : t \in Threads})
<1> DEFINE P == UNION {{t} \X PendingFor(r, t) : t \in Threads}
           e(p) == Rec(list[p[1]][p[2]])
           f == [p \in P |-> e(p)]
           Entered(x) == CHOOSE p \in P : e(p) = x
           g == [x \in Posted(r) |-> Entered(x)]
<1>1. \A p : p \in P <=> \E t \in Threads : \E k \in PendingFor(r, t) : p = <<t, k>>
  OBVIOUS
<1>2. ASSUME NEW p \in P PROVE e(p) \in Posted(r)
  <2>0. PICK t \in Threads : \E k \in PendingFor(r, t) : p = <<t, k>>
    BY <1>1
  <2>1. PICK k \in PendingFor(r, t) : p = <<t, k>>
    BY <2>0
  <2>2. k \in LiveIn(t) /\ list[t][k].receiver = r
    BY DEF PendingFor
  <2>3. e(p) = Rec(list[t][k])
    BY <2>1
  <2>4. e(p) \in PendingEvents /\ e(p).receiver = r
    BY <2>2, <2>3 DEF PendingEvents, Rec
  <2> QED
    BY <2>4 DEF Posted
<1>3. ASSUME NEW x \in Posted(r) PROVE \E p \in P : e(p) = x
  <2>0. PICK t \in Threads : \E k \in LiveIn(t) : x = Rec(list[t][k])
    BY DEF Posted, PendingEvents, Rec
  <2>1. PICK k \in LiveIn(t) : x = Rec(list[t][k])
    BY <2>0
  <2>2. k \in PendingFor(r, t)
    BY <2>1 DEF Posted, Rec, PendingFor
  <2>3. <<t, k>> \in P /\ e(<<t, k>>) = x
    BY <1>1, <2>1, <2>2
  <2> QED
    BY <2>3
<1>4. ASSUME NEW p \in P, NEW q \in P, e(p) = e(q) PROVE p = q
  <2>0. PICK t \in Threads : \E j \in PendingFor(r, t) : p = <<t, j>>
    BY <1>1
  <2>1. PICK j \in PendingFor(r, t) : p = <<t, j>>
    BY <2>0
  <2>9. PICK u \in Threads : \E k \in PendingFor(r, u) : q = <<u, k>>
    BY <1>1
  <2>2. PICK k \in PendingFor(r, u) : q = <<u, k>>
    BY <2>9
  <2>3. j \in LiveAt(list[t]) /\ k \in LiveAt(list[u])
    BY DEF PendingFor, LiveIn, LiveAt
  <2>4. Rec(list[t][j]) = Rec(list[u][k])
    BY <1>4, <2>1, <2>2
  <2>5. list[t][j].event = list[u][k].event
    BY <2>4 DEF Rec
  <2>6. Rec(list[t][j]) \in In(t) /\ Rec(list[u][k]) \in In(u)
    BY <2>3, ListTypes
  <2>7. t = u
    BY <2>4, <2>6 DEF Safe, PInv, EachOnce
  <2>8. j = k
    BY <2>3, <2>5, <2>7, ListTypes DEF Once
  <2> QED
    BY <2>1, <2>2, <2>7, <2>8
<1> HIDE DEF P, e
<1>5. \A x \in Posted(r) : Entered(x) \in P /\ e(Entered(x)) = x
  BY <1>3
<1>6. \A p \in P : Entered(e(p)) = p
  BY <1>2, <1>4, <1>5
<1> HIDE DEF Entered
<1>7. g \in [Posted(r) -> P] /\ \A x \in Posted(r) : g[x] = Entered(x)
  BY <1>5
<1> HIDE DEF g
<1>8. g \in Bijection(Posted(r), P)
  <2>1. \A x, y \in Posted(r) : g[x] = g[y] => x = y
    BY <1>5, <1>7
  <2>2. \A p \in P : \E x \in Posted(r) : g[x] = p
    BY <1>2, <1>6, <1>7
  <2> QED
    BY <1>7, <2>1, <2>2 DEF Bijection, Injection, Surjection, IsInjective
<1>9. Cardinality(P) = Cardinality(Posted(r))
  BY <1>8, FS_Bijection DEF ExistsBijection, Safe, PInv, Counted
<1> QED
  BY <1>9 DEF P, Safe, PInv, Counted

\* For any threads, objects and calls, postedEvents of an object is the number
\* of events in the queues for it, and these are in the queue of its thread or
\* of the thread it is being moved to: postEvent, sendPostedEvents,
\* removePostedEvents and the destructor skip a queue only when nothing in it
\* is for the object.
THEOREM PostedEventsAreCounted == Spec => []PostedEventsCounted
<1>1. Safe => PostedEventsCounted
  <2> SUFFICES ASSUME Safe, NEW r \in Objects, NEW t \in Threads, PendingFor(r, t) # {}
               PROVE  \/ threadData[r] = t
                      \/ \E u \in Threads : /\ call[u].fn = "moving" /\ call[u].receiver = r
                                            /\ call[u].to = t
    BY EntriesCounted DEF PostedEventsCounted
  <2>1. PICK k \in LiveAt(list[t]) : list[t][k].receiver = r
    BY DEF PendingFor, LiveIn, LiveAt
  <2>2. Rec(list[t][k]) \in In(t) /\ Rec(list[t][k]).receiver = r
    BY <2>1, ListTypes DEF Rec
  <2> QED
    BY <2>2 DEF Safe, PInv, InPlace, Moves
<1> QED
  BY <1>1, SafeAlways, PTL

\* However many threads call deleteLater however often, and wherever the event
\* is posted again or moved, at most one deferred delete of an object is queued.
THEOREM AtMostOneDeferredDelete == Spec => []OneDeferredDelete
<1>1. Safe => OneDeferredDelete
  <2> SUFFICES ASSUME Safe, NEW r \in Objects, NEW t \in Threads, NEW u \in Threads,
                      NEW j \in PendingFor(r, t), NEW k \in PendingFor(r, u),
                      list[t][j].type = DeferredDelete, list[u][k].type = DeferredDelete
               PROVE  t = u /\ j = k
    BY DEF OneDeferredDelete
  <2>1. j \in LiveAt(list[t]) /\ k \in LiveAt(list[u])
        /\ list[t][j].receiver = r /\ list[u][k].receiver = r
    BY DEF PendingFor, LiveIn, LiveAt
  <2> DEFINE e == Rec(list[t][j])
             f == Rec(list[u][k])
  <2>2. /\ e.receiver = f.receiver /\ e.type = DeferredDelete /\ f.type = DeferredDelete
        /\ e.event = list[t][j].event /\ f.event = list[u][k].event
    BY <2>1 DEF Rec
  <2>3. e \in In(t) /\ f \in In(u)
    BY <2>1, ListTypes
  <2> HIDE DEF e, f
  <2>4. e.event = f.event
    BY <2>2, <2>3 DEF Safe, PInv, OneDeferred
  <2>5. t = u
    BY <2>3, <2>4 DEF Safe, PInv, EachOnce
  <2>6. j = k
    BY <2>1, <2>2, <2>4, <2>5, ListTypes DEF Once
  <2> QED
    BY <2>5, <2>6
<1> QED
  BY <1>1, SafeAlways, PTL

\* Whatever other threads post and wherever the object has been, when its
\* destructor is through nothing is queued for it any more.
THEOREM DeadReceiveNothing == Spec => []NothingForTheDead
<1>1. Safe => NothingForTheDead
  <2> SUFFICES ASSUME Safe, NEW r \in Objects, NEW t \in Threads,
                      ~alive[r], PendingFor(r, t) # {}
               PROVE  \E u \in Threads : /\ call[u].fn \in {"remove", "removing"}
                                         /\ call[u].receiver = r
    BY DEF NothingForTheDead
  <2>1. PICK k \in LiveAt(list[t]) : list[t][k].receiver = r
    BY DEF PendingFor, LiveIn, LiveAt
  <2>2. Rec(list[t][k]) \in In(t) /\ Rec(list[t][k]).receiver = r
    BY <2>1, ListTypes DEF Rec
  <2>3. Sweeps(t, r)
    BY <2>2 DEF Safe, PInv, DeadSwept
  <2> QED
    BY <2>3 DEF Sweeps
<1> QED
  BY <1>1, SafeAlways, PTL

-----------------------------------------------------------------------------
(* The lists implement the abstract queue: what a step is there.           *)

\* What the refinement mapping makes of the stacks and the calls.
Handling == [t \in Threads |-> Handlers(t)]
Removals == [t \in Threads |-> IF call[t].fn = "removing"
                                 THEN <<call[t].receiver, call[t].type>> ELSE <<>>]

\* What a change of the handlers is for the abstract queue.
LEMMA HandlingAfter ==
  ASSUME Safe, NEW t \in Threads
  PROVE  /\ HandlersKept(t) => Handling' = Handling
         /\ \A e : HandlerBegun(t, e) => Handling' = [Handling EXCEPT ![t] = @ \cup {e.event}]
         /\ HandlerEnded(t) =>
              \E n \in Handling[t] : Handling' = [Handling EXCEPT ![t] = @ \ {n}]
<1>1. Handlers(t) = {stack[t][k].event.event : k \in Delivers(t)}
  BY DEF Handlers, Delivers
<1>2. Handlers(t)' = {stack'[t][k].event.event : k \in Delivers(t)'}
  BY DEF Handlers, Delivers
<1>3. Handling' = [u \in Threads |-> Handlers(u)'] /\ Handling = [u \in Threads |-> Handlers(u)]
  BY DEF Handling
<1>4. SameFrames(t) => \A u \in Threads : u # t => Handlers(u)' = Handlers(u)
  BY DEF SameFrames, OthersKept, Handlers
<1>5. ASSUME HandlersKept(t) PROVE Handling' = Handling
  <2>1. Handlers(t)' = Handlers(t)
    BY <1>1, <1>2, <1>5 DEF HandlersKept, SameFrames
  <2>2. \A u \in Threads : Handlers(u)' = Handlers(u)
    BY <1>4, <1>5, <2>1 DEF HandlersKept
  <2> QED
    BY <1>3, <2>2
<1>6. ASSUME NEW e, HandlerBegun(t, e)
      PROVE  Handling' = [Handling EXCEPT ![t] = @ \cup {e.event}]
  <2>1. Handlers(t)' = Handlers(t) \cup {e.event}
    BY <1>1, <1>2, <1>6 DEF HandlerBegun, SameFrames
  <2>2. \A u \in Threads : u # t => Handlers(u)' = Handlers(u)
    BY <1>4, <1>6 DEF HandlerBegun
  <2> QED
    BY <1>3, <2>1, <2>2
<1>7. ASSUME HandlerEnded(t)
      PROVE  \E n \in Handling[t] : Handling' = [Handling EXCEPT ![t] = @ \ {n}]
  <2> DEFINE m == Len(stack[t])
             n == stack[t][m].event.event
  <2>1. /\ m \in Delivers(t) /\ Delivers(t)' = Delivers(t) \ {m}
        /\ \A k \in Delivers(t) : k # m => stack'[t][k] = stack[t][k]
    BY <1>7 DEF HandlerEnded, SameFrames
  <2>2. \A k \in Delivers(t) : k # m => stack[t][k].event.event # n
    BY <2>1 DEF Safe, PInv, HandledOnce
  <2> HIDE DEF m
  <2>3. Handlers(t)' = Handlers(t) \ {n}
    BY <1>1, <1>2, <2>1, <2>2
  <2>4. \A u \in Threads : u # t => Handlers(u)' = Handlers(u)
    BY <1>4, <1>7 DEF HandlerEnded
  <2>5. n \in Handlers(t)
    BY <1>1, <2>1
  <2> HIDE DEF n
  <2>6. Handling' = [Handling EXCEPT ![t] = @ \ {n}] /\ n \in Handling[t]
    BY <1>3, <2>3, <2>4, <2>5
  <2> QED
    BY <2>6
<1> QED
  BY <1>5, <1>6, <1>7

\* A removal is known from its start to its end.
LEMMA RemovalsAfter ==
  ASSUME Safe, NEW t \in Threads, StepOf(t)
  PROVE  /\ call'[t].fn # "removing" => Removals' = [Removals EXCEPT ![t] = <<>>]
         /\ call'[t].fn = "removing" =>
              Removals' = [Removals EXCEPT ![t] = <<call'[t].receiver, call'[t].type>>]
         /\ Removals[t] = IF call[t].fn = "removing"
                            THEN <<call[t].receiver, call[t].type>> ELSE <<>>
         /\ call[t].fn # "removing" /\ call'[t].fn # "removing" => Removals' = Removals
         /\ /\ call[t].fn = "removing" /\ call'[t].fn = "removing"
            /\ call'[t].receiver = call[t].receiver /\ call'[t].type = call[t].type
            => Removals' = Removals
<1>1. \A u \in Threads : u # t => call'[u] = call[u]
  BY OtherCalls
<1> DEFINE R(c) == IF c.fn = "removing" THEN <<c.receiver, c.type>> ELSE <<>>
<1>2. /\ Removals = [u \in Threads |-> R(call[u])]
      /\ Removals' = [u \in Threads |-> R(call'[u])]
  BY DEF Removals
<1>3. /\ call[t].fn # "removing" => R(call[t]) = <<>>
      /\ call[t].fn = "removing" => R(call[t]) = <<call[t].receiver, call[t].type>>
      /\ call'[t].fn # "removing" => R(call'[t]) = <<>>
      /\ call'[t].fn = "removing" => R(call'[t]) = <<call'[t].receiver, call'[t].type>>
  OBVIOUS
<1>4. Removals[t] = R(call[t])
  BY <1>2
<1> HIDE DEF R
<1>5. Removals' = [Removals EXCEPT ![t] = R(call'[t])]
  BY <1>1, <1>2
<1>6. R(call'[t]) = R(call[t]) => Removals' = Removals
  BY <1>1, <1>2
<1> QED
  BY <1>3, <1>4, <1>5, <1>6

\* Only posting, delivering, removing and discarding change what is pending.
LEMMA QuietSteps ==
  ASSUME Safe, NEW t \in Threads, StepOf(t),
         ~PostAdd(t), ~ScanDeliver(t), ~RemoveMatch(t),
         \A k \in 1 .. Len(list[t]) : ~RemoveEvent(t, k)
  PROVE  PendingEvents' = PendingEvents /\ lastEvent' = lastEvent
<1>1. ASSUME SameEvents PROVE PendingEvents' = PendingEvents
  <2>1. PendingEvents = UNION {In(u) : u \in Threads}
    BY DEF PendingEvents, In, Recs, Rec, LiveAt, LiveIn
  <2>2. PendingEvents' = UNION {Recs(list'[u]) : u \in Threads}
    BY DEF PendingEvents, Recs, Rec, LiveAt, LiveIn
  <2> QED
    BY <1>1, <2>1, <2>2 DEF SameEvents
<1>2. CASE CallStepOf(t) /\ CallChanges(t)
  <2>1. CASE RemoveKeep(t) \/ RemoveEnd(t)
    BY <1>1, <2>1, KeepEvents, CutEvents DEF RemoveKeep, RemoveEnd
  <2>2. CASE MoveStep(t)
    <3>1. UNCHANGED <<postedEvents, lastEvent>>
      BY <2>2 DEF MoveStep, objectVars
    <3>2. Keeps \/ Carries(t)
      BY <2>2, <3>1, MoveEvents DEF Keeps, Carries
    <3> QED
      BY <3>1, <3>2, PendingAfter
  <2> QED
    BY <1>2, <2>1, <2>2 DEF CallChanges
<1>3. CASE CallStepOf(t) /\ ~CallChanges(t)
  BY <1>1, <1>3, OtherCallSteps, SameListEvents
<1>4. CASE (Send(t) \/ Loop(t)) /\ SendChanges(t)
  <2>1. CASE ScanHold(t)
    BY <1>1, <2>1, HoldEvents DEF ScanHold
  <2>2. CASE HandlerThrow(t) \/ SendEnd(t)
    <3>1. \E waits : CleanUp(t, waits)
      BY <2>2 DEF HandlerThrow, SendEnd
    <3> QED
      BY <1>1, <2>2, <3>1, CleanUpEvents DEF HandlerThrow, SendEnd
  <2> QED
    BY <1>4, <2>1, <2>2 DEF SendChanges
<1>5. CASE (Send(t) \/ Loop(t)) /\ ~SendChanges(t)
  BY <1>1, <1>5, OtherSendSteps, SameListEvents
<1> QED
  BY <1>2, <1>3, <1>4, <1>5 DEF StepOf

\* A call begins and ends no handler.
LEMMA CallHandling ==
  ASSUME Safe, NEW t \in Threads, CallStepOf(t)
  PROVE  Handling' = Handling
<1>1. HandlersKept(t)
  BY CallStepKeeps DEF HandlersKept, SameFrames, OthersKept, Delivers
<1> QED
  BY <1>1, HandlingAfter

\* The step of a thread, in the abstract queue.
LEMMA PostRefined ==
  ASSUME Safe, NEW t \in Threads, Post(t)
  PROVE  [Queue!Next]_Queue!vars
<1>1. StepOf(t) /\ CallStepOf(t)
  BY DEF StepOf, CallStepOf
<1>2. Handling' = Handling
  BY <1>1, CallHandling
<1>3. Removals' = Removals
  <2>1. call'[t].fn # "removing"
    BY PostCalls DEF Safe, IInv
  <2>2. call[t].fn # "removing"
    BY DEF Post, PostBegin, PostFollow, PostCompress, PostAdd, PostWakeUp, UserCode
  <2> QED
    BY <1>1, <2>1, <2>2, RemovalsAfter
<1>4. alive' = alive /\ threadData' = threadData
  BY DEF Post, PostBegin, PostFollow, PostCompress, PostAdd, PostWakeUp, dataVars, objectVars
<1>5. CASE PostAdd(t)
  <2> DEFINE r == call[t].receiver
             ty == call[t].type
  <2>1. r \in Objects /\ alive[r] /\ ty \in Types
    BY <1>5, PostedTo DEF Safe, PInv, CalledAlive, PostAdd
  <2>2. lastEvent' = lastEvent + 1
    BY <1>5 DEF PostAdd
  <2>3. PostedRec(t) = [event |-> lastEvent', receiver |-> r, type |-> ty]
    BY <2>2 DEF PostedRec, Rec, PostedEntry
  <2>4. PendingEvents' = PendingEvents \cup {[event |-> lastEvent', receiver |-> r, type |-> ty]}
    <3>1. Adds(t)
      BY <1>5, PostEvents DEF Adds, PostedRec, PostAdd
    <3> QED
      BY <1>1, <2>3, <3>1, PendingAfter
  <2> HIDE DEF r, ty
  <2>5. Queue!Post(r, ty)
    BY <1>2, <1>3, <1>4, <2>1, <2>2, <2>4 DEF Queue!Post, Handling, Removals
  <2> QED
    BY <2>1, <2>5 DEF Queue!Next
<1>6. CASE ~PostAdd(t)
  <2>1. PendingEvents' = PendingEvents /\ lastEvent' = lastEvent
    <3>1. list' = list /\ lastEvent' = lastEvent
      BY <1>6 DEF Post, PostBegin, PostFollow, PostCompress, PostWakeUp, dataVars, queueVars
    <3> QED
      BY <3>1 DEF PendingEvents, LiveIn
  <2> QED
    BY <1>2, <1>3, <1>4, <2>1 DEF Queue!vars, Handling, Removals
<1> QED
  BY <1>5, <1>6

\* A removal takes what it asked for; other deletions are discards.
LEMMA RemoveRefined ==
  ASSUME ~MayDeleteEvents, Safe, NEW t \in Threads, Remove(t)
  PROVE  [Queue!Next]_Queue!vars
<1>0. StepOf(t) /\ CallStepOf(t)
  BY DEF StepOf, CallStepOf
<1>1. Handling' = Handling
  BY <1>0, CallHandling
<1>2. alive' = alive /\ threadData' = threadData /\ lastEvent' = lastEvent
  BY DEF Remove, RemoveBegin, RemoveStart, RemoveMatch, RemoveKeep, RemoveEnd, RemoveEvent,
         dataVars, objectVars
<1>3. call[t] \in Call /\ call \in [Threads -> Call]
  BY CallTypes DEF Safe, IInv, Typed
<1>4. ASSUME list' = list PROVE PendingEvents' = PendingEvents
  BY <1>4 DEF PendingEvents, LiveIn
<1>5. ASSUME PendingEvents' = PendingEvents, Removals' = Removals
      PROVE  [Queue!Next]_Queue!vars
  BY <1>1, <1>2, <1>5 DEF Queue!vars, Handling, Removals
<1>6. ASSUME NEW r, NEW ty, RemoveBegin(t, r, ty) PROVE [Queue!Next]_Queue!vars
  <2>1. call[t].fn # "removing" /\ list' = list
    BY <1>6 DEF RemoveBegin, UserCode, dataVars, queueVars
  <2>2. call'[t].fn = "remove"
    BY <1>3, <1>6 DEF RemoveBegin, RemoveCall, Idle
  <2> QED
    BY <1>0, <1>4, <1>5, <2>1, <2>2, RemovalsAfter
<1>7. ASSUME RemoveStart(t) PROVE [Queue!Next]_Queue!vars
  <2>1. call[t].fn = "remove" /\ list' = list
    BY <1>7 DEF RemoveStart, dataVars, queueVars
  <2>2. PendingEvents' = PendingEvents
    BY <1>4, <2>1
  <2>3. CASE call'[t].fn # "removing"
    BY <1>0, <1>5, <2>1, <2>2, <2>3, RemovalsAfter
  <2>4. CASE call'[t].fn = "removing"
    <3>1. call'[t] = Idle(t) \/ call'[t] = [call[t] EXCEPT !.fn = "removing"]
      BY <1>3, <1>7 DEF RemoveStart
    <3>2. Idle(t).fn = "none"
      BY DEF Idle
    <3>3. call'[t].receiver = call[t].receiver /\ call'[t].type = call[t].type
      BY <1>3, <2>4, <3>1, <3>2 DEF Call
    <3>4. /\ Removals[t] = <<>>
          /\ Removals' = [Removals EXCEPT ![t] = <<call[t].receiver, call[t].type>>]
      BY <1>0, <2>1, <2>4, <3>3, RemovalsAfter
    <3>5. PICK r, ty : r = call[t].receiver /\ ty = call[t].type
      OBVIOUS
    <3>6. Queue!StartRemoval(t, r, ty)
      BY <1>1, <1>2, <2>2, <3>4, <3>5 DEF Queue!StartRemoval, Handling, Removals
    <3>7. r \in Objects \cup {None} /\ ty \in Types \cup {Any}
      BY <1>3, <3>5 DEF Call
    <3> QED
      BY <3>6, <3>7 DEF Queue!Next
  <2> QED
    BY <2>3, <2>4
<1>8. ASSUME RemoveMatch(t) PROVE [Queue!Next]_Queue!vars
  <2> DEFINE u == call[t].data
             e == list[u][call[t].i + 1]
             x == Rec(e)
  <2>1. Removed(u, x) /\ u \in Threads
    BY <1>8, MatchEvents
  <2>2. postedEvents' = Uncounted(x.receiver)
    BY <1>8 DEF RemoveMatch, Rec
  <2>3. Matches(e, call[t].receiver, call[t].type) /\ call[t].fn = "removing"
    BY <1>8 DEF RemoveMatch, Removing, ToRemove
  <2>4. call[t].receiver \in {None, x.receiver} /\ call[t].type \in {Any, x.type}
    BY <2>3 DEF Matches, Rec
  <2> HIDE DEF u, e, x
  <2>5. x \in PendingEvents /\ PendingEvents' = PendingEvents \ {x}
    BY <1>0, <1>2, <2>1, <2>2, PendingAfter DEF Takes, Removed
  <2>6. /\ call'[t].fn = "removing" /\ call'[t].receiver = call[t].receiver
        /\ call'[t].type = call[t].type
    <3>1. call'[t] = [call[t] EXCEPT !.i = @ + 1]
      BY <1>8, RemoveMatchSwept
    <3> QED
      BY <1>3, <2>3, <3>1 DEF Call
  <2>7. Removals' = Removals /\ Removals[t] = <<call[t].receiver, call[t].type>>
    BY <1>0, <2>3, <2>6, RemovalsAfter
  <2>8. Removals[t] # <<>> /\ Removals[t][1] = call[t].receiver /\ Removals[t][2] = call[t].type
    BY <2>7
  <2>9. Queue!Remove(t, x)
    BY <1>1, <1>2, <2>4, <2>5, <2>7, <2>8 DEF Queue!Remove, Handling, Removals
  <2> QED
    BY <2>5, <2>9 DEF Queue!Next
<1>9. ASSUME RemoveKeep(t) PROVE [Queue!Next]_Queue!vars
  <2>1. PICK i, j : call'[t] \in {[call[t] EXCEPT !.i = i], [call[t] EXCEPT !.i = i, !.j = j]}
    BY <1>9, RemoveKeepSwept
  <2>2. call[t].fn = "removing" /\ ~UserCode(t)
    BY <1>9 DEF RemoveKeep, Removing, UserCode
  <2>3. /\ call'[t].fn = "removing" /\ call'[t].receiver = call[t].receiver
        /\ call'[t].type = call[t].type
    BY <1>3, <2>1, <2>2 DEF Call
  <2>4. PendingEvents' = PendingEvents
    <3>1. postedEvents' = postedEvents /\ lastEvent' = lastEvent
      BY <1>9 DEF RemoveKeep, objectVars
    <3>2. Keeps
      BY <1>9, <3>1, KeepEvents DEF Keeps
    <3> QED
      BY <1>0, <3>2, PendingAfter
  <2> QED
    BY <1>0, <1>5, <2>2, <2>3, <2>4, RemovalsAfter
<1>10. ASSUME RemoveEnd(t) PROVE [Queue!Next]_Queue!vars
  <2>1. call'[t].fn = "none"
    BY <1>3, <1>10 DEF RemoveEnd, Idle
  <2>2. PendingEvents' = PendingEvents
    <3>1. postedEvents' = postedEvents /\ lastEvent' = lastEvent
      BY <1>10 DEF RemoveEnd, objectVars
    <3>2. Keeps
      BY <1>10, <3>1, CutEvents DEF Keeps
    <3> QED
      BY <1>0, <3>2, PendingAfter
  <2>3. Removals' = [Removals EXCEPT ![t] = <<>>]
    BY <1>0, <2>1, RemovalsAfter
  <2>4. Queue!EndRemoval(t)
    BY <1>1, <1>2, <2>2, <2>3 DEF Queue!EndRemoval, Handling, Removals
  <2> QED
    BY <2>4 DEF Queue!Next
<1>11. \A k \in 1 .. Len(list[t]) : ~RemoveEvent(t, k)
  BY DEF RemoveEvent
<1> QED
  BY <1>6, <1>7, <1>8, <1>9, <1>10, <1>11 DEF Remove

\* moveToThread changes the owner of the object at its end, nothing before.
LEMMA MoveRefined ==
  ASSUME Safe, NEW t \in Threads, Move(t)
  PROVE  [Queue!Next]_Queue!vars
<1>0. StepOf(t) /\ CallStepOf(t)
  BY DEF StepOf, CallStepOf
<1>1. Handling' = Handling
  BY <1>0, CallHandling
<1>2. alive' = alive /\ lastEvent' = lastEvent
  BY DEF Move, MoveBegin, MoveStep, MoveEnd, dataVars, objectVars
<1>3. Removals' = Removals
  <2>1. call[t].fn # "removing"
    BY DEF Move, MoveBegin, MoveStep, MoveEnd, Moving, UserCode
  <2>2. call'[t].fn # "removing"
    BY MoveCalls DEF Safe, IInv
  <2> QED
    BY <1>0, <2>1, <2>2, RemovalsAfter
<1>4. PendingEvents' = PendingEvents
  <2>1. ASSUME NEW r, NEW u, MoveBegin(t, r, u) PROVE PendingEvents' = PendingEvents
    <3>1. list' = list
      BY <2>1 DEF MoveBegin, dataVars, queueVars
    <3> QED
      BY <3>1 DEF PendingEvents, LiveIn
  <2>2. ASSUME MoveStep(t) PROVE PendingEvents' = PendingEvents
    <3>1. UNCHANGED <<postedEvents, lastEvent>>
      BY <2>2 DEF MoveStep, objectVars
    <3>2. Keeps \/ Carries(t)
      BY <2>2, <3>1, MoveEvents DEF Keeps, Carries
    <3> QED
      BY <1>0, <3>2, PendingAfter
  <2>3. ASSUME MoveEnd(t) PROVE PendingEvents' = PendingEvents
    <3>1. list' = list
      BY <2>3 DEF MoveEnd
    <3> QED
      BY <3>1 DEF PendingEvents, LiveIn
  <2> QED
    BY <2>1, <2>2, <2>3 DEF Move
<1>5. CASE MoveEnd(t)
  <2> DEFINE r == call[t].receiver
             u == call[t].to
  <2>1. call[t].fn = "moving" /\ threadData' = [threadData EXCEPT ![r] = u]
    BY <1>5 DEF MoveEnd
  <2>2. r \in Objects /\ alive[r]
    BY <2>1 DEF Safe, PInv, CalledAlive
  <2>3. u \in Threads
    BY CallTypes DEF Safe, IInv, Call
  <2> HIDE DEF r, u
  <2>4. Queue!Move(r, u)
    BY <1>1, <1>2, <1>3, <1>4, <2>1, <2>2 DEF Queue!Move, Handling, Removals
  <2> QED
    BY <2>2, <2>3, <2>4 DEF Queue!Next
<1>6. CASE ~MoveEnd(t)
  <2>1. threadData' = threadData
    BY <1>0, <1>6, ObjectsKept
  <2> QED
    BY <1>1, <1>2, <1>3, <1>4, <2>1 DEF Queue!vars, Handling, Removals
<1> QED
  BY <1>5, <1>6

\* The destructor is Destroy; what it removes are removals and discards.
LEMMA DestroyRefined ==
  ASSUME Safe, NEW t \in Threads, NEW r \in Objects, Destroy(t, r)
  PROVE  [Queue!Next]_Queue!vars
<1>0. StepOf(t) /\ CallStepOf(t)
  BY DEF StepOf, CallStepOf
<1>1. Handling' = Handling
  BY <1>0, CallHandling
<1>2. /\ alive' = [alive EXCEPT ![r] = FALSE] /\ threadData' = threadData
      /\ lastEvent' = lastEvent /\ list' = list
  BY DEF Destroy, queueVars
<1>3. PendingEvents' = PendingEvents
  BY <1>2 DEF PendingEvents, LiveIn
<1>4. Removals' = Removals
  <2>1. call[t].fn = "none"
    BY DEF Destroy
  <2>2. call' = call \/ call' = [call EXCEPT ![t] = RemoveCall(t, r, Any)]
    BY DEF Destroy
  <2>3. CASE call' = call
    BY <1>0, <2>1, <2>3, RemovalsAfter
  <2>4. CASE call' = [call EXCEPT ![t] = RemoveCall(t, r, Any)]
    <3>1. call'[t] = RemoveCall(t, r, Any)
      BY <2>4, CallTypes DEF Safe, IInv, Typed
    <3>2. call'[t].fn = "remove"
      BY <3>1 DEF RemoveCall, Idle
    <3> QED
      BY <1>0, <2>1, <3>2, RemovalsAfter
  <2> QED
    BY <2>2, <2>3, <2>4
<1>5. Queue!Destroy(r)
  BY <1>1, <1>2, <1>3, <1>4 DEF Queue!Destroy, Handling, Removals
<1> QED
  BY <1>5 DEF Queue!Next

\* What a send takes out of its list is for a living object of its thread.
LEMMA DeliveredTo ==
  ASSUME Safe, NEW t \in Threads, ScanDeliver(t)
  PROVE  alive[Current(t).receiver] /\ threadData[Current(t).receiver] = t
<1> DEFINE x == Rec(Current(t))
<1>1. x \in In(t) /\ x.receiver = Current(t).receiver
  BY DeliverEvents DEF Removed, Rec
<1>2. call[t].fn = "none"
  BY SendCalls DEF Safe, Send
<1>3. InSend(t, "scan")
  BY DEF ScanDeliver, Scanning
<1> HIDE DEF x
<1>4. alive[x.receiver]
  BY <1>1, <1>2 DEF Safe, PInv, DeadSwept, Sweeps
<1>5. \A u \in Threads : ~Moves(u, x.receiver, t)
  BY <1>3 DEF Moves, Holds, Safe, IInv, MutexExclusive
<1>6. threadData[x.receiver] = t
  BY <1>1, <1>5 DEF Safe, PInv, InPlace
<1> QED
  BY <1>1, <1>4, <1>6

\* Only ScanDeliver takes an event, and its handler then ends it.
LEMMA SendRefined ==
  ASSUME Safe, NEW t \in Threads, Send(t) \/ Loop(t)
  PROVE  [Queue!Next]_Queue!vars
<1>0. StepOf(t)
  BY DEF StepOf
<1>1. call' = call /\ call[t].fn = "none"
  BY SendCalls DEF Safe
<1>2. Removals' = Removals
  BY <1>1 DEF Removals
<1>3. alive' = alive /\ threadData' = threadData
  <2> USE DEF queueVars, objectVars, dataVars
  <2>1. CASE Send(t)
    BY <2>1 DEF Send, SendBegin, SendNothing, SendStart, ScanNull, ScanOther, ScanHold,
                ScanDeliver, HandlerReturn, HandlerThrow, SendEnd
  <2>2. CASE Loop(t)
    BY <2>2 DEF Loop, LoopBegin, LoopEnd, LoopAwake, LoopSend, LoopCheck, LoopBlock,
         LoopSelect
  <2> QED
    BY <2>1, <2>2
<1>4. CASE ScanDeliver(t)
  <2> DEFINE e == Current(t)
             x == Rec(e)
  <2>1. Removed(t, x)
    BY <1>4, DeliverEvents
  <2>2. postedEvents' = Uncounted(x.receiver) /\ lastEvent' = lastEvent
    BY <1>4 DEF ScanDeliver, Rec
  <2>3. x \in PendingEvents /\ PendingEvents' = PendingEvents \ {x}
    BY <1>0, <2>1, <2>2, PendingAfter DEF Takes, Removed
  <2>4. Handling' = [Handling EXCEPT ![t] = @ \cup {e.event}]
    BY <1>4, SendHandlers, HandlingAfter DEF Send
  <2>5. /\ alive[e.receiver] /\ threadData[e.receiver] = t
        /\ x.receiver = e.receiver /\ x.event = e.event
    BY <1>4, DeliveredTo DEF Rec
  <2> HIDE DEF x, e
  <2>6. Queue!Deliver(t, x)
    BY <1>2, <1>3, <2>2, <2>3, <2>4, <2>5 DEF Queue!Deliver, Handling, Removals
  <2> QED
    BY <2>3, <2>6 DEF Queue!Next
<1>5. CASE ~ScanDeliver(t)
  <2>1. PendingEvents' = PendingEvents /\ lastEvent' = lastEvent
    <3>1. CASE SendChanges(t)
      <4>1. CASE ScanHold(t)
        <5>1. Keeps
          BY <4>1, HoldEvents DEF ScanHold, Keeps, objectVars
        <5> QED
          BY <1>0, <5>1, PendingAfter DEF Keeps
      <4>2. CASE HandlerThrow(t) \/ SendEnd(t)
        <5>1. \E waits : CleanUp(t, waits)
          BY <4>2 DEF HandlerThrow, SendEnd
        <5>2. Keeps
          BY <4>2, <5>1, CleanUpEvents DEF HandlerThrow, SendEnd, Keeps, objectVars
        <5> QED
          BY <1>0, <5>2, PendingAfter DEF Keeps
      <4> QED
        BY <1>5, <3>1, <4>1, <4>2 DEF SendChanges
    <3>2. CASE ~SendChanges(t)
      <4>1. list' = list /\ lastEvent' = lastEvent
        BY <3>2, OtherSendSteps
      <4> QED
        BY <4>1 DEF PendingEvents, LiveIn
    <3> QED
      BY <3>1, <3>2
  <2>2. CASE HandlerReturn(t) \/ HandlerThrow(t)
    <3>1. \E n \in Handling[t] : Handling' = [Handling EXCEPT ![t] = @ \ {n}]
      BY <2>2, SendHandlers, HandlingAfter DEF Send
    <3>2. Queue!Handled(t)
      BY <1>2, <1>3, <2>1, <3>1 DEF Queue!Handled, Handling, Removals
    <3> QED
      BY <3>2 DEF Queue!Next
  <2>3. CASE ~(HandlerReturn(t) \/ HandlerThrow(t))
    <3>1. Handling' = Handling
      BY <1>5, <2>3, SendHandlers, LoopHandlers, HandlingAfter
    <3> QED
      BY <1>2, <1>3, <2>1, <3>1 DEF Queue!vars, Handling, Removals
  <2> QED
    BY <2>2, <2>3
<1> QED
  BY <1>4, <1>5

\* For any threads, objects and calls, the lists, offsets and mutexes of
\* postEvent, sendPostedEvents, removePostedEvents and moveToThread implement
\* a queue that loses nothing: an event stays posted until the thread of its
\* receiver handles it, once, or a removal that asks for it takes it away, as
\* long as code deletes no posted event itself.
THEOREM QueuesImplementEventQueue ==
  ASSUME ~MayDeleteEvents
  PROVE  Spec => ImplementsEventQueue
<1>1. Init => Queue!Init
  <2> SUFFICES ASSUME Init PROVE Queue!Init
    OBVIOUS
  <2>1. \A t \in Threads : call[t].fn = "none" /\ stack[t] = <<>> /\ list[t] = <<>>
    BY DEF Init, Idle
  <2>2. \A t \in Threads : Len(stack[t]) = 0 /\ Len(list[t]) = 0
    BY <2>1
  <2>3. PendingEvents = {}
    BY <2>2 DEF PendingEvents, LiveIn
  <2>4. \A t \in Threads : Handlers(t) = {}
    BY <2>2 DEF Handlers
  <2>5. threadData \in [Objects -> Threads]
    BY ConstantsAssumption DEF Init
  <2> QED
    BY <2>1, <2>3, <2>4, <2>5 DEF Queue!Init, Init
<1>2. Safe /\ [Next]_vars => [Queue!Next]_Queue!vars
  <2> SUFFICES ASSUME Safe, [Next]_vars PROVE [Queue!Next]_Queue!vars
    OBVIOUS
  <2>1. CASE UNCHANGED vars
    <3>1. UNCHANGED <<list, threadData, alive, stack, call, lastEvent>>
      BY <2>1 DEF vars, dataVars, queueVars, objectVars
    <3>2. PendingEvents' = PendingEvents /\ Handling' = Handling /\ Removals' = Removals
      BY <3>1 DEF PendingEvents, LiveIn, Handling, Handlers, Removals
    <3> QED
      BY <3>1, <3>2 DEF Queue!vars, Handling, Removals
  <2>2. CASE Next
    BY <2>2, PostRefined, RemoveRefined, MoveRefined, DestroyRefined, SendRefined DEF Next
  <2> QED
    BY <2>1, <2>2
<1> QED
  BY <1>1, <1>2, SafeAlways, PTL DEF Spec, ImplementsEventQueue, Queue!Spec
=============================================================================
