------------------------ MODULE ConnectionUseProofs ------------------------
(***************************************************************************)
(* The connections themselves: the last parts of the inductive invariant   *)
(* that ConnectionsProofs describes (Data, Walks, NewConns, Linked and     *)
(* Dirt), that all of it is invariant, and the theorems.                   *)
(*                                                                         *)
(* A frame in the lists stays good because only a thread that holds the    *)
(* mutex of an object changes its lists, and because nothing is taken out  *)
(* of a list while somebody uses it, but by the destructor, which orphans  *)
(* the lists before the emissions below it look at them again.             *)
(*                                                                         *)
(* QObject::sender has an invariant of its own, Switched: currentSender    *)
(* and the previous of each Sender lead through the slots of an object     *)
(* from the innermost to the outermost.  Emissions is the invariant of     *)
(* EachOnce: how far an emission has gone along its list.                  *)
(***************************************************************************)
EXTENDS ConnectionsProofs

-----------------------------------------------------------------------------
(* Connections are in one list each, and counted.                          *)

Once(s) == \A i, j \in DOMAIN s : s[i] = s[j] => i = j
Listed(c, o, g) == c \in ToSet(lists[o].of[g])
Placed(c) == \E o \in Objects, g \in Signals : Listed(c, o, g)

OnceListed ==
  /\ \A o \in Objects, g \in Signals : Once(lists[o].of[g])
  /\ \A c \in Conns : \A o, p \in Objects : \A g, h \in Signals :
       Listed(c, o, g) /\ Listed(c, p, h) => o = p /\ g = h
Counts ==
  /\ \A c \in Conns : conn[c].ref = (IF Placed(c) THEN 1 ELSE 0)
                                    + (IF c \in handles THEN 1 ELSE 0)
  /\ handles \subseteq Kept
Ends ==
  /\ \A c \in Conns, o \in Objects, g \in Signals : Listed(c, o, g) => conn[c].sender = o
  /\ \A c \in Conns : ~Broken(c) => Placed(c)
SendersOK ==
  \A r \in Objects : /\ \A c \in Conns : c \in ToSet(senders[r]) => conn[c].receiver = r
                     /\ Once(senders[r])
Data == OnceListed /\ Counts /\ Ends /\ SendersOK

LEMMA Members ==
  ASSUME Typed
  PROVE  /\ \A o \in Objects, g \in Signals : ToSet(lists[o].of[g]) \subseteq Conns
         /\ \A o \in Objects : ToSet(senders[o]) \subseteq Conns
BY ListTyped, ElementsTyped

LEMMA SendersAreKnown ==
  ASSUME Basic, Data
  PROVE  SendersKnown
<1> SUFFICES ASSUME NEW o \in Objects, senders[o] # <<>>
             PROVE  conn[Head(senders[o])].sender \in Objects
  BY DEF SendersKnown
<1>1. PICK s : s = senders[o]
  OBVIOUS
<1>2. s \in Seq(Conns) /\ s # <<>>
  BY <1>1, ListTyped DEF Basic
<1>3. Head(s) \in Conns /\ Head(s) \in ToSet(s)
  BY <1>2, HeadAndTail
<1>4. conn[Head(s)].receiver = o
  BY <1>1, <1>3 DEF Data, SendersOK
<1>5. Placed(Head(s))
  BY <1>3, <1>4, NoneElsewhere DEF Data, Ends, Broken
<1>6. conn[Head(s)].sender \in Objects
  BY <1>3, <1>5 DEF Placed, Data, Ends
<1> QED
  BY <1>1, <1>6

\* Nothing changes.
LEMMA DataSame ==
  ASSUME Data, \A o \in Objects, g \in Signals : lists'[o].of[g] = lists[o].of[g],
         UNCHANGED <<conn, handles, senders>>
  PROVE  Data'
<1>1. \A c, o, g : o \in Objects /\ g \in Signals => (Listed(c, o, g)' <=> Listed(c, o, g))
  BY DEF Listed
<1>2. \A c : Placed(c)' <=> Placed(c)
  BY <1>1 DEF Placed
<1>3. OnceListed'
  BY <1>1 DEF Data, OnceListed, Once
<1>4. Counts'
  BY <1>2 DEF Data, Counts
<1>5. Ends'
  BY <1>1, <1>2 DEF Data, Ends, Broken
<1>6. SendersOK'
  BY DEF Data, SendersOK
<1> QED
  BY <1>3, <1>4, <1>5, <1>6 DEF Data

\* Senders that become fewer
Fewer(s, r) == ToSet(r) \subseteq ToSet(s) /\ (Once(s) => Once(r))

LEMMA WithoutOnce ==
  ASSUME NEW A, NEW q \in Seq(A), NEW S, NEW w, w = Without(q, S)
  PROVE  w \in Seq(A) /\ ToSet(w) = ToSet(q) \ S /\ (Once(q) => Once(w))
<1>1. /\ Without(q, S) \in Seq(A)
      /\ ToSet(Without(q, S)) = ToSet(q) \ S
      /\ (\A i, j \in DOMAIN q : q[i] = q[j] => i = j) =>
           \A i, j \in DOMAIN Without(q, S) :
             Without(q, S)[i] = Without(q, S)[j] => i = j
  BY WithoutElements, Zenon
<1>2. Once(q) => Once(w)
  BY <1>1, Zenon DEF Once
<1> QED
  BY <1>1, <1>2

LEMMA UnlinkedFewer ==
  ASSUME Typed, SendersOK, NEW c \in Conns, ~Broken(c), senders' = Unlinked(c)
  PROVE  /\ \A o \in Objects : /\ Fewer(senders[o], senders'[o])
                               /\ c \notin ToSet(senders'[o])
                               /\ ToSet(senders'[o]) = ToSet(senders[o]) \ {c}
<1> SUFFICES ASSUME NEW o \in Objects
             PROVE  /\ Fewer(senders[o], senders'[o])
                    /\ ToSet(senders'[o]) = ToSet(senders[o]) \ {c}
  OBVIOUS
<1>1. CASE o # conn[c].receiver
  <2>1. senders'[o] = senders[o] /\ c \notin ToSet(senders[o])
    BY <1>1, UnlinkedTyped DEF SendersOK
  <2> QED
    BY <2>1 DEF Fewer
<1>2. CASE o = conn[c].receiver
  <2>1. PICK q : q = senders[o]
    OBVIOUS
  <2>2. PICK w : w = Without(q, {c})
    OBVIOUS
  <2>3. q \in Seq(Conns) /\ senders'[o] = w
    BY <1>2, <2>1, <2>2, UnlinkedTyped, ListTyped
  <2>4. ToSet(w) = ToSet(q) \ {c} /\ (Once(q) => Once(w))
    BY <2>2, <2>3, WithoutOnce
  <2> QED
    BY <2>1, <2>3, <2>4 DEF Fewer
<1> QED
  BY <1>1, <1>2

LEMMA SendersLess ==
  ASSUME SendersOK, \A o \in Objects : Fewer(senders[o], senders'[o]),
         \A c \in Conns : conn'[c].receiver = conn[c].receiver
                          \/ \A o \in Objects : c \notin ToSet(senders'[o])
  PROVE  SendersOK'
<1> SUFFICES ASSUME NEW r \in Objects
             PROVE  /\ \A c \in Conns : c \in ToSet(senders'[r]) => conn'[c].receiver = r
                    /\ Once(senders'[r])
  BY DEF SendersOK
<1> QED
  BY DEF SendersOK, Fewer

\* A connection is broken, and in no list of senders any more.
Breaking(c) ==
  /\ conn'[c].receiver = None /\ conn'[c].ref = conn[c].ref /\ conn'[c].sender = conn[c].sender
  /\ \A d \in Conns : d # c => conn'[d] = conn[d]
  /\ \A o \in Objects : Fewer(senders[o], senders'[o])
                         /\ ToSet(senders'[o]) = ToSet(senders[o]) \ {c}

LEMMA DataBreaks ==
  ASSUME Data, NEW c \in Conns, Breaking(c),
         \A o \in Objects, g \in Signals : lists'[o].of[g] = lists[o].of[g],
         UNCHANGED handles
  PROVE  Data'
<1>1. \A d, o, g : o \in Objects /\ g \in Signals => (Listed(d, o, g)' <=> Listed(d, o, g))
  BY DEF Listed
<1>2. \A d : Placed(d)' <=> Placed(d)
  BY <1>1 DEF Placed
<1>3. OnceListed'
  BY <1>1 DEF Data, OnceListed, Once
<1>4. Counts'
  BY <1>2 DEF Data, Counts, Breaking
<1>5. Ends'
  BY <1>1, <1>2 DEF Data, Ends, Broken, Breaking
<1>6. SendersOK'
  BY SendersLess DEF Data, Breaking
<1> QED
  BY <1>3, <1>4, <1>5, <1>6 DEF Data

\* A connection leaves its list of senders.
LEMMA DataUnlinks ==
  ASSUME Typed, Data, NEW c \in Conns, ~Broken(c), senders' = Unlinked(c),
         \A o \in Objects, g \in Signals : lists'[o].of[g] = lists[o].of[g],
         UNCHANGED <<handles, conn>>
  PROVE  Data'
<1>1. \A d, o, g : o \in Objects /\ g \in Signals => (Listed(d, o, g)' <=> Listed(d, o, g))
  BY DEF Listed
<1>2. \A d : Placed(d)' <=> Placed(d)
  BY <1>1 DEF Placed
<1>3. OnceListed'
  BY <1>1 DEF Data, OnceListed, Once
<1>4. Counts'
  BY <1>2 DEF Data, Counts
<1>5. Ends'
  BY <1>1, <1>2 DEF Data, Ends, Broken
<1>6. SendersOK'
  BY UnlinkedFewer, SendersLess DEF Data
<1> QED
  BY <1>3, <1>4, <1>5, <1>6 DEF Data

\* A handle is dropped.
LEMMA DerefIs ==
  ASSUME NEW k \in SomeConnection
  PROVE  /\ k.ref = 1 => Deref(k).ref = 0 /\ Deref(k).receiver = None
         /\ k.ref # 1 => /\ Deref(k).ref = k.ref - 1 /\ Deref(k).receiver = k.receiver
                         /\ Deref(k).sender = k.sender
BY DEF Deref, SomeConnection, NoConnection

LEMMA DataDropHandle ==
  ASSUME Basic, Data, NEW t \in Threads, NEW c \in Conns, DropHandle(t, c)
  PROVE  Data'
<1>1. /\ c \in handles /\ handles' = handles \ {c} /\ UNCHANGED <<lists, senders>>
      /\ conn'[c] = Deref(conn[c]) /\ \A d \in Conns : d # c => conn'[d] = conn[d]
  BY DropHandleBasic DEF DropHandle
<1>2. \A d, o, g : Listed(d, o, g)' <=> Listed(d, o, g)
  BY <1>1 DEF Listed
<1>3. \A d : Placed(d)' <=> Placed(d)
  BY <1>2 DEF Placed
<1>4. conn[c].ref = (IF Placed(c) THEN 1 ELSE 0) + 1
  BY <1>1 DEF Data, Counts
<1>5. /\ ~Placed(c) => conn'[c].ref = 0 /\ conn'[c].receiver = None
      /\ Placed(c) => conn'[c].ref = 1 /\ conn'[c].receiver = conn[c].receiver
                      /\ conn'[c].sender = conn[c].sender
  BY <1>1, <1>4, DerefIs, ConnTyped DEF Basic
<1>6. OnceListed'
  BY <1>1, <1>2 DEF Data, OnceListed, Once
<1>7. Counts'
  BY <1>1, <1>3, <1>5 DEF Data, Counts
<1>8. Ends'
  BY <1>1, <1>2, <1>3, <1>5 DEF Data, Ends, Broken, Placed
<1>9. SendersOK'
  <2>1. conn'[c].receiver = conn[c].receiver
    BY <1>5 DEF Data, Ends, Broken
  <2> QED
    BY <1>1, <2>1 DEF Data, SendersOK
<1> QED
  BY <1>6, <1>7, <1>8, <1>9 DEF Data

LEMMA TailOnce ==
  ASSUME NEW A, NEW s \in Seq(A), s # <<>>, Once(s)
  PROVE  ToSet(Tail(s)) = ToSet(s) \ {Head(s)} /\ Once(Tail(s)) /\ Head(s) \in ToSet(s)
<1>1. /\ (\A i, j \in DOMAIN s : s[i] = s[j] => i = j) =>
           /\ ToSet(Tail(s)) = ToSet(s) \ {Head(s)}
           /\ \A i, j \in DOMAIN Tail(s) : Tail(s)[i] = Tail(s)[j] => i = j
      /\ Head(s) \in ToSet(s)
  BY HeadAndTail, Zenon
<1> QED
  BY <1>1, Zenon DEF Once

\* The first connection leaves its list.
Drops(o, g, c) ==
  /\ Listed(c, o, g)
  /\ \A d, p, h : p \in Objects /\ h \in Signals => (Listed(d, p, h)' <=> Listed(d, p, h) /\ d # c)
  /\ conn'[c].receiver = None /\ \A d \in Conns : d # c => conn'[d] = conn[d]
  /\ \A p \in Objects : Fewer(senders[p], senders'[p])
                        /\ ToSet(senders'[p]) = ToSet(senders[p]) \ {c}
  /\ \A p \in Objects : /\ lists'[p].at = lists[p].at /\ lists'[p].inUse = lists[p].inUse
                        /\ lists'[p].dirty = lists[p].dirty
                        /\ p # o => lists'[p] = lists[p]

LEMMA DataDrops ==
  ASSUME Typed, Data, NEW o \in Objects, NEW g \in Signals, lists[o].of[g] # <<>>,
         NEW c \in Conns, c = Head(lists[o].of[g]), NEW k \in SomeConnection,
         k.receiver = None, k.ref = conn[c].ref, k.sender = conn[c].sender,
         DropFirst(o, g, c, k), UNCHANGED handles,
         senders' = IF Broken(c) THEN senders ELSE Unlinked(c)
  PROVE  Data' /\ Drops(o, g, c)
<1>1. /\ conn'[c] = Deref(k) /\ \A d \in Conns : d # c => conn'[d] = conn[d]
      /\ \A p \in Objects : p # o => lists'[p] = lists[p]
      /\ lists'[o].at = lists[o].at /\ lists'[o].inUse = lists[o].inUse
      /\ lists'[o].dirty = lists[o].dirty
      /\ lists'[o].of[g] = Tail(lists[o].of[g])
      /\ \A h \in Signals : h # g => lists'[o].of[h] = lists[o].of[h]
  BY DropFirstTyped
<1>2. PICK s : s = lists[o].of[g]
  OBVIOUS
<1>3. s \in Seq(Conns) /\ Once(s) /\ s # <<>> /\ c = Head(s)
  BY <1>2, ListTyped DEF Data, OnceListed
<1>4. ToSet(Tail(s)) = ToSet(s) \ {c} /\ Once(Tail(s)) /\ c \in ToSet(s)
  BY <1>3, TailOnce
<1>5. Listed(c, o, g)
  BY <1>2, <1>4 DEF Listed
<1>6. ASSUME NEW p \in Objects, NEW h \in Signals, NEW d
      PROVE  Listed(d, p, h)' <=> Listed(d, p, h) /\ d # c
  <2>1. CASE p = o /\ h = g
    BY <1>1, <1>2, <1>4, <2>1 DEF Listed
  <2>2. CASE ~(p = o /\ h = g)
    <3>1. ~Listed(c, p, h)
      BY <1>5, <2>2 DEF Data, OnceListed
    <3>2. lists'[p].of[h] = lists[p].of[h]
      BY <1>1, <2>2
    <3> QED
      BY <3>1, <3>2 DEF Listed
  <2> QED
    BY <2>1, <2>2
<1>7. OnceListed'
  <2>1. ASSUME NEW p \in Objects, NEW h \in Signals PROVE Once(lists'[p].of[h])
    <3>1. CASE p = o /\ h = g
      BY <1>1, <1>2, <1>4, <3>1
    <3>2. CASE ~(p = o /\ h = g)
      BY <1>1, <3>2 DEF Data, OnceListed
    <3> QED
      BY <3>1, <3>2
  <2>2. \A d \in Conns : \A p, q \in Objects : \A h, i \in Signals :
          Listed(d, p, h)' /\ Listed(d, q, i)' => p = q /\ h = i
    BY <1>6 DEF Data, OnceListed
  <2>3. \A p \in Objects, h \in Signals : Once(lists[p].of[h])'
    BY <2>1 DEF Once
  <2> QED
    BY <2>2, <2>3 DEF OnceListed
<1>8. Placed(c) /\ ~Placed(c)' /\ \A d : d # c => (Placed(d)' <=> Placed(d))
  BY <1>5, <1>6 DEF Placed
<1>9. /\ c \notin handles => conn'[c].ref = 0
      /\ c \in handles => conn'[c].ref = 1
      /\ conn'[c].receiver = None
  <2>1. conn[c].ref = 1 + (IF c \in handles THEN 1 ELSE 0)
    BY <1>8 DEF Data, Counts
  <2> QED
    BY <1>1, <2>1, DerefIs
<1>10. Counts'
  BY <1>1, <1>8, <1>9 DEF Data, Counts
<1>11. Ends'
  BY <1>1, <1>6, <1>8, <1>9 DEF Data, Ends, Broken
<1>12. \A p \in Objects : Fewer(senders[p], senders'[p])
                          /\ ToSet(senders'[p]) = ToSet(senders[p]) \ {c}
  <2>1. CASE ~Broken(c)
    BY <2>1, UnlinkedFewer DEF Data
  <2>2. CASE Broken(c)
    <3>1. \A p \in Objects : c \notin ToSet(senders[p])
      BY <2>2, NoneElsewhere DEF Data, SendersOK, Broken
    <3> QED
      BY <2>2, <3>1 DEF Fewer
  <2> QED
    BY <2>1, <2>2
<1>13. SendersOK'
  <2>1. \A d \in Conns : conn'[d].receiver = conn[d].receiver
                         \/ \A p \in Objects : d \notin ToSet(senders'[p])
    BY <1>1, <1>12
  <2>2. SendersOK
    BY DEF Data
  <2> QED
    BY <1>12, <2>1, <2>2, SendersLess
<1>14. Data'
  BY <1>7, <1>10, <1>11, <1>13 DEF Data
<1>15. Drops(o, g, c)
  BY <1>1, <1>5, <1>6, <1>9, <1>12 DEF Drops
<1> QED
  BY <1>14, <1>15

-----------------------------------------------------------------------------
\* What Connects does to the elements of the lists
LEMMA CleanedAre ==
  ASSUME NEW o \in Objects, NEW v, v = lists[o]
  PROVE  \A c : c \in Cleaned(v) <=> Cleans(v) /\ Broken(c) /\ \E g \in Signals : Listed(c, o, g)
BY DEF Cleaned, InSome, Listed

LEMMA AppendIs ==
  ASSUME NEW s \in Seq(Conns), NEW c \in Conns, NEW q, q = Append(s, c)
  PROVE  /\ q \in Seq(Conns)
         /\ \A x : x \in ToSet(q) <=> x \in ToSet(s) \/ x = c
         /\ Once(s) /\ c \notin ToSet(s) => Once(q)
<1>1. Len(s) \in Nat /\ DOMAIN s = 1 .. Len(s)
  OBVIOUS
<1>2. /\ q \in Seq(Conns) /\ Len(q) = Len(s) + 1 /\ DOMAIN q = 1 .. Len(q) /\ q[Len(s) + 1] = c
      /\ \A i \in 1 .. Len(s) : q[i] = s[i]
  BY <1>1, AppendProperties
<1>3. ToSet(q) = ToSet(s) \cup {c}
  <2>1. \A i \in 1 .. Len(q) : i \in 1 .. Len(s) \/ i = Len(s) + 1
    BY <1>1, <1>2
  <2>2. Len(s) + 1 \in 1 .. Len(q) /\ \A i \in 1 .. Len(s) : i \in 1 .. Len(q)
    BY <1>1, <1>2
  <2> QED
    BY <1>1, <1>2, <2>1, <2>2 DEF ToSet
<1>4. ASSUME Once(s), c \notin ToSet(s) PROVE Once(q)
  <2>1. \A i \in 1 .. Len(s) : s[i] # c
    BY <1>1, <1>4 DEF ToSet
  <2>2. \A i \in 1 .. Len(q) : i \in 1 .. Len(s) \/ i = Len(s) + 1
    BY <1>1, <1>2
  <2> QED
    BY <1>1, <1>2, <1>4, <2>1, <2>2 DEF Once
<1> QED
  BY <1>2, <1>3, <1>4

LEMMA PrefixIs ==
  ASSUME NEW s \in Seq(Conns), NEW c \in Conns, NEW q, q = <<c>> \o s
  PROVE  q \in Seq(Conns) /\ (\A x : x \in ToSet(q) <=> x \in ToSet(s) \/ x = c) /\ (Once(s) /\ c \notin ToSet(s) => Once(q))
         /\ q # <<>> /\ Head(q) = c
<1>1. Len(s) \in Nat /\ DOMAIN s = 1 .. Len(s)
  OBVIOUS
<1>2. /\ q \in Seq(Conns) /\ Len(q) = Len(s) + 1 /\ DOMAIN q = 1 .. Len(q) /\ q[1] = c
      /\ \A i \in 1 .. Len(s) : q[i + 1] = s[i]
  OBVIOUS
<1>5. \A i \in 1 .. Len(q) : i = 1 \/ (i - 1 \in 1 .. Len(s) /\ q[i] = s[i - 1])
  <2>1. \A i \in 1 .. Len(q) : i # 1 => i - 1 \in 1 .. Len(s) /\ (i - 1) + 1 = i
    BY <1>1, <1>2
  <2> QED
    BY <1>2, <2>1
<1>3. ToSet(q) = ToSet(s) \cup {c}
  <2>2. 1 \in 1 .. Len(q) /\ \A i \in 1 .. Len(s) : i + 1 \in 1 .. Len(q)
    BY <1>1, <1>2
  <2>3. \A x : x \in ToSet(q) => x = c \/ x \in ToSet(s)
    BY <1>1, <1>2, <1>5 DEF ToSet
  <2>4. c \in ToSet(q)
    BY <1>2, <2>2 DEF ToSet
  <2>5. ASSUME NEW x \in ToSet(s) PROVE x \in ToSet(q)
    <3>1. PICK i \in 1 .. Len(s) : x = s[i]
      BY <1>1 DEF ToSet
    <3>2. q[i + 1] = x /\ i + 1 \in DOMAIN q
      BY <1>2, <2>2, <3>1
    <3> QED
      BY <3>2 DEF ToSet
  <2> QED
    BY <2>3, <2>4, <2>5
<1>4. ASSUME Once(s), c \notin ToSet(s) PROVE Once(q)
  <2>1. \A i \in 1 .. Len(s) : s[i] # c
    BY <1>1, <1>4 DEF ToSet
  <2>3. ASSUME NEW i \in 1 .. Len(q), NEW j \in 1 .. Len(q), q[i] = q[j] PROVE i = j
    <3>1. CASE i = 1 /\ j # 1
      BY <1>2, <1>5, <2>1, <2>3, <3>1
    <3>2. CASE i # 1 /\ j = 1
      BY <1>2, <1>5, <2>1, <2>3, <3>2
    <3>3. CASE i # 1 /\ j # 1
      <4>1. i - 1 \in 1 .. Len(s) /\ j - 1 \in 1 .. Len(s) /\ s[i - 1] = s[j - 1]
        BY <1>5, <2>3, <3>3
      <4>2. i - 1 = j - 1
        BY <1>1, <1>4, <4>1 DEF Once
      <4> QED
        BY <1>2, <4>2
    <3> QED
      BY <3>1, <3>2, <3>3
  <2> QED
    BY <1>2, <2>3 DEF Once
<1> QED
  BY <1>2, <1>3, <1>4

\* A connect cleans the lists of its sender and adds the new connection.
Adds(f, X) ==
  /\ X = Cleaned(lists[f.obj]) /\ f.conn \notin X
  /\ \A d \in X : Broken(d) /\ conn'[d].receiver = None /\ d \in Conns
  /\ \A d \in Conns : d \notin X /\ d # f.conn => conn'[d] = conn[d]
  /\ conn'[f.conn].receiver = f.other /\ conn'[f.conn].sender = f.obj
  /\ ~Placed(f.conn) /\ \A p \in Objects : f.conn \notin ToSet(senders[p])
  /\ \A d, p, h : p \in Objects /\ h \in Signals =>
       (Listed(d, p, h)' <=> \/ Listed(d, p, h) /\ d \notin X
                             \/ d = f.conn /\ p = f.obj /\ h = f.sig)
  /\ \A p \in Objects : ToSet(senders'[p]) =
       IF p = f.other THEN ToSet(senders[p]) \cup {f.conn} ELSE ToSet(senders[p])

LEMMA NewTyped ==
  ASSUME NEW c, NEW s, NEW r
  PROVE  /\ NewConnection(c, s, r).sender = s /\ NewConnection(c, s, r).receiver = r
         /\ NewConnection(c, s, r).ref = IF c \in Kept THEN 2 ELSE 1
BY DEF NewConnection

LEMMA DataConnects ==
  ASSUME Typed, Data, NEW f \in Frame, f.obj \in Objects, f.other \in Objects,
         f.sig \in Signals, f.conn \in Conns, conn[f.conn].ref = 0, Connects(f)
  PROVE  Data' /\ \E X : Adds(f, X)
<1>0. PICK c \in Conns, s \in Objects, r \in Objects : c = f.conn /\ s = f.obj /\ r = f.other
  OBVIOUS
<1>20. PICK v, X : v = lists[f.obj] /\ X = Cleaned(lists[f.obj])
  OBVIOUS
<1>1. v = lists[f.obj] /\ X = Cleaned(v) /\ c = f.conn /\ s = f.obj /\ r = f.other
  BY <1>0, <1>20
<1>2. ~Placed(c) /\ c \notin handles
  BY <1>1 DEF Data, Counts
<1>3. Broken(c) /\ \A p \in Objects : c \notin ToSet(senders[p])
  BY <1>2, NoneElsewhere DEF Data, Ends, SendersOK, Broken
<1>4. \A d \in X : Cleans(v) /\ Broken(d) /\ (\E g \in Signals : Listed(d, s, g)) /\ Placed(d)
                   /\ d \in Conns
  <2>1. \A d \in X : Cleans(v) /\ Broken(d) /\ \E g \in Signals : Listed(d, s, g)
    BY <1>1, CleanedAre
  <2> QED
    BY <1>1, <2>1, Members DEF Placed, Listed
<1>5. c \notin X
  BY <1>2, <1>4
<1>6. ASSUME NEW d, NEW p \in Objects, NEW h \in Signals
      PROVE  Listed(d, p, h)' <=> \/ Listed(d, p, h) /\ d \notin X
                                  \/ d = c /\ p = s /\ h = f.sig
  <2>1. CASE p # s
    <3>1. lists'[p] = lists[p]
      BY <1>1, <2>1 DEF Connects
    <3>2. Listed(d, p, h) => d \notin X
      <4>1. Listed(d, p, h) => d \in Conns
        BY Members DEF Listed
      <4> QED
        BY <1>4, <2>1, <4>1 DEF Data, OnceListed
    <3> QED
      BY <2>1, <3>1, <3>2 DEF Listed
  <2>2. CASE p = s
    <3>1. PICK q, w : q = v.of[h] /\ w = Without(q, X)
      OBVIOUS
    <3>2. q \in Seq(Conns)
      BY <1>1, <3>1, ListTyped
    <3>3. w \in Seq(Conns) /\ ToSet(w) = ToSet(q) \ X
      BY <3>1, <3>2, WithoutOnce
    <3>4. CASE h # f.sig
      BY <1>1, <2>2, <3>1, <3>3, <3>4 DEF Connects, Listed
    <3>5. CASE h = f.sig
      <4>1. PICK z : z = Append(w, c)
        OBVIOUS
      <4>2. \A x : x \in ToSet(z) <=> x \in ToSet(w) \/ x = c
        BY <3>3, <4>1, AppendIs, Zenon
      <4>3. lists'[p].of[h] = z
        BY <1>1, <2>2, <3>1, <3>5, <4>1 DEF Connects
      <4> QED
        BY <1>1, <2>2, <3>1, <3>3, <3>5, <4>2, <4>3 DEF Listed
    <3> QED
      BY <3>4, <3>5
  <2> QED
    BY <2>1, <2>2
<1>7. Placed(c)' /\ \A d : d # c => (Placed(d)' <=> Placed(d) /\ d \notin X)
  BY <1>1, <1>6 DEF Placed
<1>8. OnceListed'
  <2>1. ASSUME NEW p \in Objects, NEW h \in Signals PROVE Once(lists'[p].of[h])
    <3>0. Once(lists[p].of[h])
      BY DEF Data, OnceListed
    <3>1. CASE p # s
      BY <1>1, <3>0, <3>1 DEF Connects
    <3>2. CASE p = s
      <4>1. PICK q, w : q = v.of[h] /\ w = Without(q, X)
        OBVIOUS
      <4>2. q \in Seq(Conns) /\ Once(q) /\ c \notin ToSet(q)
        BY <1>1, <1>2, <3>0, <3>2, <4>1, ListTyped DEF Placed, Listed
      <4>3. w \in Seq(Conns) /\ Once(w) /\ c \notin ToSet(w)
        BY <4>1, <4>2, WithoutOnce
      <4>4. CASE h # f.sig
        BY <1>1, <3>2, <4>1, <4>3, <4>4 DEF Connects
      <4>5. CASE h = f.sig
        <5>1. PICK z : z = Append(w, c)
          OBVIOUS
        <5>2. Once(z)
          BY <4>3, <5>1, AppendIs, Zenon
        <5> QED
          BY <1>1, <3>2, <4>1, <4>5, <5>1, <5>2 DEF Connects
      <4> QED
        BY <4>4, <4>5
    <3> QED
      BY <3>1, <3>2
  <2>2. \A d \in Conns : \A p, q \in Objects : \A h, i \in Signals :
          Listed(d, p, h)' /\ Listed(d, q, i)' => p = q /\ h = i
    <3>1. ASSUME NEW d \in Conns, NEW p \in Objects, NEW q \in Objects, NEW h \in Signals,
                 NEW i \in Signals, Listed(d, p, h)', Listed(d, q, i)'
          PROVE  p = q /\ h = i
      <4>1. CASE d = c
        <5>1. ~Listed(d, p, h) /\ ~Listed(d, q, i)
          BY <1>2, <4>1 DEF Placed
        <5> QED
          BY <1>6, <3>1, <5>1
      <4>2. CASE d # c
        <5>1. Listed(d, p, h) /\ Listed(d, q, i)
          BY <1>6, <3>1, <4>2
        <5> QED
          BY <5>1 DEF Data, OnceListed
      <4> QED
        BY <4>1, <4>2
    <3> QED
      BY <3>1
  <2>3. \A p \in Objects, h \in Signals : Once(lists[p].of[h])'
    BY <2>1 DEF Once
  <2> QED
    BY <2>2, <2>3 DEF OnceListed
<1>9. /\ conn'[c].sender = s /\ conn'[c].receiver = r
      /\ conn'[c].ref = IF c \in Kept THEN 2 ELSE 1
      /\ \A d \in Conns : d # c => conn'[d] = IF d \in X THEN Deref(conn[d]) ELSE conn[d]
      /\ handles' = handles \cup (Kept \cap {c})
  BY <1>1, NewTyped DEF Connects
<1>10. ASSUME NEW d \in X
       PROVE  /\ d \notin handles => conn'[d].ref = 0
              /\ d \in handles => conn'[d].ref = 1
              /\ conn'[d].receiver = None
  <2>1. conn[d].ref = 1 + (IF d \in handles THEN 1 ELSE 0) /\ d \in Conns /\ d # c
        /\ conn[d].receiver = None
    BY <1>4, <1>5 DEF Data, Counts, Broken
  <2> QED
    BY <1>9, <2>1, DerefIs, ConnTyped
<1>11. Counts'
  <2>1. ASSUME NEW d \in Conns
        PROVE  conn'[d].ref = (IF Placed(d)' THEN 1 ELSE 0) + (IF d \in handles' THEN 1 ELSE 0)
    <3>1. CASE d = c
      BY <1>2, <1>7, <1>9, <3>1
    <3>2. CASE d \in X
      <4>1. d # c /\ ~Placed(d)' /\ (d \in handles' <=> d \in handles)
        BY <1>5, <1>7, <1>9, <3>2
      <4> QED
        BY <1>10, <3>2, <4>1
    <3>3. CASE d # c /\ d \notin X
      <4>1. (Placed(d)' <=> Placed(d)) /\ (d \in handles' <=> d \in handles) /\ conn'[d] = conn[d]
        BY <1>7, <1>9, <3>3
      <4> QED
        BY <4>1 DEF Data, Counts
    <3> QED
      BY <3>1, <3>2, <3>3
  <2>2. handles' \subseteq Kept
    BY <1>9 DEF Data, Counts
  <2> QED
    BY <2>1, <2>2 DEF Counts
<1>12. Ends'
  <2>1. ASSUME NEW d \in Conns, NEW p \in Objects, NEW h \in Signals, Listed(d, p, h)'
        PROVE  conn'[d].sender = p
    BY <1>2, <1>6, <1>9, <2>1 DEF Data, Ends, Placed
  <2>2. ASSUME NEW d \in Conns, conn'[d].receiver # None PROVE Placed(d)'
    <3>1. d \notin X
      BY <1>10, <2>2
    <3> QED
      BY <1>7, <1>9, <2>2, <3>1 DEF Data, Ends, Broken
  <2> QED
    BY <2>1, <2>2 DEF Ends, Broken
<1>13. ASSUME NEW p \in Objects
       PROVE  /\ ToSet(senders'[p]) = IF p = r THEN ToSet(senders[p]) \cup {c} ELSE ToSet(senders[p])
              /\ Once(senders'[p])
  <2>0. Once(senders[p])
    BY DEF Data, SendersOK
  <2>1. CASE p # r
    BY <1>1, <2>0, <2>1 DEF Connects
  <2>2. CASE p = r
    <3>1. PICK q, w : q = senders[p] /\ w = <<c>> \o q
      OBVIOUS
    <3>2. q \in Seq(Conns) /\ Once(q) /\ c \notin ToSet(q)
      BY <1>3, <2>0, <3>1, ListTyped
    <3>3. (\A x : x \in ToSet(w) <=> x \in ToSet(q) \/ x = c) /\ Once(w)
      BY <3>1, <3>2, PrefixIs, Zenon
    <3> QED
      BY <1>1, <2>2, <3>1, <3>3 DEF Connects
  <2> QED
    BY <2>1, <2>2
<1>14. SendersOK'
  <2>1. ASSUME NEW p \in Objects, NEW d \in Conns, d \in ToSet(senders'[p])
        PROVE  conn'[d].receiver = p
    <3>1. CASE d = c
      BY <1>3, <1>9, <1>13, <2>1, <3>1
    <3>2. CASE d # c
      <4>1. d \in ToSet(senders[p])
        BY <1>13, <2>1, <3>2
      <4>2. conn[d].receiver = p
        BY <4>1 DEF Data, SendersOK
      <4>3. d \notin X
        BY <1>4, <4>2, NoneElsewhere DEF Broken
      <4> QED
        BY <1>9, <3>2, <4>2, <4>3
    <3> QED
      BY <3>1, <3>2
  <2>2. \A p \in Objects : Once(senders[p])'
    BY <1>13 DEF Once
  <2> QED
    BY <2>1, <2>2 DEF SendersOK
<1>15. Adds(f, X)
  BY <1>1, <1>2, <1>3, <1>4, <1>5, <1>6, <1>9, <1>10, <1>13 DEF Adds
<1>16. Data'
  BY <1>8, <1>11, <1>12, <1>14 DEF Data
<1> QED
  BY <1>15, <1>16

-----------------------------------------------------------------------------
(* What each step does to the connections.                                 *)

SameLists == \A o \in Objects, g \in Signals : lists'[o].of[g] = lists[o].of[g]
Still == SameLists /\ UNCHANGED <<conn, senders, handles>>

LEMMA StillSteps ==
  ASSUME Basic, ListsShape, NEW t \in Threads, Step(t),
         ~ConnectEnd(t), ~DisconnectUnlink(t), ~DisconnectZero(t), ~DeleteReceivers(t),
         ~DeleteUnlink(t), ~DeleteNode(t)
  PROVE  Still
<1>1. ASSUME UNCHANGED <<lists, conn, senders, handles>> PROVE Still
  BY <1>1 DEF Still, SameLists
<1>2. CASE Lock(t) \/ DisconnectList(t) \/ DisconnectScan(t)
           \/ EmitLook(t) \/ SlotReturn(t) \/ EmitResume(t) \/ DeliverEnd(t) \/ DeleteBegin(t)
           \/ DeleteSenders(t) \/ DeleteEnd(t)
  BY <1>1, <1>2 DEF Lock, DisconnectList, DisconnectScan,
    EmitLook, SlotReturn, EmitResume, DeliverEnd, DeleteBegin, DeleteSenders, DeleteEnd
<1>3. CASE DisconnectBegin(t) \/ EmitBegin(t) \/ DeleteLists(t)
  <2>1. Top(t).obj \in Objects
    BY <1>3, ReturnsFrame DEF DisconnectBegin, EmitBegin, DeleteLists
  <2>2. UNCHANGED <<conn, senders, handles>>
        /\ (lists' = lists \/ lists' = [lists EXCEPT ![Top(t).obj] = Enter(lists[Top(t).obj])])
    BY <1>3 DEF DisconnectBegin, EmitBegin, DeleteLists
  <2> QED
    BY <1>1, <2>1, <2>2, EntersLists DEF Basic, Still, SameLists
<1>4. CASE DisconnectEnd(t) \/ EmitEnd(t)
  <2>1. PICK p \in Objects, b \in BOOLEAN : lists' = [lists EXCEPT ![p] = Leave(Dirtied(lists[p], b))]
    BY <1>4, DisconnectEndLists, EmitEndLists
  <2>2. UNCHANGED <<conn, senders, handles>>
    BY <1>4 DEF DisconnectEnd, EmitEnd
  <2>3. \A o \in Objects : o # p => lists'[o] = lists[o]
    BY <2>1, LeavesLists DEF Basic
  <2>4. ASSUME NEW g \in Signals PROVE lists'[p].of[g] = lists[p].of[g]
    <3>1. CASE ~(lists[p].inUse = 1 /\ lists[p].at = "orphaned")
      <4>1. lists'[p].of = lists[p].of
        BY <2>1, <3>1, LeavesLists DEF Basic
      <4> QED
        BY <4>1
    <3>2. CASE lists[p].inUse = 1 /\ lists[p].at = "orphaned"
      <4>1. lists'[p].of[g] = <<>>
        BY <2>1, <3>2, LeavesLists DEF Basic
      <4> QED
        BY <3>2, <4>1 DEF ListsShape, ShapeOf
    <3> QED
      BY <3>1, <3>2
  <2> QED
    BY <2>2, <2>3, <2>4 DEF Still, SameLists
<1>5. CASE DeleteListsEnd(t)
  <2>1. UNCHANGED <<conn, senders, handles>>
    BY <1>5 DEF DeleteListsEnd
  <2> QED
    BY <1>5, <2>1, DeleteListsEndLists DEF Still, SameLists
<1> QED
  BY <1>2, <1>3, <1>4, <1>5 DEF Step

LEMMA StillCalls ==
  ASSUME NEW t \in Threads, UserCall(t),
         ~\E c \in Conns : DropHandle(t, c) \/ DisconnectHandle(t, c)
  PROVE  Still
BY DEF UserCall, EmitCall, ConnectCall, DisconnectCall, Deliver, DeleteCall, Still, SameLists

\* Who is about to break a connection that is in no list of senders any more
ZeroingAt(c, t, i) ==
  i \in DOMAIN stack[t] /\ stack[t][i].op = "disconnect" /\ stack[t][i].at = "zero"
  /\ stack[t][i].conn = c
\* Who will mark the lists of o as dirty
Dirties(o, t, i) ==
  /\ i \in DOMAIN stack[t] /\ stack[t][i].obj = o
  /\ \/ stack[t][i].op = "disconnect" /\ stack[t][i].at # "begin" /\ stack[t][i].broken
     \/ stack[t][i].op = "delete" /\ stack[t][i].at \in {"receivers", "unlink"}
\* The lists of the connection that is broken become dirty.
Soils(t, c) ==
  \A o \in Objects, g \in Signals : Listed(c, o, g) =>
    lists'[o].dirty \/ \E i : Dirties(o, t, i)'

\* A connection is broken by disconnect, by the handle, or by its receiver's
\* destructor.
LEMMA ZeroBreaks ==
  ASSUME Basic, NEW t \in Threads, DisconnectZero(t),
         Data, \A r \in Objects : Top(t).conn \notin ToSet(senders[r]),
         Listed(Top(t).conn, Top(t).obj, Top(t).sig)
  PROVE  \E c \in Conns : c = Top(t).conn /\ Breaking(c) /\ SameLists /\ UNCHANGED handles
                          /\ Soils(t, c)
<1>1. PICK c : c = Top(t).conn
  OBVIOUS
<1>2. c \in Conns /\ UNCHANGED <<lists, senders, handles>>
      /\ conn' = [conn EXCEPT ![c].receiver = None]
  BY <1>1, AtTop DEF DisconnectZero, FrameOK, DisconnectFrame
<1>3. /\ conn'[c].receiver = None /\ conn'[c].ref = conn[c].ref /\ conn'[c].sender = conn[c].sender
      /\ \A d \in Conns : d # c => conn'[d] = conn[d]
  BY <1>2, ConnTyped DEF Basic, Typed, SomeConnection
<1>4. PICK g \in Frame : /\ Becomes(t, Top(t), g) /\ Top(t).op = "disconnect"
                         /\ g.at = "scan" /\ g.broken
  BY DisconnectZeroFrame
<1>11. PICK n : n = Len(stack[t])
  OBVIOUS
<1>5. n \in DOMAIN stack'[t] /\ stack'[t][n] = g /\ g.op = "disconnect" /\ g.obj = Top(t).obj
  BY <1>4, <1>11, BecomesFrames DEF Becomes
<1>6. Dirties(g.obj, t, n)'
  BY <1>4, <1>5 DEF Dirties
<1>7. Top(t).obj \in Objects /\ Top(t).sig \in Signals
  BY <1>1, <1>2, AtTop, FrameTyped, NoneElsewhere DEF DisconnectZero, FrameOK, DisconnectFrame
<1>8. \A o \in Objects, h \in Signals : Listed(c, o, h) => o = g.obj
  BY <1>1, <1>2, <1>5, <1>7 DEF Data, OnceListed
<1>9. Soils(t, c)
  BY <1>6, <1>8 DEF Soils
<1>10. Breaking(c) /\ SameLists
  BY <1>1, <1>2, <1>3 DEF Breaking, Fewer, SameLists
<1> QED
  BY <1>1, <1>2, <1>9, <1>10

LEMMA HandleBreaks ==
  ASSUME Basic, Data, NEW t \in Threads, NEW c \in Conns, DisconnectHandle(t, c)
  PROVE  Breaking(c) /\ SameLists /\ UNCHANGED handles /\ Soils(t, c)
<1>1. PICK s : s = conn[c].sender
  OBVIOUS
<1>2. /\ ~Broken(c) /\ senders' = Unlinked(c) /\ lists' = [lists EXCEPT ![s].dirty = TRUE]
      /\ conn' = [conn EXCEPT ![c].receiver = None] /\ UNCHANGED handles
  BY <1>1 DEF DisconnectHandle
<1>3. /\ conn'[c].receiver = None /\ conn'[c].ref = conn[c].ref /\ conn'[c].sender = conn[c].sender
      /\ \A d \in Conns : d # c => conn'[d] = conn[d]
  BY <1>2, ConnTyped DEF Basic, Typed, SomeConnection
<1>4. \A o \in Objects : lists'[o].of = lists[o].of
  BY <1>2, ListTyped DEF Basic, Typed, SomeLists
<1>6. \A o \in Objects, g \in Signals : Listed(c, o, g) => o = s /\ lists'[o].dirty
  <2> SUFFICES ASSUME NEW o \in Objects, NEW g \in Signals, Listed(c, o, g)
               PROVE  o = s /\ lists'[o].dirty
    OBVIOUS
  <2>1. o = s
    BY <1>1 DEF Data, Ends
  <2> QED
    BY <1>2, <2>1, ListTyped DEF Basic, Typed, SomeLists
<1>5. \A o \in Objects : Fewer(senders[o], senders'[o])
                         /\ ToSet(senders'[o]) = ToSet(senders[o]) \ {c}
  BY <1>2, UnlinkedFewer DEF Basic, Data
<1> QED
  BY <1>2, <1>3, <1>4, <1>5, <1>6 DEF Breaking, SameLists, Soils

NodeBroken(c, f) ==
  /\ Breaking(c) /\ SameLists /\ UNCHANGED handles
  /\ conn[c].sender = f.other /\ f.other \in Objects /\ conn[c].receiver = f.obj
  /\ \A p \in Objects :
       /\ lists'[p].at = lists[p].at
       /\ lists'[p].dirty = (lists[p].dirty \/ (p = f.other /\ lists[p].at = "used"))
       /\ ToSet(senders'[p]) = ToSet(senders[p]) \ {c}

LEMMA NodeBreaks ==
  ASSUME Basic, Data, ListsShape, NEW t \in Threads, DeleteNode(t)
  PROVE  \/ Still /\ UNCHANGED lists
         \/ \E c \in Conns : NodeBroken(c, Top(t)) /\ Soils(t, c)
<1>1. PICK f, o : f = Top(t) /\ o = f.obj
  OBVIOUS
<1>2. f.obj \in Objects /\ f.other \in Objects
  BY <1>1, ReturnsFrame DEF DeleteNode, FrameOK, DeleteFrame
<1>3. CASE NodeGone(o, f.other)
  BY <1>1, <1>3 DEF DeleteNode, Still, SameLists
<1>4. CASE ~NodeGone(o, f.other)
  <2>1. PICK s, c : s = senders[o] /\ c = Head(senders[o])
    OBVIOUS
  <2>2. /\ s # <<>> /\ conn[c].sender = f.other
        /\ conn' = [conn EXCEPT ![c].receiver = None]
        /\ lists' = [lists EXCEPT ![f.other].dirty = @ \/ lists[f.other].at = "used"]
        /\ senders' = [senders EXCEPT ![o] = Tail(@)] /\ UNCHANGED handles
    BY <1>1, <1>4, <2>1 DEF DeleteNode, NodeGone
  <2>3. s \in Seq(Conns) /\ Once(s)
    BY <1>1, <1>2, <2>1, ListTyped DEF Basic, Data, SendersOK
  <2>4. /\ c \in Conns /\ c \in ToSet(s) /\ Tail(s) \in Seq(Conns)
        /\ ToSet(Tail(s)) = ToSet(s) \ {c} /\ Once(Tail(s))
    BY <2>1, <2>2, <2>3, TailOnce, HeadAndTail
  <2>5. conn[c].receiver = o
    BY <1>1, <1>2, <2>1, <2>4 DEF Data, SendersOK
  <2>6. /\ conn'[c].receiver = None /\ conn'[c].ref = conn[c].ref /\ conn'[c].sender = conn[c].sender
        /\ \A d \in Conns : d # c => conn'[d] = conn[d]
    BY <2>2, <2>4, ConnTyped DEF Basic, Typed, SomeConnection
  <2>7. PICK b \in BOOLEAN : b = (lists[f.other].dirty \/ lists[f.other].at = "used")
    OBVIOUS
  <2>8. lists' = [lists EXCEPT ![f.other].dirty = b]
    BY <2>2, <2>7
  <2>9. /\ \A p \in Objects : lists'[p].of = lists[p].of /\ lists'[p].at = lists[p].at
        /\ \A p \in Objects : p # f.other => lists'[p] = lists[p]
        /\ lists'[f.other].dirty = b
    BY <1>2, <2>8, ListTyped DEF Basic, Typed, SomeLists
  <2>10. \A p \in Objects : Fewer(senders[p], senders'[p]) /\ ToSet(senders'[p]) = ToSet(senders[p]) \ {c}
    <3> SUFFICES ASSUME NEW p \in Objects
                 PROVE  Fewer(senders[p], senders'[p]) /\ ToSet(senders'[p]) = ToSet(senders[p]) \ {c}
      OBVIOUS
    <3>1. CASE p = o
      <4>1. senders'[p] = Tail(s)
        BY <1>1, <1>2, <2>1, <2>2, <3>1 DEF Basic, Typed
      <4> QED
        BY <2>1, <2>4, <3>1, <4>1 DEF Fewer
    <3>2. CASE p # o
      <4>1. senders'[p] = senders[p] /\ c \notin ToSet(senders[p])
        BY <1>1, <1>2, <2>2, <2>4, <2>5, <3>2 DEF Basic, Typed, Data, SendersOK
      <4> QED
        BY <4>1 DEF Fewer
    <3> QED
      BY <3>1, <3>2
  <2>11. Breaking(c) /\ SameLists
    BY <2>6, <2>9, <2>10 DEF Breaking, SameLists
  <2>12. \A p \in Objects :
           lists'[p].dirty = (lists[p].dirty \/ (p = f.other /\ lists[p].at = "used"))
    <3> SUFFICES ASSUME NEW p \in Objects
                 PROVE  lists'[p].dirty = (lists[p].dirty \/ (p = f.other /\ lists[p].at = "used"))
      OBVIOUS
    <3>1. lists[p].dirty \in BOOLEAN
      BY ListTyped DEF Basic
    <3>2. CASE p = f.other
      BY <2>7, <2>9, <3>1, <3>2, Zenon
    <3>3. CASE p # f.other
      <4>1. lists'[p].dirty = lists[p].dirty
        BY <2>9, <3>3
      <4> QED
        BY <3>1, <3>3, <4>1, Zenon
    <3> QED
      BY <3>2, <3>3
  <2>13. NodeBroken(c, f)
    <3>1. conn[c].receiver = f.obj /\ UNCHANGED handles
      BY <1>1, <2>2, <2>5
    <3> QED
      BY <1>2, <2>2, <2>9, <2>10, <2>11, <2>12, <3>1, Zenon DEF NodeBroken
  <2>14. Soils(t, c)
    <3> SUFFICES ASSUME NEW p \in Objects, NEW g \in Signals, Listed(c, p, g)
                 PROVE  lists'[p].dirty
      BY DEF Soils
    <3>1. p = f.other
      BY <2>2, <2>4 DEF Data, Ends
    <3>2. lists[p].at = "used"
      <4>1. lists[p].of[g] # <<>>
        BY DEF Listed, ToSet
      <4> QED
        BY <4>1 DEF ListsShape, ShapeOf
    <3> QED
      BY <2>12, <3>1, <3>2
  <2> QED
    BY <1>1, <2>4, <2>13, <2>14
<1> QED
  BY <1>3, <1>4

HandleDropped(c) ==
  /\ SameLists /\ UNCHANGED senders /\ conn[c].ref # 0 /\ conn'[c].receiver = conn[c].receiver
  /\ \A d \in Conns : d # c => conn'[d] = conn[d]
LosesSender(c) ==
  /\ SameLists /\ UNCHANGED conn
  /\ \A o \in Objects : ToSet(senders'[o]) = ToSet(senders[o]) \ {c}
\* The destructor of o is about to empty the lists, and is executed by t.
Emptying(t, o) ==
  stack[t] # <<>> /\ Top(t).op = "delete" /\ Top(t).at \in {"receivers", "unlink"} /\ Top(t).obj = o
Effect(t) ==
  \/ Still
  \/ ConnectEnd(t) /\ \E X : Adds(Top(t), X)
  \/ \E c \in Conns : HandleDropped(c)
  \/ \E c \in Conns : Breaking(c) /\ SameLists /\ Soils(t, c)
  \/ \E c \in Conns : LosesSender(c) /\ \E i : ZeroingAt(c, t, i)'
  \/ \E o \in Objects, g \in Signals, c \in Conns : Drops(o, g, c) /\ Emptying(t, o)

\* What the invariants of the frames say of the connection of a connect that
\* ends, and of one that is broken
NewToAll(t) == At(t, "connect", "begin") => conn[Top(t).conn].ref = 0
OutOfSenders(t) ==
  At(t, "disconnect", "zero") => /\ \A r \in Objects : Top(t).conn \notin ToSet(senders[r])
                                 /\ Listed(Top(t).conn, Top(t).obj, Top(t).sig)

LEMMA DataConnectEnd ==
  ASSUME Basic, Data, NEW t \in Threads, NewToAll(t), ConnectEnd(t)
  PROVE  Data' /\ Effect(t)
<1>1. PICK f \in Frame : f = Top(t) /\ f.obj \in Objects /\ f.other \in Objects
                         /\ f.sig \in Signals /\ f.conn \in Conns
  BY ConnectTop
<1>2. conn[f.conn].ref = 0
  BY <1>1 DEF NewToAll, ConnectEnd
<1>3. CASE UNCHANGED <<lists, senders, conn, handles>>
  <2>1. Still
    BY <1>3 DEF Still, SameLists
  <2> QED
    BY <2>1, DataSame DEF Effect, Still, SameLists
<1>4. CASE Connects(f)
  <2>1. Data' /\ \E X : Adds(f, X)
    BY <1>1, <1>2, <1>4, DataConnects DEF Basic
  <2> QED
    BY <1>1, <2>1 DEF Effect
<1> QED
  BY <1>1, <1>3, <1>4, ConnectEndLists

LEMMA DataDelete ==
  ASSUME Basic, Data, UnlinksFirst, NEW t \in Threads, DeleteReceivers(t) \/ DeleteUnlink(t)
  PROVE  Data' /\ Effect(t)
<1>1. CASE DeleteReceivers(t)
  <2>1. PICK o \in Objects : o = Top(t).obj /\ Emptying(t, o) /\ UNCHANGED <<senders, handles>>
    BY <1>1, ReturnsFrame DEF DeleteReceivers, Emptying
  <2>2. PICK g \in Signals, c \in Conns :
          /\ lists[o].of[g] # <<>> /\ c = Head(lists[o].of[g])
          /\ \/ Broken(c) /\ DropFirst(o, g, c, conn[c])
             \/ UNCHANGED <<lists, conn>>
    BY <1>1, <2>1, DeleteReceiversFrame
  <2>3. CASE UNCHANGED <<lists, conn>>
    <3>1. Still
      BY <2>1, <2>3 DEF Still, SameLists
    <3> QED
      BY <3>1, DataSame DEF Effect, Still, SameLists
  <2>4. CASE Broken(c) /\ DropFirst(o, g, c, conn[c])
    <3>1. PICK k \in SomeConnection : k = conn[c]
      BY ConnTyped DEF Basic
    <3>2. /\ k.receiver = None /\ k.ref = conn[c].ref /\ k.sender = conn[c].sender
          /\ DropFirst(o, g, c, k) /\ UNCHANGED handles
          /\ senders' = IF Broken(c) THEN senders ELSE Unlinked(c)
      BY <2>1, <2>4, <3>1 DEF Broken
    <3>3. Data' /\ Drops(o, g, c)
      BY <2>2, <3>2, DataDrops DEF Basic
    <3> QED
      BY <2>1, <3>3 DEF Effect
  <2> QED
    BY <2>2, <2>3, <2>4
<1>2. CASE DeleteUnlink(t)
  <2>1. PICK o \in Objects, g \in Signals, c \in Conns :
           /\ o = Top(t).obj
           /\ lists[o].of[g] # <<>> /\ c = Head(lists[o].of[g])
           /\ \E k \in SomeConnection : /\ k.receiver = None /\ k.ref = conn[c].ref
                                        /\ k.sender = conn[c].sender
                                        /\ DropFirst(o, g, c, k)
           /\ senders' = IF Broken(c) THEN senders ELSE Unlinked(c)
    BY <1>2, DeleteUnlinkLists
  <2>2. UNCHANGED handles /\ Emptying(t, o)
    BY <1>2, <2>1, ReturnsFrame, SMTT(60) DEF DeleteUnlink, Emptying
  <2>3. Data' /\ Drops(o, g, c)
    BY <2>1, <2>2, DataDrops DEF Basic
  <2> QED
    BY <2>2, <2>3 DEF Effect
<1> QED
  BY <1>1, <1>2

LEMMA DataNext ==
  ASSUME Basic, Data, ListsShape, UnlinksFirst, NEW t \in Threads, Step(t) \/ UserCall(t),
         NewToAll(t), OutOfSenders(t)
  PROVE  Data' /\ Effect(t)
<1>1. CASE Still
  BY <1>1, DataSame DEF Effect, Still, SameLists
<1>2. CASE ConnectEnd(t)
  BY <1>2, DataConnectEnd
<1>3. CASE DeleteReceivers(t) \/ DeleteUnlink(t)
  BY <1>3, DataDelete
<1>4. ASSUME NEW c \in Conns, Breaking(c), SameLists, UNCHANGED handles, Soils(t, c)
      PROVE  Data' /\ Effect(t)
  <2>1. Data'
    BY <1>4, DataBreaks DEF SameLists
  <2> QED
    BY <1>4, <2>1 DEF Effect
<1>5. CASE DisconnectZero(t)
  <2>1. /\ \A r \in Objects : Top(t).conn \notin ToSet(senders[r])
        /\ Listed(Top(t).conn, Top(t).obj, Top(t).sig)
    BY <1>5 DEF DisconnectZero, OutOfSenders
  <2> QED
    BY <1>4, <1>5, <2>1, ZeroBreaks
<1>6. ASSUME NEW c \in Conns, DisconnectHandle(t, c)
      PROVE  Data' /\ Effect(t)
  BY <1>4, <1>6, HandleBreaks
<1>7. CASE DeleteNode(t)
  BY <1>1, <1>4, <1>7, NodeBreaks DEF NodeBroken
<1>8. CASE DisconnectUnlink(t)
  <2>1. PICK c \in Conns : c = Top(t).conn
    BY <1>8, DisconnectUnlinkFrame
  <2>2. UNCHANGED <<lists, conn, handles>> /\ senders' = IF Broken(c) THEN senders ELSE Unlinked(c)
    BY <1>8, <2>1 DEF DisconnectUnlink
  <2>3. CASE Broken(c)
    BY <1>1, <2>2, <2>3 DEF Still, SameLists
  <2>4. CASE ~Broken(c)
    <3>1. senders' = Unlinked(c) /\ SameLists
      BY <2>2, <2>4 DEF SameLists
    <3>2. Data'
      BY <2>2, <2>4, <3>1, DataUnlinks DEF Basic, SameLists
    <3>3. LosesSender(c)
      BY <2>2, <2>4, <3>1, UnlinkedFewer DEF Basic, Data, LosesSender
    <3>4. PICK g \in Frame : /\ Becomes(t, Top(t), g) /\ Top(t).op = "disconnect"
                             /\ g.at = "zero" /\ g.conn = c
      BY <1>8, <2>1, DisconnectUnlinkFrame
    <3>7. PICK n : n = Len(stack[t])
      OBVIOUS
    <3>5. n \in DOMAIN stack'[t] /\ stack'[t][n] = g /\ g.op = "disconnect"
      BY <3>4, <3>7, BecomesFrames DEF Becomes
    <3>6. ZeroingAt(c, t, n)'
      BY <3>4, <3>5 DEF ZeroingAt
    <3> QED
      BY <3>2, <3>3, <3>6 DEF Effect
  <2> QED
    BY <2>3, <2>4
<1>9. ASSUME NEW c \in Conns, DropHandle(t, c)
      PROVE  Data' /\ Effect(t)
  <2>1. Data'
    BY <1>9, DataDropHandle
  <2>2. /\ c \in handles /\ UNCHANGED <<lists, senders>>
        /\ conn'[c] = Deref(conn[c]) /\ \A d \in Conns : d # c => conn'[d] = conn[d]
    BY <1>9, DropHandleBasic DEF DropHandle
  <2>3. conn[c].ref = (IF Placed(c) THEN 1 ELSE 0) + 1
    BY <2>2 DEF Data, Counts
  <2>4. conn'[c].receiver = conn[c].receiver
    <3>1. CASE Placed(c)
      BY <2>2, <2>3, <3>1, DerefIs, ConnTyped DEF Basic
    <3>2. CASE ~Placed(c)
      <4>1. conn[c].receiver = None
        BY <3>2 DEF Data, Ends, Broken
      <4> QED
        BY <2>2, <2>3, <3>2, <4>1, DerefIs, ConnTyped DEF Basic
    <3> QED
      BY <3>1, <3>2
  <2>5. HandleDropped(c)
    BY <2>2, <2>3, <2>4 DEF HandleDropped, SameLists
  <2> QED
    BY <2>1, <2>5 DEF Effect
<1>10. CASE Step(t)
  BY <1>1, <1>2, <1>3, <1>5, <1>7, <1>8, <1>10, StillSteps
<1>11. CASE UserCall(t)
  BY <1>1, <1>6, <1>9, <1>11, StillCalls
<1> QED
  BY <1>10, <1>11

-----------------------------------------------------------------------------
(* What no step does.                                                      *)

LEMMA ReceiverKept ==
  ASSUME Data, NEW t \in Threads, Effect(t), NEW c \in Conns, Placed(c)
  PROVE  conn'[c].receiver \in {conn[c].receiver, None}
<1>1. ASSUME NEW X, Adds(Top(t), X) PROVE conn'[c].receiver \in {conn[c].receiver, None}
  BY <1>1 DEF Adds
<1> QED
  BY <1>1 DEF Effect, Still, HandleDropped, Breaking, LosesSender, Drops

LEMMA SendersKept ==
  ASSUME Data, NEW t \in Threads, Effect(t), NEW c \in Conns, Placed(c), NEW o \in Objects,
         c \notin ToSet(senders[o])
  PROVE  c \notin ToSet(senders'[o])
<1>1. ASSUME NEW X, Adds(Top(t), X) PROVE c \notin ToSet(senders'[o])
  BY <1>1 DEF Adds
<1> QED
  BY <1>1 DEF Effect, Still, HandleDropped, Breaking, Fewer, LosesSender, Drops

LEMMA UnusedKept ==
  ASSUME Basic, Data, NEW t \in Threads, Effect(t), NEW c \in Conns, conn[c].ref = 0,
         ConnectEnd(t) => Top(t).conn # c
  PROVE  conn'[c].ref = 0
<1>1. ~Placed(c)
  BY DEF Data, Counts
<1>2. ASSUME ConnectEnd(t), NEW X, Adds(Top(t), X) PROVE conn'[c].ref = 0
  <2>1. PICK f \in Frame : f = Top(t) /\ f.obj \in Objects
    BY <1>2, ConnectTop
  <2>2. c \notin X
    BY <1>1, <1>2, <2>1, CleanedAre DEF Adds, Placed
  <2> QED
    BY <1>2, <2>2 DEF Adds
<1>3. ASSUME NEW o \in Objects, NEW g \in Signals, NEW d \in Conns, Drops(o, g, d)
      PROVE  conn'[c].ref = 0
  BY <1>1, <1>3 DEF Drops, Placed
<1> QED
  BY <1>2, <1>3 DEF Effect, Still, HandleDropped, Breaking, LosesSender

LEMMA SomeUsers ==
  ASSUME UsersOK, NEW o \in Objects, Users(o) # {}
  PROVE  lists[o].inUse # 0 /\ lists[o].at \notin {"none", "deleted"}
<1>1. Counted(lists[o], Users(o))
  BY DEF UsersOK
<1>2. Cardinality(Users(o)) # 0
  BY <1>1, FS_EmptySet DEF Counted
<1> QED
  BY <1>1, <1>2 DEF Counted

\* A connection stays in a list that is used, unless the destructor of its
\* object takes it out.
LEMMA ListedKept ==
  ASSUME Basic, Data, UsersOK, NEW t \in Threads, Effect(t), NEW o \in Objects, Users(o) # {},
         ~Emptying(t, o), NEW g \in Signals, NEW c, Listed(c, o, g)
  PROVE  Listed(c, o, g)'
<1>0. lists[o].inUse # 0 /\ c \in Conns
  BY SomeUsers, Members DEF Basic, Listed
<1>1. ASSUME ConnectEnd(t), NEW X, Adds(Top(t), X) PROVE Listed(c, o, g)'
  <2>1. PICK f \in Frame : f = Top(t) /\ f.obj \in Objects
    BY <1>1, ConnectTop
  <2>2. ASSUME c \in X PROVE FALSE
    <3>1. Cleans(lists[f.obj]) /\ \E h \in Signals : Listed(c, f.obj, h)
      BY <1>1, <2>1, <2>2, CleanedAre DEF Adds
    <3>2. f.obj = o
      BY <1>0, <2>1, <3>1 DEF Data, OnceListed
    <3> QED
      BY <1>0, <3>1, <3>2 DEF Cleans
  <2> QED
    BY <1>1, <2>1, <2>2 DEF Adds
<1>2. ASSUME NEW p \in Objects, NEW h \in Signals, NEW d \in Conns, Drops(p, h, d), Emptying(t, p)
      PROVE  Listed(c, o, g)'
  <2>1. p # o
    BY <1>2
  <2> QED
    BY <1>0, <1>2, <2>1 DEF Drops, Data, OnceListed
<1>3. SameLists => Listed(c, o, g)'
  BY DEF SameLists, Listed
<1> QED
  BY <1>1, <1>2, <1>3 DEF Effect, Still, HandleDropped, LosesSender

\* Only the destructor changes the lists of an object that it has come to.
LEMMA PastLists ==
  ASSUME Basic, LifeOK, NamedLive, NEW t \in Threads, Effect(t), NEW o \in Objects, Past(o),
         ~Emptying(t, o), NEW g \in Signals
  PROVE  lists'[o].of[g] = lists[o].of[g]
<1>1. CASE ConnectEnd(t)
  <2>1. Top(t).obj # o
    BY <1>1, ConnectNames
  <2> QED
    BY <1>1, <2>1, ConnectEndLists DEF Connects
<1>2. ASSUME NEW p \in Objects, NEW h \in Signals, NEW d \in Conns, Drops(p, h, d), Emptying(t, p)
      PROVE  lists'[o].of[g] = lists[o].of[g]
  BY <1>2 DEF Drops
<1> QED
  BY <1>1, <1>2 DEF Effect, Still, HandleDropped, LosesSender, SameLists

-----------------------------------------------------------------------------
(* An object whose lists are used, and not yet by its destructor           *)

Intact(o) ==
  /\ lists[o].at = "used"
  /\ \A i : Deleting(o, i) => stack[Home[o]][i].at \notin {"receivers", "unlink"}

LEMMA IntactBack ==
  ASSUME Basic, SendersKnown, LifeOK, NamedLive, UnlinksFirst, ListsShape, UsersOK,
         NEW t \in Threads, Step(t) \/ UserCall(t), NEW o \in Objects, Users(o) # {}, Intact(o)'
  PROVE  Intact(o)
<1>0. Home[o] \in Threads
  BY HomeTyped
<1>1. lists[o].at = "used"
  <2>1. lists'[o].at = "used"
    BY DEF Intact
  <2>2. CASE ConnectEnd(t)
    <3>1. CASE o = Top(t).obj
      <4>1. ~Past(o)
        BY <2>2, <3>1, ConnectNames
      <4>2. lists[o].at \notin {"orphaned", "deleted", "none"}
        BY <4>1, SomeUsers DEF ListsShape, ShapeOf
      <4> QED
        BY <4>2, ListTyped DEF Basic
    <3>2. CASE o # Top(t).obj
      BY <2>1, <2>2, <3>2, ConnectEndLists DEF Connects
    <3> QED
      BY <3>1, <3>2
  <2>3. CASE DeleteListsEnd(t)
    BY <2>1, <2>3, DeleteListsEndLists
  <2>4. CASE ~ConnectEnd(t) /\ ~DeleteListsEnd(t)
    <3>1. Quiet(o)
      BY <2>4, QuietSteps, QuietCalls
    <3> QED
      BY <2>1, <3>1 DEF Quiet
  <2> QED
    BY <2>2, <2>3, <2>4
<1>2. ASSUME NEW i, Deleting(o, i), stack[Home[o]][i].at \in {"receivers", "unlink"}
      PROVE  FALSE
  <2>1. ~Below(stack[Home[o]][i]) /\ i \in DOMAIN stack[Home[o]]
    BY <1>2 DEF Deleting, Below
  <2>2. i = Len(stack[Home[o]]) /\ stack[Home[o]][i] = Top(Home[o]) /\ stack[Home[o]] # <<>>
    BY <1>0, <2>1, OnlyTop
  <2>3. Top(Home[o]).op = "delete" /\ Top(Home[o]).obj = o
        /\ Top(Home[o]).at \in {"receivers", "unlink"}
    BY <1>2, <2>2 DEF Deleting
  <2>4. ASSUME i \in DOMAIN stack'[Home[o]], stack'[Home[o]][i].op = "delete",
               stack'[Home[o]][i].obj = o, stack'[Home[o]][i].at \in {"receivers", "unlink"}
        PROVE  FALSE
    BY <2>4 DEF Intact, Deleting
  <2>5. CASE stack'[Home[o]] = stack[Home[o]]
    BY <1>2, <2>4, <2>5 DEF Deleting
  <2>6. CASE t # Home[o]
    <3>1. CASE DeleteEnd(t)
      <4>1. stack[t] # <<>> /\ Returns(t)
        BY <3>1 DEF DeleteEnd, At
      <4> QED
        BY <1>0, <2>5, <2>6, <4>1 DEF Returns, Basic, Typed
    <3>2. ASSUME NEW p \in Objects, DeleteCall(t, p) PROVE FALSE
      <4>1. i \in DOMAIN stack'[Home[o]] /\ stack'[Home[o]][i] = stack[Home[o]][i]
        BY <1>0, <2>1, <3>2, DeleteCallFrames
      <4> QED
        BY <1>2, <2>4, <4>1 DEF Deleting
    <3>3. CASE Moves(t)
      <4>1. stack'[Home[o]] = stack[Home[o]]
        BY <1>0, <2>6, <3>3 DEF Moves, Becomes, Pushes, Pops, Goes, Enters, Returns, Basic, Typed
      <4> QED
        BY <2>5, <4>1
    <3> QED
      BY <3>1, <3>2, <3>3, StepMoves, CallMoves
  <2>7. CASE t = Home[o] /\ UserCall(t)
    BY <2>2, <2>3, <2>7, UserCodeTop
  <2>8. CASE t = Home[o] /\ Step(t)
    <3>1. ASSUME NEW g, Becomes(t, Top(t), g), g.at \in {"receivers", "unlink"} PROVE FALSE
      <4>1. i \in DOMAIN stack'[t] /\ stack'[t][i] = g
        BY <2>2, <2>8, <3>1, BecomesFrames
      <4> QED
        BY <2>3, <2>4, <2>8, <3>1, <4>1 DEF Becomes
    <3>2. CASE Lock(t)
      BY <2>3, <2>8, <3>1, <3>2, LockFrame DEF Alike
    <3>3. CASE DeleteReceivers(t)
      BY <2>5, <2>8, <3>1, <3>3, DeleteReceiversFrame
    <3>4. CASE DeleteUnlink(t)
      BY <3>1, <3>4, DeleteUnlinkFrame
    <3>5. CASE DeleteListsEnd(t)
      <4>1. lists'[o].at # "used"
        BY <2>3, <2>8, <3>5, DeleteListsEndLists
      <4> QED
        BY <4>1 DEF Intact
    <3> QED
      BY <2>3, <2>8, <3>2, <3>3, <3>4, <3>5 DEF Step, At, ConnectEnd, DisconnectBegin,
        DisconnectList, DisconnectScan, DisconnectUnlink, DisconnectZero, DisconnectEnd, EmitBegin,
        EmitLook, SlotReturn, EmitResume, EmitEnd, DeliverEnd, DeleteBegin, DeleteLists,
        DeleteSenders, DeleteNode, DeleteEnd
  <2> QED
    BY <2>6, <2>7, <2>8
<1> QED
  BY <1>1, <1>2 DEF Intact

-----------------------------------------------------------------------------
(* The connections of connects that are about to be made are theirs alone. *)

Connecting(t, i, c) ==
  i \in DOMAIN stack[t] /\ stack[t][i].op = "connect" /\ stack[t][i].conn = c
NewConns ==
  \A t \in Threads : \A i, c : Connecting(t, i, c) =>
    conn[c].ref = 0 /\ \A u \in Threads : \A j : Connecting(u, j, c) => u = t /\ j = i

LEMMA ConnectingPush ==
  ASSUME Basic, NEW t \in Threads, NEW g \in Frame, Enters(t, g), g.op # "connect",
         NEW u \in Threads, NEW i, NEW c, Connecting(u, i, c)'
  PROVE  Connecting(u, i, c)
BY EntersFrames DEF Connecting

LEMMA ConnectingReturn ==
  ASSUME Basic, NEW t \in Threads, stack[t] # <<>>, Returns(t),
         NEW u \in Threads, NEW i, NEW c, Connecting(u, i, c)'
  PROVE  Connecting(u, i, c) /\ ~(u = t /\ i = Len(stack[t]))
BY ReturnsFrames DEF Connecting

LEMMA ConnectingBecomes ==
  ASSUME Basic, NEW t \in Threads, NEW g, Becomes(t, Top(t), g),
         NEW u \in Threads, NEW i, NEW c, Connecting(u, i, c)'
  PROVE  Connecting(u, i, c)
<1>1. PICK f : f = Top(t)
  OBVIOUS
<1>2. Becomes(t, f, g)
  BY <1>1
<1>3. /\ i \in DOMAIN stack'[u] /\ stack'[u][i].op = "connect" /\ stack'[u][i].conn = c
      /\ g.op = f.op /\ (g.op = "connect" => g.conn = f.conn)
  BY <1>2 DEF Connecting, Becomes
<1>4. /\ DOMAIN stack'[u] = DOMAIN stack[u] /\ f = stack[t][Len(stack[t])]
      /\ \A k \in DOMAIN stack[u] :
           stack'[u][k] = IF u = t /\ k = Len(stack[t]) THEN g ELSE stack[u][k]
  BY <1>2, BecomesFrames
<1>5. CASE u = t /\ i = Len(stack[t])
  BY <1>3, <1>4, <1>5 DEF Connecting
<1>6. CASE ~(u = t /\ i = Len(stack[t]))
  BY <1>3, <1>4, <1>6 DEF Connecting
<1> QED
  BY <1>5, <1>6

\* The frames of connects after a step
LEMMA ConnectingNext ==
  ASSUME Basic, SendersKnown, NEW t \in Threads, Step(t) \/ UserCall(t),
         ~\E s \in Objects, r \in Objects, g \in Signals : ConnectCall(t, s, r, g),
         NEW u \in Threads, NEW i, NEW c, Connecting(u, i, c)'
  PROVE  Connecting(u, i, c) /\ (ConnectEnd(t) => ~(u = t /\ i = Len(stack[t])))
<1>1. CASE ConnectEnd(t)
  BY <1>1, ConnectTop, ConnectingReturn
<1>2. CASE DeleteEnd(t)
  <2>1. stack[t] # <<>> /\ Returns(t)
    BY <1>2 DEF DeleteEnd, At
  <2> QED
    BY <2>1, ConnectingReturn
<1>3. CASE Step(t) /\ ~ConnectEnd(t) /\ ~DeleteEnd(t)
  <2>1. StepsOn(t)
    BY <1>3, StepMoves
  <2>2. CASE UNCHANGED stack
    BY <1>3, <2>2 DEF Connecting
  <2>3. CASE \E g : Becomes(t, Top(t), g)
    BY <1>3, <2>3, ConnectingBecomes
  <2>4. CASE Pops(t)
    BY <1>3, <2>4, ConnectingReturn DEF Pops
  <2> QED
    BY <2>1, <2>2, <2>3, <2>4 DEF StepsOn
<1>4. CASE UserCall(t)
  <2>1. ASSUME NEW s \in Objects, NEW g \in Signals, EmitCall(t, s, g) PROVE Connecting(u, i, c)
    <3>1. \E f \in Frame : Enters(t, f) /\ f.op = "emit"
      BY <2>1, EmitCallBasic
    <3> QED
      BY <3>1, ConnectingPush
  <2>2. ASSUME NEW s \in Objects, NEW r \in Objects \cup {None}, NEW g \in Scopes,
               DisconnectCall(t, s, r, g)
        PROVE  Connecting(u, i, c)
    <3>1. \E f \in Frame : Enters(t, f) /\ f.op = "disconnect"
      BY <2>2, DisconnectCallBasic
    <3> QED
      BY <3>1, ConnectingPush
  <2>3. ASSUME NEW o \in Objects, Deliver(t, o) PROVE Connecting(u, i, c)
    <3>1. \E f \in Frame : Enters(t, f) /\ f.op = "event"
      BY <2>3, DeliverBasic
    <3> QED
      BY <3>1, ConnectingPush
  <2>4. ASSUME NEW o \in Objects, DeleteCall(t, o) PROVE Connecting(u, i, c)
    BY <2>4, DeleteCallFrames DEF Connecting
  <2>5. ASSUME NEW d \in Conns, DropHandle(t, d) \/ DisconnectHandle(t, d)
        PROVE  Connecting(u, i, c)
    BY <2>5 DEF DropHandle, DisconnectHandle, Connecting
  <2>6. Connecting(u, i, c)
    BY <1>4, <2>1, <2>2, <2>3, <2>4, <2>5 DEF UserCall
  <2>7. ~ConnectEnd(t)
    <3>1. ConnectEnd(t) => stack[t] # <<>> /\ Top(t).at = "begin"
      BY DEF ConnectEnd, At
    <3> QED
      BY <1>4, <3>1, UserCodeTop DEF InUserCode
  <2> QED
    BY <2>6, <2>7
<1> QED
  BY <1>1, <1>2, <1>3, <1>4
LEMMA NewNext ==
  ASSUME Basic, SendersKnown, Data, NewConns, NEW t \in Threads, Effect(t), Step(t) \/ UserCall(t)
  PROVE  NewConns'
<1>1. ASSUME NEW s \in Objects, NEW r \in Objects, NEW g \in Signals, ConnectCall(t, s, r, g)
      PROVE  NewConns'
  <2>1. PICK f \in Frame : /\ Enters(t, f) /\ f.op = "connect" /\ f.conn \in Conns
                           /\ Unused(f.conn)
    BY <1>1, ConnectCallBasic
  <2>2. conn' = conn
    BY <1>1 DEF ConnectCall
  <2>3. \A u \in Threads : \A i : ~Connecting(u, i, f.conn)
    <3>1. SUFFICES ASSUME NEW u \in Threads, NEW i, Connecting(u, i, f.conn) PROVE FALSE
      OBVIOUS
    <3>2. stack[u][i] \in ToSet(stack[u])
      BY <3>1 DEF Connecting, ToSet
    <3> QED
      BY <2>1, <3>1, <3>2 DEF Unused, Connecting
  <2>4. PICK n : n = Len(stack[t]) + 1
    OBVIOUS
  <2>5. \A u \in Threads : \A i, c : Connecting(u, i, c)' =>
          Connecting(u, i, c) \/ (u = t /\ i = n /\ c = f.conn)
    BY <2>1, <2>4, EntersFrames DEF Connecting
  <2>6. conn[f.conn].ref = 0
    BY <2>1 DEF Unused
  <2>7. ASSUME NEW u \in Threads, NEW i, NEW c, Connecting(u, i, c)' PROVE conn'[c].ref = 0
    BY <2>2, <2>5, <2>6, <2>7 DEF NewConns
  <2>8. ASSUME NEW u \in Threads, NEW i, NEW c, Connecting(u, i, c)',
               NEW v \in Threads, NEW j, Connecting(v, j, c)'
        PROVE  u = v /\ i = j
    <3>1. CASE c = f.conn
      BY <2>3, <2>5, <2>8, <3>1
    <3>2. CASE c # f.conn
      BY <2>5, <2>8, <3>2 DEF NewConns
    <3> QED
      BY <3>1, <3>2
  <2> QED
    BY <2>7, <2>8 DEF NewConns
<1>2. CASE ~\E s \in Objects, r \in Objects, g \in Signals : ConnectCall(t, s, r, g)
  <2>1. \A u \in Threads : \A i, c : Connecting(u, i, c)' =>
          Connecting(u, i, c) /\ (ConnectEnd(t) => ~(u = t /\ i = Len(stack[t])))
    BY <1>2, ConnectingNext
  <2>2. ASSUME NEW u \in Threads, NEW i, NEW c, Connecting(u, i, c)' PROVE conn'[c].ref = 0
    <3>1. Connecting(u, i, c) /\ conn[c].ref = 0 /\ c \in Conns
      <4>1. Connecting(u, i, c)
        BY <2>1, <2>2
      <4> QED
        BY <4>1, FramesOK DEF NewConns, Connecting, FrameOK, ConnectFrame
    <3>2. ConnectEnd(t) => Top(t).conn # c
      <4>1. ASSUME ConnectEnd(t), Top(t).conn = c PROVE Connecting(t, Len(stack[t]), c)
        BY <4>1, ConnectTop DEF Connecting
      <4> QED
        BY <2>1, <2>2, <3>1, <4>1 DEF NewConns
    <3> QED
      BY <3>1, <3>2, UnusedKept
  <2> QED
    BY <2>1, <2>2 DEF NewConns
<1> QED
  BY <1>1, <1>2

LEMMA NewOfTop ==
  ASSUME Basic, NewConns, NEW t \in Threads
  PROVE  NewToAll(t)
<1>1. ASSUME At(t, "connect", "begin") PROVE Connecting(t, Len(stack[t]), Top(t).conn)
  BY <1>1, TopFrame DEF At, Connecting, Basic, Typed
<1> QED
  BY <1>1 DEF NewToAll, NewConns

-----------------------------------------------------------------------------
(* Whoever walks a list is at a connection that is in it.                  *)

ScanOK(f) ==
  f.op = "disconnect" => /\ f.at = "begin" => f.conn = None
                         /\ f.conn # None => Listed(f.conn, f.obj, f.sig)
LookOK(f) ==
  f.op = "emit" /\ ((f.at = "look" /\ f.conn # None)
                    \/ (f.at \in {"slot", "relock"} /\ Intact(f.obj))) =>
    Listed(f.conn, f.obj, f.sig) /\ Listed(f.last, f.obj, f.sig)
EmptyOK(f) ==
  f.op = "delete" /\ f.at = "unlink" =>
    lists[f.obj].of[f.sig] # <<>> /\ f.conn = Head(lists[f.obj].of[f.sig])
\* It holds the mutex of the receiver, if the connection has one still.
UnlinkOK(f) ==
  f.op \in {"disconnect", "delete"} /\ f.at = "unlink" =>
    Broken(f.conn) \/ Needs(f, MutexOf[conn[f.conn].receiver])
ZeroOK(f) ==
  f.op = "disconnect" /\ f.at = "zero" => \A r \in Objects : f.conn \notin ToSet(senders[r])
WalkOK(f) == ScanOK(f) /\ LookOK(f) /\ EmptyOK(f) /\ UnlinkOK(f) /\ ZeroOK(f)
Walks == \A t \in Threads : \A i \in DOMAIN stack[t] : \A f : f = stack[t][i] => WalkOK(f)

Good == Basic /\ LifeOK /\ NamedLive /\ ListsShape /\ UsersOK /\ Data /\ Walks

LEMMA WalksTop ==
  ASSUME Basic, Walks, NEW t \in Threads, stack[t] # <<>>
  PROVE  WalkOK(Top(t))
<1>1. Len(stack[t]) \in DOMAIN stack[t] /\ Top(t) = stack[t][Len(stack[t])]
  BY TopFrame DEF Basic, Typed
<1>2. WalkOK(stack[t][Len(stack[t])])
  BY <1>1 DEF Walks
<1> QED
  BY <1>1, <1>2, Zenon

LEMMA GoodImplies ==
  ASSUME Good
  PROVE  UnlinksFirst /\ SendersKnown /\ \A t \in Threads : OutOfSenders(t)
<1>1. UnlinksFirst
  BY WalksTop DEF Good, UnlinksFirst, WalkOK, EmptyOK
<1>2. ASSUME NEW t \in Threads PROVE OutOfSenders(t)
  <2> SUFFICES ASSUME At(t, "disconnect", "zero")
               PROVE  /\ \A r \in Objects : Top(t).conn \notin ToSet(senders[r])
                      /\ Listed(Top(t).conn, Top(t).obj, Top(t).sig)
    BY DEF OutOfSenders
  <2>1. WalkOK(Top(t)) /\ DisconnectFrame(Top(t)) /\ Top(t).op = "disconnect" /\ Top(t).at = "zero"
    BY WalksTop, TopOK DEF Good, At, FrameOK
  <2>2. Top(t).conn # None
    BY <2>1, NoneElsewhere DEF DisconnectFrame
  <2> QED
    BY <2>1, <2>2 DEF WalkOK, ZeroOK, ScanOK
<1> QED
  BY <1>1, <1>2, SendersAreKnown DEF Good

LEMMA EmptyingIs ==
  ASSUME Basic, NEW t \in Threads, NEW o \in Objects, Emptying(t, o)
  PROVE  Home[o] = t /\ Past(o) /\ ~Intact(o)
<1>1. Deleting(o, Len(stack[t])) /\ Home[o] = t /\ stack[Home[o]][Len(stack[t])] = Top(t)
  BY TopDeleting DEF Emptying
<1> QED
  BY <1>1 DEF Emptying, Past, Intact

LEMMA UserIs ==
  ASSUME NEW u \in Threads, NEW i \in DOMAIN stack[u], NEW f, f = stack[u][i], InUse(f)
  PROVE  Users(f.obj) # {}
<1>1. Using(f.obj, u, i)
  BY UsesInUse DEF Using
<1>2. <<u, i>> \in Users(f.obj)
  BY <1>1, UsersAre
<1> QED
  BY <1>2

\* What a step leaves of a frame that it does not execute
LEMMA Bystander ==
  ASSUME Good, NEW t \in Threads, Step(t) \/ UserCall(t), Effect(t),
         NEW u \in Threads, NEW i \in DOMAIN stack[u], NEW f, f = stack[u][i],
         u # t \/ Below(f)
  PROVE  WalkOK(f)'
<1>0. /\ WalkOK(f) /\ FrameOK(u, f) /\ f \in Frame /\ f.obj \in Objects
      /\ ~Below(f) => f = Top(u) /\ stack[u] # <<>> /\ i = Len(stack[u]) /\ u # t
  BY OnlyTop, FramesOK, FrameTyped DEF Good, Walks
<1>1. Basic /\ LifeOK /\ NamedLive /\ ListsShape /\ UsersOK /\ Data /\ UnlinksFirst /\ SendersKnown
  BY GoodImplies DEF Good
<1>2. Emptying(t, f.obj) => Home[f.obj] = t /\ Past(f.obj) /\ ~Intact(f.obj)
  BY <1>0, <1>1, EmptyingIs
<1>3. f.op = "disconnect" => ~Below(f)
  BY <1>0 DEF Below, FrameOK, DisconnectFrame
<1>4. f.op = "disconnect" /\ f.conn # None =>
        /\ Listed(f.conn, f.obj, f.sig) /\ Listed(f.conn, f.obj, f.sig)'
        /\ f.conn \in Conns /\ f.sig \in Signals
  <2> SUFFICES ASSUME f.op = "disconnect", f.conn # None
               PROVE  /\ Listed(f.conn, f.obj, f.sig) /\ Listed(f.conn, f.obj, f.sig)'
                      /\ f.conn \in Conns /\ f.sig \in Signals
    OBVIOUS
  <2>1. /\ Listed(f.conn, f.obj, f.sig) /\ f.at # "begin" /\ f.sig \in Signals
        /\ f.conn \in Conns
    BY <1>0, FrameTyped DEF WalkOK, ScanOK, FrameOK, DisconnectFrame
  <2>2. Users(f.obj) # {}
    BY <2>1, UserIs DEF InUse
  <2>3. Usable(u, f.obj)
    BY <1>1 DEF NamedLive, Lively, UsableIn, Usable
  <2>4. ~Past(f.obj)
    BY <1>0, <1>1, <1>3, <2>3, UsableNotPast
  <2>5. Listed(f.conn, f.obj, f.sig)'
    BY <1>0, <1>1, <1>2, <2>1, <2>2, <2>4, ListedKept
  <2> QED
    BY <2>1, <2>5
<1>5. LookOK(f)'
  <2> SUFFICES ASSUME f.op = "emit", (f.at = "look" /\ f.conn # None)
                                      \/ (f.at \in {"slot", "relock"} /\ Intact(f.obj)')
               PROVE  Listed(f.conn, f.obj, f.sig)' /\ Listed(f.last, f.obj, f.sig)'
    BY DEF LookOK
  <2>1. Users(f.obj) # {} /\ f.sig \in Signals /\ Home[f.obj] = u
    BY <1>0, UserIs DEF InUse, FrameOK, EmitFrame
  <2>2. ~Emptying(t, f.obj) /\ Listed(f.conn, f.obj, f.sig) /\ Listed(f.last, f.obj, f.sig)
    <3>1. CASE f.at = "look" /\ f.conn # None
      BY <1>0, <1>2, <2>1, <3>1 DEF WalkOK, LookOK, Below
    <3>2. CASE f.at \in {"slot", "relock"} /\ Intact(f.obj)'
      <4>1. Intact(f.obj)
        BY <1>0, <1>1, <2>1, <3>2, IntactBack
      <4> QED
        BY <1>0, <1>2, <3>2, <4>1 DEF WalkOK, LookOK
    <3> QED
      BY <3>1, <3>2
  <2> QED
    BY <1>0, <1>1, <2>1, <2>2, ListedKept
<1>6. f.op = "delete" /\ f.at = "unlink" =>
        /\ lists[f.obj].of[f.sig] # <<>> /\ f.conn = Head(lists[f.obj].of[f.sig])
        /\ lists'[f.obj].of[f.sig] = lists[f.obj].of[f.sig] /\ f.conn \in Conns
        /\ Placed(f.conn)
  <2> SUFFICES ASSUME f.op = "delete", f.at = "unlink"
               PROVE  /\ lists[f.obj].of[f.sig] # <<>> /\ f.conn = Head(lists[f.obj].of[f.sig])
                      /\ lists'[f.obj].of[f.sig] = lists[f.obj].of[f.sig] /\ f.conn \in Conns
                      /\ Placed(f.conn)
    OBVIOUS
  <2>1. /\ lists[f.obj].of[f.sig] # <<>> /\ f.conn = Head(lists[f.obj].of[f.sig])
        /\ f.conn \in Conns /\ f.sig \in Signals /\ Home[f.obj] = u /\ u # t
    BY <1>0 DEF WalkOK, EmptyOK, FrameOK, DeleteFrame, Below
  <2>2. Past(f.obj)
    BY <2>1 DEF Past, Deleting
  <2>3. lists'[f.obj].of[f.sig] = lists[f.obj].of[f.sig]
    BY <1>0, <1>1, <1>2, <2>1, <2>2, PastLists
  <2>4. PICK s : s = lists[f.obj].of[f.sig]
    OBVIOUS
  <2>5. s \in Seq(Conns) /\ s # <<>> /\ f.conn = Head(s)
    BY <1>0, <1>1, <2>1, <2>4, ListTyped DEF Basic
  <2>6. f.conn \in ToSet(s)
    BY <2>5, HeadAndTail
  <2> QED
    BY <1>0, <2>1, <2>3, <2>4, <2>6 DEF Placed, Listed
<1>7. UnlinkOK(f)'
  <2> SUFFICES ASSUME f.op \in {"disconnect", "delete"}, f.at = "unlink"
               PROVE  conn'[f.conn].receiver = None
                      \/ Needs(f, MutexOf[conn'[f.conn].receiver])
    BY DEF UnlinkOK, Broken, Needs, Own
  <2>1. Placed(f.conn) /\ f.conn \in Conns
    BY <1>0, <1>4, <1>6, NoneElsewhere DEF Placed, FrameOK, DisconnectFrame
  <2>2. conn'[f.conn].receiver \in {conn[f.conn].receiver, None}
    BY <1>1, <2>1, ReceiverKept
  <2> QED
    BY <1>0, <2>2 DEF WalkOK, UnlinkOK, Broken
<1>8. ZeroOK(f)'
  <2> SUFFICES ASSUME f.op = "disconnect", f.at = "zero", NEW r \in Objects
               PROVE  f.conn \notin ToSet(senders'[r])
    BY DEF ZeroOK
  <2>1. Placed(f.conn) /\ f.conn \in Conns
    BY <1>0, <1>4, NoneElsewhere DEF Placed, FrameOK, DisconnectFrame
  <2> QED
    BY <1>0, <1>1, <2>1, SendersKept DEF WalkOK, ZeroOK
<1>9. ScanOK(f)'
  BY <1>0, <1>4 DEF WalkOK, ScanOK
<1>10. EmptyOK(f)'
  BY <1>6 DEF EmptyOK
<1> QED
  BY <1>5, <1>7, <1>8, <1>9, <1>10 DEF WalkOK

LEMMA WalksBecome ==
  ASSUME Good, NEW t \in Threads, Step(t), Effect(t), NEW g, Becomes(t, Top(t), g), WalkOK(g)'
  PROVE  Walks'
<1>1. PICK f : f = Top(t)
  OBVIOUS
<1>2. Becomes(t, f, g)
  BY <1>1
<1> SUFFICES ASSUME NEW u \in Threads, NEW i \in DOMAIN stack'[u], NEW k, k = stack'[u][i]
             PROVE  WalkOK(k)'
  BY DEF Walks
<1>3. /\ i \in DOMAIN stack[u]
      /\ stack'[u][i] = IF u = t /\ i = Len(stack[t]) THEN g ELSE stack[u][i]
  BY <1>2, BecomesFrames DEF Good
<1>4. CASE u = t /\ i = Len(stack[t])
  <2>1. k = g
    BY <1>3, <1>4
  <2> QED
    BY <2>1
<1>5. CASE ~(u = t /\ i = Len(stack[t]))
  <2>1. PICK h : h = stack[u][i]
    OBVIOUS
  <2>2. u # t \/ Below(h)
    BY <1>3, <1>5, <2>1 DEF Good, Basic, Shape
  <2>3. WalkOK(h)'
    BY <1>3, <2>1, <2>2, Bystander
  <2>4. k = h
    BY <1>3, <1>5, <2>1
  <2> QED
    BY <2>3, <2>4
<1> QED
  BY <1>4, <1>5

LEMMA WalksReturn ==
  ASSUME Good, NEW t \in Threads, Step(t), Effect(t), stack[t] # <<>>, Returns(t)
  PROVE  Walks'
<1> SUFFICES ASSUME NEW u \in Threads, NEW i \in DOMAIN stack'[u], NEW k, k = stack'[u][i]
             PROVE  WalkOK(k)'
  BY DEF Walks
<1>1. /\ i \in DOMAIN stack[u] /\ stack'[u][i] = stack[u][i] /\ ~(u = t /\ i = Len(stack[t]))
  BY ReturnsFrames DEF Good
<1>2. PICK h : h = stack[u][i]
  OBVIOUS
<1>3. u # t \/ Below(h)
  BY <1>1, <1>2 DEF Good, Basic, Shape
<1>4. WalkOK(h)'
  BY <1>1, <1>2, <1>3, Bystander
<1>5. k = h
  BY <1>1, <1>2
<1> QED
  BY <1>4, <1>5

\* Frames that are at no connection yet
Fresh(g) ==
  /\ g.op = "disconnect" => g.at = "begin" /\ g.conn = None
  /\ g.op = "emit" => g.at = "begin"
  /\ g.op = "delete" => g.at = "begin"

LEMMA FreshWalks ==
  ASSUME NEW g, Fresh(g)
  PROVE  WalkOK(g) /\ WalkOK(g)'
BY DEF Fresh, WalkOK, ScanOK, LookOK, EmptyOK, UnlinkOK, ZeroOK

LEMMA WalksCall ==
  ASSUME Good, NEW t \in Threads, UserCall(t), Effect(t),
         \A u \in Threads : \A i \in DOMAIN stack'[u] :
           \/ i \in DOMAIN stack[u] /\ stack'[u][i] = stack[u][i]
           \/ Fresh(stack'[u][i])
  PROVE  Walks'
<1> SUFFICES ASSUME NEW u \in Threads, NEW i \in DOMAIN stack'[u], NEW k, k = stack'[u][i]
             PROVE  WalkOK(k)'
  BY DEF Walks
<1>1. PICK h : h = stack'[u][i]
  OBVIOUS
<1>2. WalkOK(h)'
  <2>1. CASE Fresh(h)
    BY <2>1, FreshWalks
  <2>2. CASE i \in DOMAIN stack[u] /\ h = stack[u][i]
    <3>1. stack[t] # <<>> => Below(Top(t))
      BY UserCodeTop DEF InUserCode, Below, Good
    <3>2. u # t \/ Below(h)
      <4>1. CASE u = t /\ ~Below(h)
        <5>1. h = Top(t) /\ stack[t] # <<>>
          BY <2>2, <4>1, OnlyTop DEF Good
        <5> QED
          BY <3>1, <4>1, <5>1
      <4> QED
        BY <4>1
    <3> QED
      BY <2>2, <3>2, Bystander
  <2> QED
    BY <1>1, <2>1, <2>2
<1> QED
  BY <1>1, <1>2

LEMMA WalksUserCall ==
  ASSUME Good, NEW t \in Threads, UserCall(t), Effect(t)
  PROVE  Walks'
<1>0. Basic
  BY DEF Good
<1>1. ASSUME NEW g \in Frame, Enters(t, g), Fresh(g) PROVE Walks'
  <2>1. \A u \in Threads : \A i \in DOMAIN stack'[u] :
           \/ i \in DOMAIN stack[u] /\ stack'[u][i] = stack[u][i]
           \/ stack'[u][i] = g
    BY <1>0, <1>1, EntersFrames
  <2> QED
    BY <1>1, <2>1, WalksCall, Zenon
<1>2. ASSUME NEW s \in Objects, NEW g \in Signals, EmitCall(t, s, g) PROVE Walks'
  <2>1. \E f \in Frame : Enters(t, f) /\ f.op = "emit" /\ f.at = "begin"
    BY <1>0, <1>2, EmitCallBasic
  <2> QED
    BY <1>1, <2>1 DEF Fresh
<1>3. ASSUME NEW s \in Objects, NEW r \in Objects, NEW g \in Signals, ConnectCall(t, s, r, g)
      PROVE  Walks'
  <2>1. \E f \in Frame : Enters(t, f) /\ f.op = "connect"
    BY <1>0, <1>3, ConnectCallBasic
  <2> QED
    BY <1>1, <2>1 DEF Fresh
<1>4. ASSUME NEW s \in Objects, NEW r \in Objects \cup {None}, NEW g \in Scopes,
             DisconnectCall(t, s, r, g)
      PROVE  Walks'
  <2>1. \E f \in Frame : Enters(t, f) /\ f.op = "disconnect" /\ f.at = "begin" /\ f.conn = None
    BY <1>0, <1>4, DisconnectCallBasic
  <2> QED
    BY <1>1, <2>1 DEF Fresh
<1>5. ASSUME NEW o \in Objects, Deliver(t, o) PROVE Walks'
  <2>1. \E f \in Frame : Enters(t, f) /\ f.op = "event"
    BY <1>0, <1>5, DeliverBasic
  <2> QED
    BY <1>1, <2>1 DEF Fresh
<1>6. ASSUME NEW o \in Objects, DeleteCall(t, o) PROVE Walks'
  <2>1. \A u \in Threads : \A i \in DOMAIN stack'[u] :
           \/ i \in DOMAIN stack[u] /\ stack'[u][i] = stack[u][i]
           \/ Fresh(stack'[u][i])
    BY <1>0, <1>6, DeleteCallFrames DEF Fresh
  <2> QED
    BY <2>1, WalksCall
<1>7. ASSUME NEW c \in Conns, DropHandle(t, c) \/ DisconnectHandle(t, c) PROVE Walks'
  <2>1. UNCHANGED stack
    BY <1>7 DEF DropHandle, DisconnectHandle
  <2> QED
    BY <2>1, WalksCall
<1> QED
  BY <1>2, <1>3, <1>4, <1>5, <1>6, <1>7 DEF UserCall

\* The lists that the emission that t executes uses are there.
LEMMA IntactWhenEmitting ==
  ASSUME Good, NEW t \in Threads, stack[t] # <<>>, Top(t).op = "emit", Top(t).at # "begin",
         lists[Top(t).obj].at # "orphaned"
  PROVE  Intact(Top(t).obj)
<1>1. PICK f : f = Top(t)
  OBVIOUS
<1>2. /\ f.obj \in Objects /\ Home[f.obj] = t /\ Len(stack[t]) \in DOMAIN stack[t]
      /\ f = stack[t][Len(stack[t])]
  BY <1>1, TopOK, TopFrame, FrameTyped DEF Good, Basic, Typed, FrameOK, EmitFrame
<1>3. Users(f.obj) # {}
  BY <1>1, <1>2, UserIs DEF InUse
<1>4. lists[f.obj].at = "used"
  BY <1>1, <1>2, <1>3, SomeUsers, ListTyped DEF Good, Basic
<1>5. ASSUME NEW i, Deleting(f.obj, i), stack[t][i].at \in {"receivers", "unlink"}
      PROVE  FALSE
  <2>1. i \in DOMAIN stack[t] /\ stack[t][i].op = "delete" /\ ~Below(stack[t][i])
    BY <1>2, <1>5 DEF Deleting, Below
  <2>2. stack[t][i] = f
    BY <1>1, <2>1, OnlyTop DEF Good
  <2> QED
    BY <1>1, <2>1, <2>2
<1> QED
  BY <1>1, <1>2, <1>4, <1>5 DEF Intact

LEMMA TopUsers ==
  ASSUME Basic, NEW t \in Threads, stack[t] # <<>>, NEW f, f = Top(t), InUse(f)
  PROVE  Users(f.obj) # {}
BY TopFrame, UserIs DEF Basic, Typed

LEMMA LockMutex ==
  ASSUME Basic, NEW t \in Threads, Lock(t)
  PROVE  \E g \in Frame : Becomes(t, Top(t), g) /\ Alike(Top(t), g) /\ g.mutex = Top(t).mutex
<1>1. PICK g \in Frame : Becomes(t, Top(t), g) /\ Alike(Top(t), g)
  BY LockFrame
<1>2. PICK n : n = Len(stack[t])
  OBVIOUS
<1>3. stack[t] # <<>> /\ Top(t) \in Frame /\ Goes(t, [Top(t) EXCEPT !.want = Tail(@)])
      /\ Top(t).want # <<>>
  BY TopFrame DEF Lock, Basic, Typed
<1>4. PICK f, h : f = Top(t) /\ h = [Top(t) EXCEPT !.want = Tail(@)]
  OBVIOUS
<1>5. h \in Frame /\ h.mutex = f.mutex
  <2>1. f.want \in Seq(Mutexes) /\ f.want # <<>> /\ f \in Frame
    BY <1>3, <1>4, FrameTyped
  <2>2. Tail(f.want) \in Seq(Mutexes)
    BY <2>1
  <2> QED
    BY <1>4, <2>1, <2>2 DEF Frame
<1>6. stack'[t][n] = h
  BY <1>2, <1>3, <1>4, <1>5, GoesStack DEF Basic, Typed
<1>7. stack'[t][n] = g
  BY <1>1, <1>2, GoesStack DEF Becomes, Basic, Typed
<1> QED
  BY <1>1, <1>4, <1>5, <1>6, <1>7

LEMMA LockWalks ==
  ASSUME Good, NEW t \in Threads, Effect(t), Step(t), Lock(t)
  PROVE  Walks'
<1>0. Basic /\ UnlinksFirst /\ SendersKnown /\ WalkOK(Top(t)) /\ stack[t] # <<>>
  BY GoodImplies, WalksTop DEF Good, Lock
<1>1. PICK g \in Frame : Becomes(t, Top(t), g) /\ Alike(Top(t), g) /\ g.mutex = Top(t).mutex
  BY <1>0, LockMutex
<1>2. PICK f \in Frame : f = Top(t)
  BY <1>1 DEF Becomes
<1>3. UNCHANGED <<lists, conn, senders>> /\ WalkOK(f) /\ Alike(f, g) /\ g.mutex = f.mutex
      /\ f.obj \in Objects
  BY <1>0, <1>1, <1>2, FrameTyped DEF Lock
<1>4. f.op = "emit" /\ f.at \in {"slot", "relock"} /\ Intact(f.obj)' => Intact(f.obj)
  <2>1. ASSUME f.op = "emit", f.at \in {"slot", "relock"}, Intact(f.obj)' PROVE Intact(f.obj)
    <3>1. Users(f.obj) # {}
      BY <1>0, <1>2, <2>1, TopUsers DEF InUse
    <3> QED
      BY <1>0, <1>3, <2>1, <3>1, IntactBack DEF Good
  <2> QED
    BY <2>1
<1>5. ScanOK(g)' /\ EmptyOK(g)' /\ ZeroOK(g)'
  BY <1>3 DEF WalkOK, Alike, ScanOK, EmptyOK, ZeroOK, Listed
<1>6. LookOK(g)'
  <2>1. g.obj = f.obj
    BY <1>3 DEF Alike
  <2>2. Intact(g.obj)' <=> Intact(f.obj)'
    BY <2>1
  <2> QED
    BY <1>3, <1>4, <2>1, <2>2 DEF WalkOK, Alike, LookOK, Listed
<1>7. UnlinkOK(g)'
  BY <1>3 DEF WalkOK, Alike, UnlinkOK, Broken, Needs, Own
<1>8. WalkOK(g)'
  BY <1>5, <1>6, <1>7 DEF WalkOK
<1> QED
  BY <1>1, <1>8, WalksBecome

\* A frame of an emission or a disconnection that is at no such point
LEMMA DeleteWalks ==
  ASSUME NEW g, g.op = "delete", g.at # "unlink"
  PROVE  WalkOK(g)'
BY DEF WalkOK, ScanOK, LookOK, EmptyOK, UnlinkOK, ZeroOK

LEMMA ScanWalks ==
  ASSUME NEW g, g.op = "disconnect", g.at = "scan", g.conn # None => Listed(g.conn, g.obj, g.sig)'
  PROVE  WalkOK(g)'
BY DEF WalkOK, ScanOK, LookOK, EmptyOK, UnlinkOK, ZeroOK

LEMMA LookWalks ==
  ASSUME NEW g, g.op = "emit",
         g.at = "look" => g.conn = None
                          \/ (Listed(g.conn, g.obj, g.sig)' /\ Listed(g.last, g.obj, g.sig)'),
         g.at # "look" => Listed(g.conn, g.obj, g.sig)' /\ Listed(g.last, g.obj, g.sig)'
  PROVE  WalkOK(g)'
BY DEF WalkOK, ScanOK, LookOK, EmptyOK, UnlinkOK, ZeroOK

\* The connection after one that is listed is listed, if there is one.
LEMMA NextListed ==
  ASSUME Basic, NEW f, f.obj \in Objects, f.sig \in Signals, Listed(f.conn, f.obj, f.sig),
         NextOf(f) # None
  PROVE  Listed(NextOf(f), f.obj, f.sig)
<1>1. PICK s, c : s = lists[f.obj].of[f.sig] /\ c = f.conn
  OBVIOUS
<1>2. s \in Seq(Conns) /\ c \in ToSet(s) /\ c \in Conns
  BY <1>1, ListTyped, Members DEF Listed, Basic
<1>3. NextIn(s, c) \in ToSet(s) \cup {None}
  BY <1>2, NextTyped
<1> QED
  BY <1>1, <1>3 DEF NextOf, Listed

LEMMA FirstListed ==
  ASSUME Basic, NEW o \in Objects, NEW g \in Signals, NEW s, s = lists[o].of[g]
  PROVE  /\ First(s) # None => Listed(First(s), o, g) /\ s # <<>>
         /\ s # <<>> => Listed(Last(s), o, g)
<1>1. s \in Seq(Conns)
  BY ListTyped DEF Basic
<1> QED
  BY <1>1, FirstTyped DEF Listed, First

LEMMA DisconnectWalks ==
  ASSUME Good, NEW t \in Threads, Effect(t), Step(t),
         DisconnectBegin(t) \/ DisconnectList(t) \/ DisconnectScan(t) \/ DisconnectUnlink(t)
         \/ DisconnectZero(t) \/ DisconnectEnd(t)
  PROVE  Walks'
<1>0. Basic /\ UnlinksFirst /\ SendersKnown /\ stack[t] # <<>>
  BY GoodImplies, ReturnsFrame DEF Good, DisconnectBegin, DisconnectList, DisconnectScan,
    DisconnectUnlink, DisconnectZero, DisconnectEnd
<1>1. PICK f : f = Top(t)
  OBVIOUS
<1>2. WalkOK(f) /\ FrameOK(t, f) /\ f.obj \in Objects
  BY <1>0, <1>1, WalksTop, TopOK, FrameTyped DEF Good
<1>3. CASE DisconnectEnd(t)
  BY <1>0, <1>3, WalksReturn DEF DisconnectEnd
<1>4. CASE DisconnectBegin(t)
  <2>1. CASE lists[f.obj].at = "none"
    BY <1>0, <1>1, <1>4, <2>1, WalksReturn DEF DisconnectBegin
  <2>2. CASE lists[f.obj].at # "none"
    <3>1. PICK g \in Frame : /\ Becomes(t, Top(t), g) /\ f.op = "disconnect" /\ f.at = "begin"
                             /\ g.at = "scan" /\ g.conn = f.conn
      BY <1>0, <1>1, <1>4, <2>2, DisconnectBeginFrame
    <3>2. g.conn = None /\ g.op = "disconnect"
      BY <1>1, <1>2, <3>1 DEF WalkOK, ScanOK, Becomes
    <3>3. WalkOK(g)'
      BY <3>1, <3>2, ScanWalks
    <3> QED
      BY <3>1, <3>3, WalksBecome
  <2> QED
    BY <2>1, <2>2
<1>5. CASE DisconnectList(t)
  <2>1. PICK g \in Frame, s \in Signals :
           /\ Becomes(t, Top(t), g) /\ f.op = "disconnect"
           /\ g.at = "scan" /\ g.sig = s /\ g.conn = First(lists[g.obj].of[s])
    BY <1>0, <1>1, <1>5, DisconnectListFrame
  <2>2. g.obj = f.obj /\ g.op = "disconnect" /\ UNCHANGED lists
    BY <1>1, <1>5, <2>1 DEF Becomes, DisconnectList
  <2>3. g.conn # None => Listed(g.conn, g.obj, g.sig)
    BY <1>0, <1>2, <2>1, <2>2, FirstListed
  <2>4. WalkOK(g)'
    BY <2>1, <2>2, <2>3, ScanWalks DEF Listed
  <2> QED
    BY <2>1, <2>4, WalksBecome
<1>6. CASE DisconnectScan(t)
  <2>1. PICK g \in Frame :
           /\ Becomes(t, Top(t), g) /\ f.op = "disconnect"
           /\ g.sig = f.sig /\ f.conn \in Conns
           /\ \/ g.at = "scan" /\ g.conn = NextOf(f)
              \/ /\ g.at = "unlink" /\ g.conn = f.conn
                 /\ Needs(g, MutexOf[conn[g.conn].receiver])
    BY <1>0, <1>1, <1>6, DisconnectScanFrame
  <2>2. g.obj = f.obj /\ g.op = "disconnect" /\ UNCHANGED <<lists, conn>>
    BY <1>1, <1>6, <2>1 DEF Becomes, DisconnectScan
  <2>3. Listed(f.conn, f.obj, f.sig) /\ f.sig \in Signals
    BY <1>2, <2>1, NoneElsewhere DEF WalkOK, ScanOK, FrameOK, DisconnectFrame
  <2>4. CASE g.at = "scan" /\ g.conn = NextOf(f)
    <3>1. g.conn # None => Listed(g.conn, g.obj, g.sig)
      BY <1>0, <1>2, <2>1, <2>2, <2>3, <2>4, NextListed
    <3>2. WalkOK(g)'
      BY <2>2, <2>4, <3>1, ScanWalks DEF Listed
    <3> QED
      BY <2>1, <3>2, WalksBecome
  <2>5. CASE g.at = "unlink" /\ g.conn = f.conn /\ Needs(g, MutexOf[conn[g.conn].receiver])
    <3>1. Listed(g.conn, g.obj, g.sig)'
      BY <2>1, <2>2, <2>3, <2>5 DEF Listed
    <3>2. UnlinkOK(g)'
      BY <2>2, <2>5 DEF UnlinkOK, Needs, Own
    <3>3. WalkOK(g)'
      BY <2>2, <2>5, <3>1, <3>2 DEF WalkOK, ScanOK, LookOK, EmptyOK, ZeroOK
    <3> QED
      BY <2>1, <3>3, WalksBecome
  <2> QED
    BY <2>1, <2>4, <2>5
<1>7. CASE DisconnectUnlink(t)
  <2>1. PICK g \in Frame :
           /\ Becomes(t, Top(t), g) /\ f.op = "disconnect"
           /\ g.at = "zero" /\ g.conn = f.conn /\ g.sig = f.sig /\ f.conn \in Conns
    BY <1>0, <1>1, <1>7, DisconnectUnlinkFrame
  <2>2. PICK c : c = f.conn
    OBVIOUS
  <2>3. /\ g.obj = f.obj /\ g.op = "disconnect" /\ UNCHANGED lists /\ c \in Conns
        /\ senders' = IF Broken(c) THEN senders ELSE Unlinked(c)
    BY <1>1, <1>7, <2>1, <2>2 DEF Becomes, DisconnectUnlink
  <2>4. \A r \in Objects : c \notin ToSet(senders'[r])
    <3>1. CASE Broken(c)
      <4>1. \A r \in Objects : c \notin ToSet(senders[r])
        BY <2>3, <3>1, NoneElsewhere DEF Good, Data, SendersOK, Broken
      <4> QED
        BY <2>3, <3>1, <4>1
    <3>2. CASE ~Broken(c)
      BY <2>3, <3>2, UnlinkedFewer DEF Good, Basic, Data
    <3> QED
      BY <3>1, <3>2
  <2>5. Listed(g.conn, g.obj, g.sig)'
    BY <1>2, <2>1, <2>3, NoneElsewhere DEF WalkOK, ScanOK, Listed
  <2>6. WalkOK(g)'
    BY <2>1, <2>2, <2>3, <2>4, <2>5 DEF WalkOK, ScanOK, LookOK, EmptyOK, UnlinkOK, ZeroOK
  <2> QED
    BY <2>1, <2>6, WalksBecome
<1>8. CASE DisconnectZero(t)
  <2>1. PICK g \in Frame :
           /\ Becomes(t, Top(t), g) /\ f.op = "disconnect" /\ f.at = "zero"
           /\ g.at = "scan" /\ g.sig = f.sig /\ g.conn = NextOf(f)
    BY <1>0, <1>1, <1>8, DisconnectZeroFrame
  <2>2. g.obj = f.obj /\ g.op = "disconnect" /\ UNCHANGED lists
    BY <1>1, <1>8, <2>1 DEF Becomes, DisconnectZero
  <2>3. Listed(f.conn, f.obj, f.sig) /\ f.sig \in Signals
    BY <1>2, <2>1, NoneElsewhere DEF WalkOK, ScanOK, FrameOK, DisconnectFrame
  <2>4. g.conn # None => Listed(g.conn, g.obj, g.sig)
    BY <1>0, <1>2, <2>1, <2>2, <2>3, NextListed
  <2>5. WalkOK(g)'
    BY <2>1, <2>2, <2>4, ScanWalks DEF Listed
  <2> QED
    BY <2>1, <2>5, WalksBecome
<1> QED
  BY <1>3, <1>4, <1>5, <1>6, <1>7, <1>8

LEMMA EmitWalks ==
  ASSUME Good, NEW t \in Threads, Effect(t), Step(t),
         EmitBegin(t) \/ EmitLook(t) \/ SlotReturn(t) \/ EmitResume(t) \/ EmitEnd(t)
  PROVE  Walks'
<1>0. Basic /\ UnlinksFirst /\ SendersKnown /\ stack[t] # <<>>
  BY GoodImplies, ReturnsFrame DEF Good, EmitBegin, EmitLook, SlotReturn, EmitResume, EmitEnd
<1>1. PICK f : f = Top(t)
  OBVIOUS
<1>2. WalkOK(f) /\ FrameOK(t, f) /\ f.obj \in Objects
  BY <1>0, <1>1, WalksTop, TopOK, FrameTyped DEF Good
<1>3. CASE EmitEnd(t)
  BY <1>0, <1>3, WalksReturn DEF EmitEnd
<1>4. CASE EmitBegin(t)
  <2>1. CASE lists[f.obj].at = "none"
    BY <1>0, <1>1, <1>4, <2>1, WalksReturn DEF EmitBegin
  <2>2. CASE lists[f.obj].at # "none"
    <3>1. PICK g \in Frame :
             /\ Becomes(t, Top(t), g) /\ f.op = "emit" /\ g.at = "look" /\ g.sig = f.sig
             /\ LET all == lists[g.obj].of[g.sig] IN
                  g.conn = First(all) /\ g.last = (IF all = <<>> THEN None ELSE Last(all))
      BY <1>0, <1>1, <1>4, <2>2, EmitBeginFrame
    <3>2. PICK all : all = lists[g.obj].of[g.sig]
      OBVIOUS
    <3>3. /\ g.conn = First(all) /\ g.last = (IF all = <<>> THEN None ELSE Last(all))
          /\ g.obj = f.obj /\ g.op = "emit" /\ f.sig \in Signals
      BY <1>1, <1>2, <3>1, <3>2 DEF Becomes, FrameOK, EmitFrame
    <3>4. SameLists
      <4>1. lists' = [lists EXCEPT ![f.obj] = Enter(lists[f.obj])]
        BY <1>1, <1>4, <2>2 DEF EmitBegin
      <4> QED
        BY <1>0, <1>2, <4>1, EntersLists DEF Basic, SameLists
    <3>5. g.conn # None => Listed(g.conn, g.obj, g.sig)' /\ Listed(g.last, g.obj, g.sig)'
      <4>1. g.conn # None => Listed(g.conn, g.obj, g.sig) /\ Listed(g.last, g.obj, g.sig)
        BY <1>0, <1>2, <3>1, <3>2, <3>3, FirstListed
      <4> QED
        BY <1>2, <3>1, <3>3, <3>4, <4>1 DEF SameLists, Listed
    <3>6. WalkOK(g)'
      BY <3>1, <3>3, <3>5, LookWalks
    <3> QED
      BY <3>1, <3>6, WalksBecome
  <2> QED
    BY <2>1, <2>2
<1>9. ASSUME NEW g \in Frame, Becomes(t, Top(t), g), GoneOn(f, g), UNCHANGED lists, f.op = "emit",
             Listed(f.conn, f.obj, f.sig), Listed(f.last, f.obj, f.sig)
      PROVE  Walks'
  <2>1. /\ g.obj = f.obj /\ g.op = "emit" /\ f.sig \in Signals /\ g.at = "look" /\ g.sig = f.sig
        /\ g.last = f.last /\ g.conn \in {None, NextOf(f)}
    BY <1>1, <1>2, <1>9 DEF Becomes, FrameOK, EmitFrame, GoneOn
  <2>2. g.conn # None => Listed(g.conn, g.obj, g.sig)
    BY <1>0, <1>2, <1>9, <2>1, NextListed
  <2>3. g.conn # None => Listed(g.conn, g.obj, g.sig)' /\ Listed(g.last, g.obj, g.sig)'
    BY <1>9, <2>1, <2>2 DEF Listed
  <2>4. WalkOK(g)'
    BY <2>1, <2>3, LookWalks
  <2> QED
    BY <1>9, <2>4, WalksBecome
<1>5. CASE EmitLook(t)
  <2>1. PICK g \in Frame :
           /\ Becomes(t, Top(t), g) /\ f.op = "emit" /\ f.at = "look" /\ f.conn \in Conns
           /\ \/ GoneOn(f, g)
              \/ g.at = "slot" /\ g.sig = f.sig /\ g.conn = f.conn /\ g.last = f.last
    BY <1>0, <1>1, <1>5, EmitLookFrame
  <2>2. UNCHANGED lists
    BY <1>5 DEF EmitLook
  <2>3. Listed(f.conn, f.obj, f.sig) /\ Listed(f.last, f.obj, f.sig)
    BY <1>2, <2>1, NoneElsewhere DEF WalkOK, LookOK
  <2>4. CASE g.at = "slot" /\ g.sig = f.sig /\ g.conn = f.conn /\ g.last = f.last
    <3>1. g.op = "emit" /\ g.obj = f.obj
      BY <1>1, <2>1 DEF Becomes
    <3>2. Listed(g.conn, g.obj, g.sig)' /\ Listed(g.last, g.obj, g.sig)'
      BY <2>2, <2>3, <2>4, <3>1 DEF Listed
    <3>3. WalkOK(g)'
      BY <2>4, <3>1, <3>2, LookWalks
    <3> QED
      BY <2>1, <3>3, WalksBecome
  <2> QED
    BY <1>9, <2>1, <2>2, <2>3, <2>4
<1>6. CASE SlotReturn(t)
  <2>1. PICK g \in Frame :
           /\ Becomes(t, Top(t), g) /\ f.op = "emit" /\ f.at = "slot"
           /\ g.at = "relock" /\ g.sig = f.sig /\ g.conn = f.conn /\ g.last = f.last
    BY <1>0, <1>1, <1>6, SlotReturnFrame
  <2>2. g.op = "emit" /\ g.obj = f.obj /\ UNCHANGED lists
    BY <1>1, <1>6, <2>1 DEF Becomes, SlotReturn
  <2>3. Intact(f.obj)' => Intact(f.obj)
    <3>1. Users(f.obj) # {}
      BY <1>0, <1>1, <2>1, TopUsers DEF InUse
    <3> QED
      BY <1>0, <1>2, <3>1, IntactBack DEF Good
  <2>4. Intact(f.obj)' => Listed(g.conn, g.obj, g.sig)' /\ Listed(g.last, g.obj, g.sig)'
    BY <1>2, <2>1, <2>2, <2>3 DEF WalkOK, LookOK, Listed
  <2>5. LookOK(g)'
    BY <2>1, <2>2, <2>4 DEF LookOK
  <2>6. WalkOK(g)'
    BY <2>1, <2>2, <2>5 DEF WalkOK, ScanOK, EmptyOK, UnlinkOK, ZeroOK
  <2> QED
    BY <2>1, <2>6, WalksBecome
<1>7. CASE EmitResume(t)
  <2>1. PICK g \in Frame :
           /\ Becomes(t, Top(t), g) /\ f.op = "emit" /\ f.at = "relock"
           /\ f.conn \in Conns /\ g.at = "look"
           /\ IF lists[g.obj].at = "orphaned" THEN g.conn = None ELSE GoneOn(f, g)
    BY <1>0, <1>1, <1>7, EmitResumeFrame
  <2>2. g.op = "emit" /\ g.obj = f.obj /\ UNCHANGED lists
    BY <1>1, <1>7, <2>1 DEF Becomes, EmitResume
  <2>3. CASE lists[g.obj].at = "orphaned"
    <3>1. WalkOK(g)'
      BY <2>1, <2>2, <2>3, LookWalks
    <3> QED
      BY <2>1, <3>1, WalksBecome
  <2>4. CASE lists[g.obj].at # "orphaned"
    <3>1. Intact(f.obj)
      BY <1>0, <1>1, <2>1, <2>2, <2>4, IntactWhenEmitting
    <3>2. Listed(f.conn, f.obj, f.sig) /\ Listed(f.last, f.obj, f.sig)
      BY <1>2, <2>1, <3>1 DEF WalkOK, LookOK
    <3> QED
      BY <1>9, <2>1, <2>2, <2>4, <3>2
  <2> QED
    BY <2>3, <2>4
<1> QED
  BY <1>3, <1>4, <1>5, <1>6, <1>7

LEMMA DestructorWalks ==
  ASSUME Good, NEW t \in Threads, Effect(t), Step(t),
         \/ DeleteBegin(t) \/ DeleteLists(t) \/ DeleteReceivers(t) \/ DeleteUnlink(t)
         \/ DeleteListsEnd(t) \/ DeleteSenders(t) \/ DeleteNode(t) \/ DeleteEnd(t)
  PROVE  Walks'
<1>0. Basic /\ UnlinksFirst /\ SendersKnown /\ stack[t] # <<>> /\ Top(t).obj \in Objects
  BY GoodImplies, ReturnsFrame DEF Good, DeleteBegin, DeleteLists, DeleteReceivers,
    DeleteUnlink, DeleteListsEnd, DeleteSenders, DeleteNode, DeleteEnd
<1>1. PICK f : f = Top(t)
  OBVIOUS
<1>2. ASSUME NEW g \in Frame, Becomes(t, Top(t), g), f.op = "delete", g.at # "unlink"
      PROVE  Walks'
  <2>1. g.op = "delete"
    BY <1>1, <1>2 DEF Becomes
  <2>2. WalkOK(g)'
    BY <1>2, <2>1, DeleteWalks
  <2> QED
    BY <1>2, <2>2, WalksBecome
<1>3. CASE DeleteBegin(t)
  <2>1. PICK g \in Frame : Becomes(t, Top(t), g) /\ Top(t).op = "delete" /\ g.at \in {"lists", "free"}
    BY <1>0, <1>3, DeleteBeginFrame
  <2> QED
    BY <1>1, <1>2, <2>1
<1>4. CASE DeleteLists(t)
  <2>1. PICK g \in Frame : Becomes(t, Top(t), g) /\ Top(t).op = "delete" /\ g.at \in {"receivers", "senders"}
    BY <1>0, <1>4, DeleteListsFrame
  <2> QED
    BY <1>1, <1>2, <2>1
<1>5. CASE DeleteUnlink(t)
  <2>1. PICK g \in Frame : Becomes(t, Top(t), g) /\ Top(t).op = "delete" /\ g.at = "receivers"
    BY <1>0, <1>5, DeleteUnlinkFrame
  <2> QED
    BY <1>1, <1>2, <2>1
<1>6. CASE DeleteListsEnd(t)
  <2>1. PICK g \in Frame : Becomes(t, Top(t), g) /\ Top(t).op = "delete" /\ g.at = "senders"
    BY <1>0, <1>6, DeleteListsEndFrame
  <2> QED
    BY <1>1, <1>2, <2>1
<1>7. CASE DeleteSenders(t)
  <2>1. PICK g \in Frame : Becomes(t, Top(t), g) /\ Top(t).op = "delete" /\ g.at \in {"node", "free"}
    BY <1>0, <1>7, DeleteSendersFrame DEF SendersKnown
  <2> QED
    BY <1>1, <1>2, <2>1
<1>8. CASE DeleteNode(t)
  <2>1. PICK g \in Frame : Becomes(t, Top(t), g) /\ Top(t).op = "delete" /\ g.at = "senders"
    BY <1>0, <1>8, DeleteNodeFrame
  <2> QED
    BY <1>1, <1>2, <2>1
<1>9. CASE DeleteEnd(t)
  BY <1>0, <1>9, WalksReturn DEF DeleteEnd
<1>10. CASE DeleteReceivers(t)
  <2>1. PICK s \in Signals, c \in Conns :
           /\ Top(t).op = "delete" /\ Top(t).at = "receivers"
           /\ lists[Top(t).obj].of[s] # <<>> /\ c = Head(lists[Top(t).obj].of[s])
           /\ \/ UNCHANGED stack
              \/ /\ UNCHANGED <<lists, conn>>
                 /\ \E g \in Frame :
                      /\ Becomes(t, Top(t), g) /\ g.at = "unlink" /\ g.sig = s /\ g.conn = c
                      /\ Needs(g, MutexOf[conn[c].receiver])
    BY <1>0, <1>10, DeleteReceiversFrame
  <2>2. CASE UNCHANGED stack
    <3> SUFFICES ASSUME NEW u \in Threads, NEW i \in DOMAIN stack[u], NEW k, k = stack[u][i]
                 PROVE  WalkOK(k)'
      BY <2>2 DEF Walks
    <3>1. CASE u # t \/ Below(k)
      BY <3>1, Bystander
    <3>2. CASE u = t /\ ~Below(k)
      <4>1. k = Top(t)
        BY <1>0, <3>2, OnlyTop
      <4> QED
        BY <2>1, <4>1, DeleteWalks
    <3> QED
      BY <3>1, <3>2
  <2>3. ASSUME NEW g \in Frame, Becomes(t, Top(t), g), g.at = "unlink", g.sig = s, g.conn = c,
               Needs(g, MutexOf[conn[c].receiver]), UNCHANGED <<lists, conn>>
        PROVE  Walks'
    <3>1. g.op = "delete" /\ g.obj = Top(t).obj
      BY <2>1, <2>3 DEF Becomes
    <3>2. EmptyOK(g)'
      BY <2>1, <2>3, <3>1 DEF EmptyOK
    <3>3. UnlinkOK(g)'
      BY <2>3, <3>1 DEF UnlinkOK, Needs, Own
    <3>4. WalkOK(g)'
      BY <3>1, <3>2, <3>3 DEF WalkOK, ScanOK, LookOK, ZeroOK
    <3> QED
      BY <2>3, <3>4, WalksBecome
  <2> QED
    BY <2>1, <2>2, <2>3
<1> QED
  BY <1>3, <1>4, <1>5, <1>6, <1>7, <1>8, <1>9, <1>10

LEMMA WalksNext ==
  ASSUME Good, NEW t \in Threads, Effect(t), Step(t) \/ UserCall(t)
  PROVE  Walks'
<1>1. CASE ConnectEnd(t) \/ DeliverEnd(t)
  <2>1. stack[t] # <<>> /\ Returns(t) /\ Step(t)
    BY <1>1 DEF ConnectEnd, DeliverEnd, At, Step
  <2> QED
    BY <2>1, WalksReturn
<1>2. CASE UserCall(t)
  BY <1>2, WalksUserCall
<1>3. CASE Step(t)
  BY <1>1, <1>3, LockWalks, DisconnectWalks, EmitWalks, DestructorWalks DEF Step
<1> QED
  BY <1>2, <1>3

-----------------------------------------------------------------------------
(* A connection that is not broken is in the list of its receiver; a broken *)
(* one is in lists that will be cleaned.                                    *)

Linked ==
  \A c \in Conns, o \in Objects, g \in Signals : Listed(c, o, g) /\ ~Broken(c) =>
    c \in ToSet(senders[conn[c].receiver]) \/ \E t \in Threads : \E i : ZeroingAt(c, t, i)

Dirt ==
  \A c \in Conns, o \in Objects, g \in Signals : Listed(c, o, g) /\ Broken(c) =>
    lists[o].dirty \/ \E t \in Threads : \E i : Dirties(o, t, i)

\* A call of user code leaves the frames as they are.
LEMMA CallKeeps ==
  ASSUME Basic, NEW t \in Threads, UserCall(t), NEW u \in Threads, NEW i \in DOMAIN stack[u]
  PROVE  i \in DOMAIN stack'[u] /\ stack'[u][i] = stack[u][i]
<1>1. ASSUME NEW g \in Frame, Enters(t, g)
      PROVE  i \in DOMAIN stack'[u] /\ stack'[u][i] = stack[u][i]
  BY <1>1, EntersFrames
<1>2. ASSUME NEW s \in Objects, NEW g \in Signals, EmitCall(t, s, g)
      PROVE  i \in DOMAIN stack'[u] /\ stack'[u][i] = stack[u][i]
  BY <1>1, <1>2, EmitCallBasic
<1>3. ASSUME NEW s \in Objects, NEW r \in Objects, NEW g \in Signals, ConnectCall(t, s, r, g)
      PROVE  i \in DOMAIN stack'[u] /\ stack'[u][i] = stack[u][i]
  BY <1>1, <1>3, ConnectCallBasic
<1>4. ASSUME NEW s \in Objects, NEW r \in Objects \cup {None}, NEW g \in Scopes,
             DisconnectCall(t, s, r, g)
      PROVE  i \in DOMAIN stack'[u] /\ stack'[u][i] = stack[u][i]
  BY <1>1, <1>4, DisconnectCallBasic
<1>5. ASSUME NEW o \in Objects, Deliver(t, o)
      PROVE  i \in DOMAIN stack'[u] /\ stack'[u][i] = stack[u][i]
  BY <1>1, <1>5, DeliverBasic
<1>6. ASSUME NEW o \in Objects, DeleteCall(t, o)
      PROVE  i \in DOMAIN stack'[u] /\ stack'[u][i] = stack[u][i]
  BY <1>6, DeleteCallFrames
<1>7. ASSUME NEW c \in Conns, DropHandle(t, c) \/ DisconnectHandle(t, c)
      PROVE  i \in DOMAIN stack'[u] /\ stack'[u][i] = stack[u][i]
  BY <1>7 DEF DropHandle, DisconnectHandle
<1> QED
  BY <1>2, <1>3, <1>4, <1>5, <1>6, <1>7 DEF UserCall

\* A step changes the frame it executes alone.
LEMMA StepKeeps ==
  ASSUME Basic, SendersKnown, NEW t \in Threads, Step(t), NEW u \in Threads,
         NEW i \in DOMAIN stack[u], ~(u = t /\ i = Len(stack[t]))
  PROVE  i \in DOMAIN stack'[u] /\ stack'[u][i] = stack[u][i]
<1>1. CASE DeleteEnd(t)
  <2>1. stack[t] # <<>> /\ Returns(t)
    BY <1>1 DEF DeleteEnd, At
  <2> QED
    BY <2>1, ReturnsFrames
<1>2. CASE ~DeleteEnd(t)
  <2>1. StepsOn(t)
    BY <1>2, StepMoves
  <2>2. ASSUME NEW g, Becomes(t, Top(t), g)
        PROVE  i \in DOMAIN stack'[u] /\ stack'[u][i] = stack[u][i]
    <3>1. PICK f : f = Top(t)
      OBVIOUS
    <3> QED
      BY <2>2, <3>1, BecomesFrames
  <2>3. ASSUME Pops(t)
        PROVE  i \in DOMAIN stack'[u] /\ stack'[u][i] = stack[u][i]
    BY <2>3, ReturnsFrames DEF Pops
  <2> QED
    BY <2>1, <2>2, <2>3 DEF StepsOn
<1> QED
  BY <1>1, <1>2

\* What a step makes of the frame on top
LEMMA BecomesTop ==
  ASSUME Basic, NEW t \in Threads, NEW g, Becomes(t, Top(t), g), NEW i, i = Len(stack[t])
  PROVE  i \in DOMAIN stack'[t] /\ stack'[t][i] = g
<1>1. PICK f : f = Top(t)
  OBVIOUS
<1> QED
  BY <1>1, BecomesFrames

\* Only the disconnection itself ends to be about to reset a receiver.
LEMMA ZeroingKept ==
  ASSUME Basic, SendersKnown, NEW t \in Threads, Step(t) \/ UserCall(t), NEW u \in Threads,
         NEW i, NEW c \in Conns, ZeroingAt(c, u, i)
  PROVE  ZeroingAt(c, u, i)' \/ Broken(c)'
<1>1. ASSUME i \in DOMAIN stack'[u], stack'[u][i] = stack[u][i] PROVE ZeroingAt(c, u, i)'
  BY <1>1 DEF ZeroingAt
<1>2. CASE UserCall(t) \/ ~(u = t /\ i = Len(stack[t]))
  BY <1>1, <1>2, CallKeeps, StepKeeps DEF ZeroingAt
<1>3. CASE Step(t) /\ u = t /\ i = Len(stack[t])
  <2>1. PICK f : f = Top(t)
    OBVIOUS
  <2>5. i \in DOMAIN stack[t] /\ stack[t][i] = f /\ stack[t] # <<>>
        /\ f.op = "disconnect" /\ f.at = "zero" /\ f.conn = c
    BY <1>3, <2>1, OnlyTop DEF ZeroingAt, Below
  <2>6. WantOK(f)
    BY <2>5 DEF Basic, Shape
  <2>2. stack[t] # <<>> /\ f.op = "disconnect" /\ f.at = "zero" /\ f.conn = c /\ f.want = <<>>
    BY <2>5, <2>6 DEF WantOK
  <2>3. DisconnectZero(t)
    BY <1>3, <2>1, <2>2 DEF Step, Lock, ConnectEnd, DisconnectBegin, DisconnectList, DisconnectScan,
      DisconnectUnlink, DisconnectEnd, EmitBegin, EmitLook, SlotReturn, EmitResume, EmitEnd,
      DeliverEnd, DeleteBegin, DeleteLists, DeleteReceivers, DeleteUnlink, DeleteListsEnd,
      DeleteSenders, DeleteNode, DeleteEnd, At
  <2>4. conn' = [conn EXCEPT ![c].receiver = None]
    BY <2>1, <2>2, <2>3 DEF DisconnectZero
  <2> QED
    BY <2>4, ConnTyped DEF Basic, Typed, SomeConnection, Broken
<1> QED
  BY <1>2, <1>3

LEMMA LinkedNext ==
  ASSUME Good, Linked, NEW t \in Threads, Effect(t), Step(t) \/ UserCall(t), Basic'
  PROVE  Linked'
<1>0. Basic /\ SendersKnown /\ Data
  BY GoodImplies DEF Good
<1> SUFFICES ASSUME NEW c \in Conns, NEW o \in Objects, NEW g \in Signals, Listed(c, o, g)',
                    ~Broken(c)'
             PROVE  \/ c \in ToSet(senders'[conn'[c].receiver])
                    \/ \E u \in Threads : \E i : ZeroingAt(c, u, i)'
  BY DEF Linked
<1>1. ASSUME NEW r, r = conn[c].receiver, r = conn'[c].receiver, Listed(c, o, g),
             r \in Objects => (c \in ToSet(senders[r]) => c \in ToSet(senders'[r]))
      PROVE  \/ c \in ToSet(senders'[conn'[c].receiver])
             \/ \E u \in Threads : \E i : ZeroingAt(c, u, i)'
  <2>1. r \in Objects /\ ~Broken(c)
    BY <1>0, <1>1, ConnTyped DEF Basic, Typed, SomeConnection, Broken
  <2>2. c \in ToSet(senders[r]) \/ \E u \in Threads : \E i : ZeroingAt(c, u, i)
    BY <1>1, <2>1 DEF Linked
  <2>3. ASSUME NEW u \in Threads, NEW i, ZeroingAt(c, u, i) PROVE ZeroingAt(c, u, i)'
    BY <1>0, <2>3, ZeroingKept
  <2> QED
    BY <1>1, <2>1, <2>2, <2>3
<1>2. PICK r : r = conn'[c].receiver
  OBVIOUS
<1>3. r \in Objects
  BY <1>2, ConnTyped DEF Basic, Typed, SomeConnection, Broken
<1>4. CASE Still
  BY <1>1, <1>2, <1>4 DEF Still, SameLists, Listed
<1>5. ASSUME ConnectEnd(t), NEW X, Adds(Top(t), X)
      PROVE  \/ c \in ToSet(senders'[conn'[c].receiver])
             \/ \E u \in Threads : \E i : ZeroingAt(c, u, i)'
  <2>1. CASE c = Top(t).conn
    BY <1>2, <1>3, <1>5, <2>1 DEF Adds
  <2>2. CASE c # Top(t).conn
    <3>1. Listed(c, o, g) /\ conn'[c] = conn[c]
      BY <1>5, <2>2 DEF Adds
    <3>2. c \in ToSet(senders[r]) => c \in ToSet(senders'[r])
      BY <1>3, <1>5 DEF Adds
    <3> QED
      BY <1>1, <1>2, <3>1, <3>2
  <2> QED
    BY <2>1, <2>2
<1>6. ASSUME NEW d \in Conns, HandleDropped(d)
      PROVE  \/ c \in ToSet(senders'[conn'[c].receiver])
             \/ \E u \in Threads : \E i : ZeroingAt(c, u, i)'
  BY <1>1, <1>2, <1>6 DEF HandleDropped, SameLists, Listed
<1>7. ASSUME NEW d \in Conns, Breaking(d), SameLists
      PROVE  \/ c \in ToSet(senders'[conn'[c].receiver])
             \/ \E u \in Threads : \E i : ZeroingAt(c, u, i)'
  <2>1. c # d
    BY <1>7 DEF Breaking, Broken
  <2>2. conn'[c] = conn[c] /\ Listed(c, o, g)
    BY <1>7, <2>1 DEF Breaking, SameLists, Listed
  <2>3. c \in ToSet(senders[r]) => c \in ToSet(senders'[r])
    BY <1>3, <1>7, <2>1 DEF Breaking
  <2> QED
    BY <1>1, <1>2, <2>2, <2>3
<1>8. ASSUME NEW d \in Conns, LosesSender(d), \E i : ZeroingAt(d, t, i)'
      PROVE  \/ c \in ToSet(senders'[conn'[c].receiver])
             \/ \E u \in Threads : \E i : ZeroingAt(c, u, i)'
  <2>1. CASE c = d
    BY <1>8, <2>1
  <2>2. CASE c # d
    <3>1. conn'[c] = conn[c] /\ Listed(c, o, g)
      BY <1>8 DEF LosesSender, SameLists, Listed
    <3>2. c \in ToSet(senders[r]) => c \in ToSet(senders'[r])
      BY <1>3, <1>8, <2>2 DEF LosesSender
    <3> QED
      BY <1>1, <1>2, <3>1, <3>2
  <2> QED
    BY <2>1, <2>2
<1>9. ASSUME NEW p \in Objects, NEW h \in Signals, NEW d \in Conns, Drops(p, h, d)
      PROVE  \/ c \in ToSet(senders'[conn'[c].receiver])
             \/ \E u \in Threads : \E i : ZeroingAt(c, u, i)'
  <2>1. Listed(c, o, g) /\ c # d
    BY <1>9 DEF Drops
  <2>2. conn'[c] = conn[c]
    BY <1>9, <2>1 DEF Drops
  <2>3. c \in ToSet(senders[r]) => c \in ToSet(senders'[r])
    BY <1>3, <1>9, <2>1 DEF Drops
  <2> QED
    BY <1>1, <1>2, <2>1, <2>2, <2>3
<1> QED
  BY <1>4, <1>5, <1>6, <1>7, <1>8, <1>9 DEF Effect

\* The lists of an object are empty after a step.
Emptied(o) == \A g \in Signals : lists'[o].of[g] = <<>>

\* Lists stay dirty until they are cleaned or deleted.
LEMMA DirtyKept ==
  ASSUME Basic, Data, ListsShape, UnlinksFirst, NEW t \in Threads, Step(t) \/ UserCall(t),
         NEW o \in Objects, lists[o].dirty
  PROVE  \/ lists'[o].dirty \/ Emptied(o)
         \/ ConnectEnd(t) /\ Connects(Top(t)) /\ Top(t).obj = o /\ Cleans(lists[o])
<1>1. CASE UNCHANGED lists
  BY <1>1
<1>2. CASE DisconnectBegin(t) \/ EmitBegin(t) \/ DeleteLists(t)
  <2>1. Top(t).obj \in Objects
    BY <1>2, ReturnsFrame DEF DisconnectBegin, EmitBegin, DeleteLists
  <2>2. lists' = lists \/ lists' = [lists EXCEPT ![Top(t).obj] = Enter(lists[Top(t).obj])]
    BY <1>2 DEF DisconnectBegin, EmitBegin, DeleteLists
  <2> QED
    BY <2>1, <2>2, EntersLists DEF Basic
<1>3. CASE DisconnectEnd(t) \/ EmitEnd(t)
  <2>1. PICK p \in Objects, b \in BOOLEAN : lists' = [lists EXCEPT ![p] = Leave(Dirtied(lists[p], b))]
    BY <1>3, DisconnectEndLists, EmitEndLists
  <2> QED
    BY <2>1, LeavesLists DEF Basic, Emptied
<1>4. CASE DeleteReceivers(t)
  <2>1. PICK p \in Objects : p = Top(t).obj
    BY <1>4, ReturnsFrame DEF DeleteReceivers
  <2>2. PICK g \in Signals, c \in Conns :
          /\ lists[p].of[g] # <<>> /\ c = Head(lists[p].of[g])
          /\ \/ Broken(c) /\ DropFirst(p, g, c, conn[c])
             \/ UNCHANGED <<lists, conn>>
    BY <1>4, <2>1, DeleteReceiversFrame
  <2>3. PICK k \in SomeConnection : k = conn[c]
    BY ConnTyped DEF Basic
  <2> QED
    BY <2>2, <2>3, DropFirstTyped DEF Basic
<1>5. CASE DeleteUnlink(t)
  <2>1. PICK p \in Objects, g \in Signals, c \in Conns :
           /\ lists[p].of[g] # <<>>
           /\ \E k \in SomeConnection : DropFirst(p, g, c, k)
    BY <1>5, DeleteUnlinkLists
  <2> QED
    BY <2>1, DropFirstTyped DEF Basic
<1>6. CASE DeleteListsEnd(t)
  BY <1>6, DeleteListsEndLists DEF Emptied
<1>7. CASE DeleteNode(t)
  BY <1>7, NodeBreaks DEF NodeBroken
<1>8. CASE ConnectEnd(t)
  <2>1. PICK f \in Frame : f = Top(t) /\ f.obj \in Objects
    BY <1>8, ConnectTop
  <2>2. CASE Connects(f)
    BY <1>8, <2>1, <2>2 DEF Connects
  <2> QED
    BY <1>8, <2>1, <2>2, ConnectEndLists
<1>9. CASE Step(t)
  <2>1. CASE Lock(t) \/ DisconnectList(t) \/ DisconnectScan(t) \/ DisconnectUnlink(t)
             \/ DisconnectZero(t) \/ EmitLook(t) \/ SlotReturn(t) \/ EmitResume(t) \/ DeliverEnd(t)
             \/ DeleteBegin(t) \/ DeleteSenders(t) \/ DeleteEnd(t)
    BY <1>1, <2>1 DEF Lock, DisconnectList, DisconnectScan, DisconnectUnlink,
      DisconnectZero, EmitLook, SlotReturn, EmitResume, DeliverEnd, DeleteBegin, DeleteSenders,
      DeleteEnd
  <2> QED
    BY <1>2, <1>3, <1>4, <1>5, <1>6, <1>7, <1>8, <1>9, <2>1 DEF Step
<1>10. ASSUME NEW c \in Conns, DisconnectHandle(t, c) PROVE lists'[o].dirty
  <2>1. PICK s : s = conn[c].sender
    OBVIOUS
  <2>2. lists' = [lists EXCEPT ![s].dirty = TRUE]
    BY <1>10, <2>1 DEF DisconnectHandle
  <2> QED
    BY <2>2, ListTyped DEF Basic, Typed, SomeLists
<1>11. CASE UserCall(t)
  BY <1>1, <1>10, <1>11 DEF UserCall, EmitCall, ConnectCall, DisconnectCall, Deliver, DeleteCall,
    DropHandle
<1> QED
  BY <1>9, <1>11

\* Who is to mark them as dirty does so, or empties them.
LEMMA DirtiesTop ==
  ASSUME Basic, Data, ListsShape, UnlinksFirst, NEW t \in Threads, Step(t), NEW o \in Objects,
         NEW i, i = Len(stack[t]), Dirties(o, t, i)
  PROVE  Dirties(o, t, i)' \/ lists'[o].dirty \/ Emptied(o)
<1>1. PICK f : f = Top(t)
  OBVIOUS
<1>2. /\ stack[t] # <<>> /\ f.obj = o
      /\ \/ f.op = "disconnect" /\ f.at # "begin" /\ f.broken
         \/ f.op = "delete" /\ f.at \in {"receivers", "unlink"}
  <2>1. i \in DOMAIN stack[t] /\ stack[t][i] = f /\ stack[t] # <<>>
    BY <1>1, TopFrame DEF Dirties, Basic, Typed
  <2> QED
    BY <2>1 DEF Dirties
<1>3. ASSUME NEW g \in Frame, Becomes(t, Top(t), g),
             f.op = "delete" => g.at \in {"receivers", "unlink"}
      PROVE  Dirties(o, t, i)'
  <2>1. i \in DOMAIN stack'[t] /\ stack'[t][i] = g
    BY <1>3, BecomesTop
  <2>2. /\ g.op = f.op /\ g.obj = o
        /\ f.op = "disconnect" => g.at # "begin" /\ g.broken
    BY <1>1, <1>2, <1>3 DEF Becomes
  <2> QED
    BY <1>2, <1>3, <2>1, <2>2 DEF Dirties
<1>4. CASE Lock(t)
  <2>1. PICK g \in Frame : Becomes(t, Top(t), g) /\ Alike(Top(t), g)
    BY <1>4, LockFrame
  <2>2. f.op = "delete" => g.at \in {"receivers", "unlink"}
    BY <1>1, <1>2, <2>1 DEF Alike
  <2> QED
    BY <1>3, <2>1, <2>2
<1>5. CASE DisconnectList(t) \/ DisconnectScan(t) \/ DisconnectUnlink(t) \/ DisconnectZero(t)
  <2>1. \E g \in Frame : Becomes(t, Top(t), g) /\ Top(t).op = "disconnect"
    BY <1>5, DisconnectListFrame, DisconnectScanFrame, DisconnectUnlinkFrame, DisconnectZeroFrame
  <2> QED
    BY <1>1, <1>3, <2>1
<1>6. CASE DisconnectEnd(t)
  <2>1. PICK p \in Objects, b \in BOOLEAN :
          lists' = [lists EXCEPT ![p] = Leave(Dirtied(lists[p], b))] /\ p = o /\ b = f.broken
    BY <1>1, <1>2, <1>6, DisconnectEndLists
  <2>2. f.op = "disconnect"
    BY <1>1, <1>6, ReturnsFrame DEF DisconnectEnd
  <2> QED
    BY <1>2, <2>1, <2>2, LeavesLists DEF Basic, Emptied
<1>7. CASE DeleteReceivers(t)
  <2>1. UNCHANGED stack \/ \E g \in Frame : Becomes(t, Top(t), g) /\ g.at = "unlink"
    BY <1>7, DeleteReceiversFrame
  <2>2. CASE UNCHANGED stack
    BY <2>2 DEF Dirties
  <2> QED
    BY <1>3, <2>1, <2>2
<1>8. CASE DeleteUnlink(t)
  <2>1. \E g \in Frame : Becomes(t, Top(t), g) /\ g.at = "receivers"
    BY <1>8, DeleteUnlinkFrame
  <2> QED
    BY <1>3, <2>1
<1>9. CASE DeleteListsEnd(t)
  BY <1>1, <1>2, <1>9, DeleteListsEndLists DEF Emptied
<1> QED
  BY <1>1, <1>2, <1>4, <1>5, <1>6, <1>7, <1>8, <1>9 DEF Step, ConnectEnd, DisconnectBegin, EmitBegin,
    EmitLook, SlotReturn, EmitResume, EmitEnd, DeliverEnd, DeleteBegin, DeleteLists, DeleteSenders,
    DeleteNode, DeleteEnd, At

LEMMA DirtiesKept ==
  ASSUME Good, NEW t \in Threads, Step(t) \/ UserCall(t), NEW o \in Objects,
         NEW u \in Threads, NEW i, Dirties(o, u, i)
  PROVE  Dirties(o, u, i)' \/ lists'[o].dirty \/ Emptied(o)
<1>0. Basic /\ SendersKnown /\ Data /\ ListsShape /\ UnlinksFirst
  BY GoodImplies DEF Good
<1>1. CASE UserCall(t) \/ ~(u = t /\ i = Len(stack[t]))
  <2>1. i \in DOMAIN stack'[u] /\ stack'[u][i] = stack[u][i]
    BY <1>0, <1>1, CallKeeps, StepKeeps DEF Dirties
  <2> QED
    BY <2>1 DEF Dirties
<1>2. CASE Step(t) /\ u = t /\ i = Len(stack[t])
  BY <1>0, <1>2, DirtiesTop
<1> QED
  BY <1>1, <1>2

LEMMA DirtNext ==
  ASSUME Good, Dirt, NEW t \in Threads, Effect(t), Step(t) \/ UserCall(t)
  PROVE  Dirt'
<1>0. Basic /\ SendersKnown /\ Data /\ ListsShape /\ UnlinksFirst
  BY GoodImplies DEF Good
<1> SUFFICES ASSUME NEW c \in Conns, NEW o \in Objects, NEW g \in Signals, Listed(c, o, g)',
                    Broken(c)'
             PROVE  lists'[o].dirty \/ \E u \in Threads : \E i : Dirties(o, u, i)'
  BY DEF Dirt
<1>1. ~Emptied(o)
  BY DEF Emptied, Listed, ToSet
<1>2. ASSUME Listed(c, o, g), Broken(c)
      PROVE  lists'[o].dirty \/ \E u \in Threads : \E i : Dirties(o, u, i)'
  <2>1. CASE lists[o].dirty
    <3>1. ASSUME ConnectEnd(t), Connects(Top(t)), Top(t).obj = o, Cleans(lists[o]) PROVE FALSE
      <4>1. PICK f \in Frame : /\ f = Top(t) /\ f.sig \in Signals /\ f.conn \in Conns
                              /\ f.other \in Objects /\ f.obj = o
        BY <1>0, <3>1, ConnectTop
      <4>2. PICK v, q, w : v = lists[o] /\ q = v.of[g] /\ w = Without(q, Cleaned(v))
        OBVIOUS
      <4>3. c \in Cleaned(v)
        BY <1>2, <3>1, <4>2, CleanedAre
      <4>4. q \in Seq(Conns)
        BY <1>0, <4>2, ListTyped DEF Basic
      <4>5. w \in Seq(Conns) /\ c \notin ToSet(w)
        BY <4>2, <4>3, <4>4, WithoutOnce
      <4>6. Connects(f)
        BY <3>1, <4>1
      <4>7. lists'[o].of[g] = w \/ lists'[o].of[g] = Append(w, f.conn)
        BY <4>1, <4>2, <4>6 DEF Connects
      <4>8. PICK r : r = Append(w, f.conn)
        OBVIOUS
      <4>9. c \in ToSet(w) \/ c = f.conn
        BY <4>1, <4>5, <4>7, <4>8, AppendIs DEF Listed
      <4>10. conn'[f.conn].receiver = f.other
        BY <4>6, NewTyped DEF Connects
      <4> QED
        BY <4>1, <4>5, <4>9, <4>10, NoneElsewhere DEF Broken
    <3> QED
      BY <1>0, <1>1, <2>1, <3>1, DirtyKept
  <2>2. ASSUME NEW u \in Threads, NEW i, Dirties(o, u, i)
        PROVE  lists'[o].dirty \/ \E w \in Threads : \E j : Dirties(o, w, j)'
    BY <1>1, <2>2, DirtiesKept
  <2> QED
    BY <1>2, <2>1, <2>2 DEF Dirt
<1>4. CASE Still
  BY <1>2, <1>4 DEF Still, SameLists, Listed, Broken
<1>5. ASSUME ConnectEnd(t), NEW X, Adds(Top(t), X) PROVE Listed(c, o, g) /\ Broken(c)
  <2>1. PICK f \in Frame : f = Top(t) /\ f.other \in Objects /\ f.conn \in Conns
    BY <1>0, <1>5, ConnectTop
  <2>2. c # f.conn
    BY <1>5, <2>1, NoneElsewhere DEF Adds, Broken
  <2>3. Listed(c, o, g) /\ c \notin X
    BY <1>5, <2>1, <2>2 DEF Adds
  <2> QED
    BY <1>5, <2>1, <2>2, <2>3 DEF Adds, Broken
<1>6. ASSUME NEW d \in Conns, HandleDropped(d) PROVE Listed(c, o, g) /\ Broken(c)
  BY <1>6 DEF HandleDropped, SameLists, Listed, Broken
<1>7. ASSUME NEW d \in Conns, Breaking(d), SameLists, Soils(t, d)
      PROVE  lists'[o].dirty \/ \E u \in Threads : \E i : Dirties(o, u, i)'
  <2>1. Listed(c, o, g)
    BY <1>7 DEF SameLists, Listed
  <2>2. CASE c = d
    BY <1>7, <2>1, <2>2 DEF Soils
  <2>3. CASE c # d
    BY <1>2, <1>7, <2>1, <2>3 DEF Breaking, Broken
  <2> QED
    BY <2>2, <2>3
<1>8. ASSUME NEW d \in Conns, LosesSender(d) PROVE Listed(c, o, g) /\ Broken(c)
  BY <1>8 DEF LosesSender, SameLists, Listed, Broken
<1>9. ASSUME NEW p \in Objects, NEW h \in Signals, NEW d \in Conns, Drops(p, h, d)
      PROVE  Listed(c, o, g) /\ Broken(c)
  BY <1>9 DEF Drops, Broken
<1> QED
  BY <1>2, <1>4, <1>5, <1>6, <1>7, <1>8, <1>9 DEF Effect

-----------------------------------------------------------------------------
(* The inductive invariant                                                 *)

IInv == Good /\ NewConns /\ Linked /\ Dirt

LEMMA LockBasic ==
  ASSUME Basic, NEW t \in Threads, Lock(t)
  PROVE  Basic'
BY LockStep DEF Lock, Basic, Typed, switchers

LEMMA BasicNext ==
  ASSUME Basic, SendersKnown, UnlinksFirst, NEW t \in Threads, Step(t) \/ UserCall(t)
  PROVE  Basic'
<1>1. CASE DeleteUnlink(t)
  <2>1. At(t, "delete", "unlink")
    BY <1>1 DEF DeleteUnlink
  <2>2. stack[t] # <<>> /\ Top(t).op = "delete" /\ Top(t).at = "unlink"
    BY <2>1, ReturnsFrame
  <2>3. lists[Top(t).obj].of[Top(t).sig] # <<>>
    BY <2>2 DEF UnlinksFirst
  <2> QED
    BY <1>1, <2>3, DeleteUnlinkBasic
<1>2. CASE DeleteSenders(t)
  <2>1. Top(t).obj \in Objects
    BY <1>2, ReturnsFrame DEF DeleteSenders
  <2>2. senders[Top(t).obj] # <<>> => conn[Head(senders[Top(t).obj])].sender \in Objects
    BY <2>1 DEF SendersKnown
  <2> QED
    BY <1>2, <2>2, DeleteSendersBasic
<1>3. CASE UserCall(t)
  BY <1>3, EmitCallBasic, ConnectCallBasic, DisconnectCallBasic, DeliverBasic, DeleteCallBasic,
     DropHandleBasic, DisconnectHandleBasic DEF UserCall
<1>4. CASE Step(t)
  BY <1>1, <1>2, <1>4, LockBasic, ConnectEndBasic, DisconnectBeginBasic, DisconnectListBasic,
     DisconnectScanBasic, DisconnectUnlinkBasic, DisconnectZeroBasic, DisconnectEndBasic,
     EmitBeginBasic, EmitLookBasic, SlotReturnBasic, EmitResumeBasic, EmitEndBasic,
     DeliverEndBasic, DeleteBeginBasic, DeleteListsBasic, DeleteReceiversBasic,
     DeleteListsEndBasic, DeleteNodeBasic, DeleteEndBasic DEF Step
<1> QED
  BY <1>3, <1>4

LEMMA IInvNext ==
  ASSUME IInv, NEW t \in Threads, Step(t) \/ UserCall(t)
  PROVE  IInv'
<1>1. /\ Basic /\ LifeOK /\ NamedLive /\ ListsShape /\ UsersOK /\ Data /\ Walks
      /\ Good /\ NewConns /\ Linked /\ Dirt
      /\ UnlinksFirst /\ SendersKnown /\ OutOfSenders(t)
  BY GoodImplies DEF IInv, Good
<1>2. NewToAll(t)
  BY <1>1, NewOfTop
<1>3. Data' /\ Effect(t)
  BY <1>1, <1>2, DataNext
<1>4. Basic'
  BY <1>1, BasicNext
<1>5. LifeOK' /\ NamedLive'
  BY <1>1, LifeNext
<1>6. ListsShape'
  BY <1>1, ShapeNext
<1>7. UsersOK'
  BY <1>1, UsersNext
<1>8. Walks'
  BY <1>1, <1>3, WalksNext
<1>9. NewConns'
  BY <1>1, <1>3, NewNext
<1>10. Linked'
  BY <1>1, <1>3, <1>4, LinkedNext
<1>11. Dirt'
  BY <1>1, <1>3, DirtNext
<1> QED
  BY <1>3, <1>4, <1>5, <1>6, <1>7, <1>8, <1>9, <1>10, <1>11 DEF IInv, Good

-----------------------------------------------------------------------------
(* The connections that were made before the program begins                *)

Descriptions == [conn : Conns, sender : Objects, receiver : Objects, sig : Signals]
DescribesOnce(made) ==
  /\ made \in Seq(Descriptions)
  /\ \A i, j \in DOMAIN made : made[i].conn = made[j].conn => i = j

LEMMA ConnectedAre ==
  ASSUME NEW made \in Connected
  PROVE  DescribesOnce(made)
BY ConnectionsAssumption, Zenon DEF DescribesOnce, Descriptions

LEMMA DescribedOnce ==
  ASSUME NEW made, DescribesOnce(made), NEW m \in ToSet(made), NEW k \in ToSet(made),
         m.conn = k.conn
  PROVE  m = k
BY DEF DescribesOnce, ToSet

LEMMA MadeAre ==
  ASSUME NEW made, DescribesOnce(made), NEW some, some \subseteq ToSet(made),
         NEW q, q = Made(made, some)
  PROVE  /\ q \in Seq(Conns) /\ Once(q)
         /\ \A c : c \in ToSet(q) <=> \E m \in some : m.conn = c
<1>1. PICK S : S = ToSet(made) \ some
  OBVIOUS
<1>2. PICK w : w = Without(made, S)
  OBVIOUS
<1>3. made \in Seq(Descriptions) /\ Once(made)
  BY DEF DescribesOnce, Once
<1>4. w \in Seq(Descriptions) /\ ToSet(w) = some /\ Once(w)
  <2>1. PICK D : D = Descriptions
    OBVIOUS
  <2>2. made \in Seq(D)
    BY <1>3, <2>1
  <2>3. w \in Seq(D) /\ ToSet(w) = ToSet(made) \ S /\ (Once(made) => Once(w))
    BY <1>2, <2>2, WithoutOnce, Zenon
  <2>4. ToSet(made) \ S = some
    BY <1>1
  <2> QED
    BY <1>3, <2>1, <2>3, <2>4
<1>5. q = [i \in DOMAIN w |-> w[i].conn]
  BY <1>1, <1>2 DEF Made
<1>6. /\ Len(w) \in Nat /\ DOMAIN w = 1 .. Len(w)
      /\ \A i \in DOMAIN w : w[i] \in some /\ w[i].conn \in Conns
  <2>1. /\ Len(w) \in Nat /\ DOMAIN w = 1 .. Len(w)
        /\ \A i \in DOMAIN w : w[i] \in Descriptions
    BY <1>4
  <2>2. \A i \in DOMAIN w : w[i] \in ToSet(w)
    BY DEF ToSet
  <2>3. \A m \in Descriptions : m.conn \in Conns
    BY DEF Descriptions
  <2> QED
    BY <1>4, <2>1, <2>2, <2>3
<1>7. q \in Seq(Conns) /\ DOMAIN q = DOMAIN w /\ \A i \in DOMAIN w : q[i] = w[i].conn
  BY <1>5, <1>6
<1>8. Once(q)
  <2> SUFFICES ASSUME NEW i \in DOMAIN w, NEW j \in DOMAIN w, w[i].conn = w[j].conn PROVE i = j
    BY <1>7 DEF Once
  <2>1. w[i] = w[j]
    BY <1>6, DescribedOnce
  <2> QED
    BY <1>4, <2>1 DEF Once
<1>9. \A c : c \in ToSet(q) <=> \E m \in some : m.conn = c
  BY <1>4, <1>7 DEF ToSet
<1> QED
  BY <1>7, <1>8, <1>9

LEMMA ReverseIs ==
  ASSUME NEW q \in Seq(Conns), Once(q), NEW w, w = Reverse(q)
  PROVE  w \in Seq(Conns) /\ Once(w) /\ ToSet(w) = ToSet(q)
<1>1. PICK l \in Nat : l = Len(q) /\ DOMAIN q = 1 .. l
  OBVIOUS
<1>2. w = [i \in 1 .. l |-> q[(l - i) + 1]]
  BY <1>1 DEF Reverse
<1>3. \A i \in 1 .. l : (l - i) + 1 \in 1 .. l /\ q[(l - i) + 1] \in Conns
  BY <1>1
<1>4. w \in Seq(Conns) /\ DOMAIN w = 1 .. l /\ \A i \in 1 .. l : w[i] = q[(l - i) + 1]
  BY <1>2, <1>3
<1>5. Once(w)
  BY <1>1, <1>3, <1>4, SMTT(60) DEF Once
<1>6. ToSet(w) = ToSet(q)
  <2>1. \A i \in 1 .. l : \E j \in 1 .. l : q[i] = w[j]
    <3> SUFFICES ASSUME NEW i \in 1 .. l PROVE \E j \in 1 .. l : q[i] = w[j]
      OBVIOUS
    <3>1. PICK j \in 1 .. l : j = (l - i) + 1
      BY <1>3
    <3>2. (l - j) + 1 = i
      BY <3>1
    <3> QED
      BY <1>4, <3>1, <3>2
  <2>2. \A j \in 1 .. l : \E i \in 1 .. l : w[j] = q[i]
    BY <1>3, <1>4
  <2>3. ASSUME NEW x PROVE x \in ToSet(w) <=> x \in ToSet(q)
    <3>1. x \in ToSet(w) <=> \E j \in 1 .. l : x = w[j]
      BY <1>4 DEF ToSet
    <3>2. x \in ToSet(q) <=> \E j \in 1 .. l : x = q[j]
      BY <1>1 DEF ToSet
    <3> QED
      BY <2>1, <2>2, <3>1, <3>2, Zenon
  <2> QED
    BY <2>3
<1> QED
  BY <1>4, <1>5, <1>6

\* What Init makes of them
Described(made) ==
  /\ handles = Kept \cap {made[i].conn : i \in DOMAIN made}
  /\ \A c \in Conns : (\A m \in ToSet(made) : m.conn # c) => conn[c] = NoConnection
  /\ \A m \in ToSet(made) : conn[m.conn] = NewConnection(m.conn, m.sender, m.receiver)
  /\ \A o \in Objects :
       /\ lists[o] \in SomeLists /\ lists[o].inUse = 0
       /\ lists[o].at \in {"none", "used"}
       /\ lists[o].at = "none" => \A g \in Signals : lists[o].of[g] = <<>>
       /\ \A g \in Signals : /\ Once(lists[o].of[g])
                             /\ \A c : Listed(c, o, g) <=>
                                  \E m \in ToSet(made) : m.conn = c /\ m.sender = o /\ m.sig = g
       /\ senders[o] \in Seq(Conns) /\ Once(senders[o])
       /\ \A c : c \in ToSet(senders[o]) <=> \E m \in ToSet(made) : m.conn = c /\ m.receiver = o

LEMMA InitDescribed ==
  ASSUME Init
  PROVE  \E made \in Connected :
           /\ Described(made) /\ conn \in [Conns -> SomeConnection]
           /\ lists \in [Objects -> SomeLists] /\ senders \in [Objects -> Seq(Conns)]
<1>1. PICK made \in Connected :
       /\ handles = Kept \cap {made[i].conn : i \in DOMAIN made}
       /\ conn = [c \in Conns |->
            IF \A i \in DOMAIN made : made[i].conn # c THEN NoConnection
            ELSE LET m == made[CHOOSE i \in DOMAIN made : made[i].conn = c] IN
                 NewConnection(c, m.sender, m.receiver)]
       /\ lists = [o \in Objects |->
            IF \E i \in DOMAIN made : made[i].sender = o
              THEN [NoLists EXCEPT !.at = "used", !.of = [g \in Signals |->
                      Made(made, {m \in ToSet(made) : m.sender = o /\ m.sig = g})]]
              ELSE NoLists]
       /\ senders = [o \in Objects |->
            Reverse(Made(made, {m \in ToSet(made) : m.receiver = o}))]
  BY DEF Init
<1>2. /\ DescribesOnce(made) /\ made \in Seq(Descriptions)
      /\ \A m \in ToSet(made) : m \in Descriptions
  BY ConnectedAre DEF DescribesOnce, ToSet
<1>3. ASSUME NEW i \in DOMAIN made
      PROVE  conn[made[i].conn] = NewConnection(made[i].conn, made[i].sender, made[i].receiver)
  <2>1. PICK c \in Conns : c = made[i].conn
    <3>1. made[i] \in Descriptions
      BY <1>2
    <3> QED
      BY <3>1 DEF Descriptions
  <2>2. PICK j : j = CHOOSE k \in DOMAIN made : made[k].conn = c
    OBVIOUS
  <2>3. j \in DOMAIN made /\ made[j].conn = c
    BY <2>1, <2>2
  <2>4. i = j
    BY <1>2, <2>1, <2>3 DEF DescribesOnce
  <2>5. conn[c] = NewConnection(c, made[j].sender, made[j].receiver)
    BY <1>1, <2>1, <2>2
  <2> QED
    BY <2>1, <2>4, <2>5
<1>4. \A m \in ToSet(made) : conn[m.conn] = NewConnection(m.conn, m.sender, m.receiver)
  BY <1>3 DEF ToSet
<1>5. \A c \in Conns : (\A m \in ToSet(made) : m.conn # c) => conn[c] = NoConnection
  BY <1>1 DEF ToSet
<1>6. ASSUME NEW c \in Conns PROVE conn[c] \in SomeConnection
  <2>1. CASE \A m \in ToSet(made) : m.conn # c
    BY <1>5, <2>1 DEF NoConnection, SomeConnection
  <2>2. ASSUME NEW m \in ToSet(made), m.conn = c PROVE conn[c] \in SomeConnection
    <3>1. PICK x, r : x = m.sender /\ r = m.receiver
      OBVIOUS
    <3>2. x \in Objects /\ r \in Objects
      BY <1>2, <3>1 DEF Descriptions
    <3>3. PICK n \in {1, 2} : n = IF c \in Kept THEN 2 ELSE 1
      OBVIOUS
    <3>4. conn[c] = [sender |-> x, receiver |-> r, ref |-> n]
      BY <1>4, <2>2, <3>1, <3>3 DEF NewConnection
    <3> QED
      BY <3>2, <3>4 DEF SomeConnection
  <2> QED
    BY <2>1, <2>2
<1>7. ASSUME NEW o \in Objects
      PROVE  /\ lists[o] \in SomeLists /\ lists[o].inUse = 0
             /\ lists[o].at \in {"none", "used"}
             /\ lists[o].at = "none" => \A g \in Signals : lists[o].of[g] = <<>>
             /\ \A g \in Signals : /\ Once(lists[o].of[g])
                                   /\ \A c : Listed(c, o, g) <=>
                                        \E m \in ToSet(made) : m.conn = c /\ m.sender = o /\ m.sig = g
  <2>1. CASE ~\E i \in DOMAIN made : made[i].sender = o
    <3>1. lists[o] = NoLists
      BY <1>1, <2>1
    <3>2. /\ lists[o] \in SomeLists /\ lists[o].inUse = 0 /\ lists[o].at = "none"
          /\ \A g \in Signals : lists[o].of[g] = <<>>
      BY <3>1 DEF NoLists, SomeLists
    <3>3. \A m \in ToSet(made) : m.sender # o
      BY <2>1 DEF ToSet
    <3> QED
      BY <3>2, <3>3, NoneWanted DEF Once, Listed
  <2>2. CASE \E i \in DOMAIN made : made[i].sender = o
    <3>1. PICK q : q = [g \in Signals |-> Made(made, {m \in ToSet(made) : m.sender = o /\ m.sig = g})]
      OBVIOUS
    <3>2. ASSUME NEW g \in Signals
          PROVE  /\ q[g] \in Seq(Conns) /\ Once(q[g])
                 /\ \A c : c \in ToSet(q[g]) <=>
                      \E m \in ToSet(made) : m.conn = c /\ m.sender = o /\ m.sig = g
      <4>1. PICK some : some = {m \in ToSet(made) : m.sender = o /\ m.sig = g}
        OBVIOUS
      <4>2. PICK r : r = Made(made, some)
        OBVIOUS
      <4>3. q[g] = r
        BY <3>1, <4>1, <4>2
      <4>4. some \subseteq ToSet(made)
        BY <4>1
      <4>5. r \in Seq(Conns) /\ Once(r) /\ \A c : c \in ToSet(r) <=> \E m \in some : m.conn = c
        BY <1>2, <4>2, <4>4, MadeAre
      <4> QED
        BY <4>1, <4>3, <4>5
    <3>3. lists[o] = [NoLists EXCEPT !.at = "used", !.of = q]
      BY <1>1, <2>2, <3>1
    <3>4. q \in [Signals -> Seq(Conns)]
      BY <3>1, <3>2
    <3>5. lists[o] \in SomeLists /\ lists[o].inUse = 0 /\ lists[o].at = "used" /\ lists[o].of = q
      <4>1. NoLists \in SomeLists /\ NoLists.inUse = 0 /\ NoLists.dirty \in BOOLEAN
        BY DEF NoLists, SomeLists
      <4>2. PICK n : n = NoLists
        OBVIOUS
      <4>3. PICK v : v = [n EXCEPT !.at = "used", !.of = q]
        OBVIOUS
      <4>4. v \in SomeLists /\ v.inUse = 0 /\ v.at = "used" /\ v.of = q
        BY <3>4, <4>1, <4>2, <4>3 DEF SomeLists
      <4> QED
        BY <3>3, <4>2, <4>3, <4>4
    <3> QED
      BY <3>2, <3>5 DEF Listed
  <2> QED
    BY <2>1, <2>2
<1>8. ASSUME NEW o \in Objects
      PROVE  /\ senders[o] \in Seq(Conns) /\ Once(senders[o])
             /\ \A c : c \in ToSet(senders[o]) <=> \E m \in ToSet(made) : m.conn = c /\ m.receiver = o
  <2>1. PICK some : some = {m \in ToSet(made) : m.receiver = o}
    OBVIOUS
  <2>2. PICK r : r = Made(made, some)
    OBVIOUS
  <2>3. senders[o] = Reverse(r)
    BY <1>1, <2>1, <2>2
  <2>4. some \subseteq ToSet(made)
    BY <2>1
  <2>5. r \in Seq(Conns) /\ Once(r) /\ \A c : c \in ToSet(r) <=> \E m \in some : m.conn = c
    BY <1>2, <2>2, <2>4, MadeAre
  <2>6. PICK w : w = senders[o]
    OBVIOUS
  <2>7. w \in Seq(Conns) /\ Once(w) /\ ToSet(w) = ToSet(r)
    BY <2>3, <2>5, <2>6, ReverseIs
  <2> QED
    BY <2>1, <2>5, <2>6, <2>7
<1>9. /\ conn \in [Conns -> SomeConnection] /\ lists \in [Objects -> SomeLists]
      /\ senders \in [Objects -> Seq(Conns)]
  BY <1>1, <1>6, <1>7, <1>8
<1>10. Described(made)
  BY <1>1, <1>4, <1>5, <1>7, <1>8 DEF Described
<1> QED
  BY <1>9, <1>10

\* What was connected before the first step satisfies the invariant.
LEMMA InitData ==
  ASSUME NEW made \in Connected, Described(made), conn \in [Conns -> SomeConnection]
  PROVE  Data /\ Linked /\ Dirt
<1>1. DescribesOnce(made) /\ \A m \in ToSet(made) : m \in Descriptions
  BY ConnectedAre DEF DescribesOnce, ToSet
<1>2. ASSUME NEW m \in ToSet(made)
      PROVE  /\ m.conn \in Conns /\ m.sender \in Objects /\ m.receiver \in Objects
             /\ m.sig \in Signals
             /\ conn[m.conn].sender = m.sender /\ conn[m.conn].receiver = m.receiver
             /\ conn[m.conn].ref = IF m.conn \in Kept THEN 2 ELSE 1
             /\ Listed(m.conn, m.sender, m.sig) /\ Placed(m.conn)
             /\ m.conn \in ToSet(senders[m.receiver])
             /\ ~Broken(m.conn)
             /\ m.conn \in handles <=> m.conn \in Kept
  <2>1. m.conn \in Conns /\ m.sender \in Objects /\ m.receiver \in Objects /\ m.sig \in Signals
    BY <1>1 DEF Descriptions
  <2>2. PICK c, s, r : c = m.conn /\ s = m.sender /\ r = m.receiver
    OBVIOUS
  <2>3. conn[c] = NewConnection(c, s, r)
    BY <2>2 DEF Described
  <2>4. conn[c].sender = s /\ conn[c].receiver = r /\ conn[c].ref = IF c \in Kept THEN 2 ELSE 1
    BY <2>3, NewTyped
  <2>5. Listed(c, s, m.sig) /\ c \in ToSet(senders[r])
    BY <2>1, <2>2 DEF Described
  <2>6. Placed(c)
    BY <2>1, <2>2, <2>5 DEF Placed
  <2>7. ~Broken(c)
    BY <2>1, <2>2, <2>4, NoneElsewhere DEF Broken
  <2>8. c \in handles <=> c \in Kept
    <3>1. \E i \in DOMAIN made : made[i].conn = c
      BY <2>2 DEF ToSet
    <3> QED
      BY <3>1 DEF Described
  <2> QED
    BY <2>1, <2>2, <2>4, <2>5, <2>6, <2>7, <2>8
<1>3. \A o \in Objects, g \in Signals : \A c : Listed(c, o, g) <=>
        \E m \in ToSet(made) : m.conn = c /\ m.sender = o /\ m.sig = g
  BY DEF Described
<1>4. ASSUME NEW c \in Conns, \A m \in ToSet(made) : m.conn # c
      PROVE  Broken(c) /\ ~Placed(c) /\ conn[c].ref = 0 /\ c \notin handles
  <2>1. conn[c] = NoConnection
    BY <1>4 DEF Described
  <2>2. c \notin {made[i].conn : i \in DOMAIN made}
    BY <1>4 DEF ToSet
  <2> QED
    BY <1>3, <1>4, <2>1, <2>2 DEF NoConnection, Broken, Placed, Described
<1>5. OnceListed
  <2>1. \A o \in Objects, g \in Signals : Once(lists[o].of[g])
    BY DEF Described
  <2>2. ASSUME NEW c \in Conns, NEW o \in Objects, NEW p \in Objects, NEW g \in Signals,
               NEW h \in Signals, Listed(c, o, g), Listed(c, p, h)
        PROVE  o = p /\ g = h
    <3>1. PICK m \in ToSet(made) : m.conn = c /\ m.sender = o /\ m.sig = g
      BY <1>3, <2>2
    <3>2. PICK k \in ToSet(made) : k.conn = c /\ k.sender = p /\ k.sig = h
      BY <1>3, <2>2
    <3>3. m = k
      BY <1>1, <3>1, <3>2, DescribedOnce
    <3> QED
      BY <3>1, <3>2, <3>3
  <2> QED
    BY <2>1, <2>2 DEF OnceListed
<1>6. Counts
  <2>1. ASSUME NEW c \in Conns
        PROVE  conn[c].ref = (IF Placed(c) THEN 1 ELSE 0) + (IF c \in handles THEN 1 ELSE 0)
    <3>1. CASE \A m \in ToSet(made) : m.conn # c
      BY <1>4, <3>1
    <3>2. ASSUME NEW m \in ToSet(made), m.conn = c
          PROVE  conn[c].ref = (IF Placed(c) THEN 1 ELSE 0) + (IF c \in handles THEN 1 ELSE 0)
      <4>1. /\ conn[c].ref = IF c \in Kept THEN 2 ELSE 1
            /\ Placed(c) /\ (c \in handles <=> c \in Kept)
        BY <1>2, <3>2
      <4> QED
        BY <4>1
    <3> QED
      BY <3>1, <3>2
  <2>2. handles \subseteq Kept
    BY DEF Described
  <2> QED
    BY <2>1, <2>2 DEF Counts
<1>7. Ends
  <2>1. ASSUME NEW c \in Conns, NEW o \in Objects, NEW g \in Signals, Listed(c, o, g)
        PROVE  conn[c].sender = o
    BY <1>2, <1>3, <2>1
  <2>2. ASSUME NEW c \in Conns, ~Broken(c) PROVE Placed(c)
    BY <1>2, <1>4, <2>2
  <2> QED
    BY <2>1, <2>2 DEF Ends
<1>8. SendersOK
  <2>1. ASSUME NEW r \in Objects, NEW c \in Conns, c \in ToSet(senders[r])
        PROVE  conn[c].receiver = r
    <3>1. PICK m \in ToSet(made) : m.conn = c /\ m.receiver = r
      BY <2>1, SMTT(60) DEF Described
    <3> QED
      BY <1>2, <3>1
  <2>2. \A r \in Objects : Once(senders[r])
    BY DEF Described
  <2> QED
    BY <2>1, <2>2 DEF SendersOK
<1>9. ASSUME NEW c \in Conns, NEW o \in Objects, NEW g \in Signals, Listed(c, o, g)
      PROVE  ~Broken(c) /\ c \in ToSet(senders[conn[c].receiver])
  <2>1. PICK m \in ToSet(made) : m.conn = c /\ m.sender = o /\ m.sig = g
    BY <1>3, <1>9
  <2> QED
    BY <1>2, <2>1
<1> QED
  BY <1>5, <1>6, <1>7, <1>8, <1>9 DEF Data, Linked, Dirt

LEMMA InitIInv ==
  Init => IInv
<1> SUFFICES ASSUME Init PROVE IInv
  OBVIOUS
<1>1. PICK made \in Connected :
        /\ Described(made) /\ conn \in [Conns -> SomeConnection]
        /\ lists \in [Objects -> SomeLists] /\ senders \in [Objects -> Seq(Conns)]
  BY InitDescribed
<1>2. /\ life = [o \in Objects |-> "alive"]
      /\ currentSender = [o \in Objects |-> 0] /\ dropped = [t \in Threads |-> {}]
      /\ metaCalls = [o \in Objects |-> <<>>]
      /\ stack = [t \in Threads |-> <<>>]
      /\ holder = [m \in Mutexes |-> Free]
      /\ calls = 0
  BY DEF Init
<1>3. Data /\ Linked /\ Dirt
  BY <1>1, InitData
<1>4. \A t \in Threads : stack[t] = <<>> /\ DOMAIN stack[t] = {}
  BY <1>2
<1>5. handles \subseteq Conns
  BY <1>3, ConnectionsAssumption, Zenon DEF Data, Counts
<1>6. Typed
  <2>1. calls \in 0 .. MaxCalls
    <3>1. MaxCalls \in Nat
      BY ConnectionsAssumption, Zenon
    <3> QED
      BY <1>2, <3>1
  <2>2. /\ life \in [Objects -> {"alive", "dying", "dead"}]
        /\ currentSender \in [Objects -> Nat] /\ dropped \in [Threads -> SUBSET Nat]
        /\ metaCalls \in [Objects -> Seq(Objects)] /\ stack \in [Threads -> Seq(Frame)]
    BY <1>2
  <2>3. holder \in [Mutexes -> Threads \cup {Free}]
    BY <1>2
  <2> QED
    BY <1>1, <1>5, <2>1, <2>2, <2>3 DEF Typed
<1>7. Shape
  BY <1>4 DEF Shape
<1>8. HeldByTop
  <2>1. Free \notin Threads
    BY ConnectionsAssumption, Zenon
  <2> QED
    BY <1>2, <1>4, <2>1 DEF HeldByTop
<1>9. \A o \in Objects : life[o] = "alive" /\ \A i : ~Deleting(o, i)
  BY <1>2, <1>4, HomeTyped DEF Deleting
<1>10. LifeOK /\ NamedLive /\ Walks
  BY <1>4, <1>9 DEF LifeOK, NamedLive, Walks
<1>11. ListsShape
  BY <1>1, <1>9 DEF ListsShape, ShapeOf, Described
<1>12. UsersOK
  <2> SUFFICES ASSUME NEW o \in Objects PROVE Counted(lists[o], Users(o))
    BY DEF UsersOK
  <2>1. Users(o) = {}
    BY <1>4 DEF Users
  <2>2. lists[o].inUse = 0 /\ lists[o].at # "orphaned"
    BY <1>1 DEF Described
  <2> QED
    BY <2>1, <2>2, FS_EmptySet DEF Counted
<1>13. NewConns
  BY <1>4 DEF NewConns, Connecting
<1> QED
  BY <1>3, <1>6, <1>7, <1>8, <1>10, <1>11, <1>12, <1>13 DEF IInv, Good, Basic

LEMMA IInvStutters ==
  ASSUME IInv, UNCHANGED vars
  PROVE  IInv'
<1>1. /\ UNCHANGED <<life, lists, senders, conn, handles, currentSender, dropped>>
      /\ UNCHANGED <<metaCalls, stack, holder, calls>>
  BY DEF vars, switchers
<1>2. Basic'
  BY <1>1 DEF IInv, Good, Basic, Typed, Shape, HeldByTop, Top
<1>3. LifeOK' /\ NamedLive'
  BY <1>1 DEF IInv, Good, LifeOK, Deleting, NamedLive
<1>4. ListsShape'
  BY <1>1 DEF IInv, Good, ListsShape, ShapeOf, Past, Deleting
<1>5. UsersOK'
  <2>1. \A o \in Objects : Users(o)' = Users(o)
    BY <1>1, UsersSame DEF Using
  <2> QED
    BY <1>1, <2>1 DEF IInv, Good, UsersOK
<1>6. Data'
  BY <1>1, DataSame DEF IInv, Good
<1>7. Walks'
  <2> SUFFICES ASSUME NEW t \in Threads, NEW i \in DOMAIN stack'[t], NEW f, f = stack'[t][i]
               PROVE  WalkOK(f)'
    BY DEF Walks
  <2>1. WalkOK(f)
    BY <1>1 DEF IInv, Good, Walks
  <2>2. ScanOK(f)' /\ EmptyOK(f)'
    BY <1>1, <2>1 DEF WalkOK, ScanOK, EmptyOK, Listed
  <2>3. LookOK(f)'
    BY <1>1, <2>1 DEF WalkOK, LookOK, Intact, Listed, Deleting
  <2>4. UnlinkOK(f)' /\ ZeroOK(f)'
    BY <1>1, <2>1 DEF WalkOK, UnlinkOK, ZeroOK, Broken
  <2> QED
    BY <2>2, <2>3, <2>4 DEF WalkOK
<1>8. NewConns' /\ Linked' /\ Dirt'
  BY <1>1 DEF IInv, NewConns, Connecting, Linked, Dirt, Listed, Broken, ZeroingAt, Dirties
<1> QED
  BY <1>2, <1>3, <1>4, <1>5, <1>6, <1>7, <1>8 DEF IInv, Good

\* The inductive invariant of connect, disconnect, activate and ~QObject: see
\* IInv and the parts it is made of.
THEOREM Invariance ==
  Spec => []IInv
<1>1. IInv /\ [Next]_vars => IInv'
  BY IInvNext, IInvStutters DEF Next
<1> QED
  BY <1>1, InitIInv, PTL DEF Spec

-----------------------------------------------------------------------------
(* What follows from it                                                    *)

LEMMA InSomeList ==
  ASSUME NEW o, NEW c
  PROVE  c \in InSome(lists[o]) <=> \E g \in Signals : Listed(c, o, g)
BY DEF InSome, Listed

LEMMA FrameIs ==
  ASSUME NEW f \in AllFrames
  PROVE  \E t \in Threads : \E i \in DOMAIN stack[t] : f = stack[t][i]
BY DEF AllFrames, Frames, ToSet

LEMMA IInvTypeOK ==
  ASSUME IInv
  PROVE  TypeOK
<1>1. Typed /\ UsersOK /\ Counts
  BY DEF IInv, Good, Basic, Data
<1>2. ASSUME NEW o \in Objects PROVE lists[o] \in Lists
  <2>1. PICK v : v = lists[o]
    OBVIOUS
  <2>2. v \in SomeLists
    BY <1>1, <2>1 DEF Typed
  <2>3. v.inUse \in Nat
    BY <1>1, <2>1, FS_CardinalityType DEF UsersOK, Counted
  <2> QED
    BY <2>1, <2>2, <2>3 DEF SomeLists, Lists
<1>3. ASSUME NEW c \in Conns PROVE conn[c] \in Connection
  <2>1. PICK k : k = conn[c]
    OBVIOUS
  <2>2. k \in SomeConnection
    BY <1>1, <2>1 DEF Typed
  <2>3. k.ref \in 0 .. 2
    BY <1>1, <2>1 DEF Counts
  <2> QED
    BY <2>1, <2>2, <2>3 DEF SomeConnection, Connection
<1>4. lists \in [Objects -> Lists] /\ conn \in [Conns -> Connection]
  BY <1>1, <1>2, <1>3 DEF Typed
<1> QED
  BY <1>1, <1>4 DEF Typed, TypeOK

LEMMA IInvListsLive ==
  ASSUME IInv
  PROVE  ListsLiveWhileUsed
BY DEF IInv, Good, UsersOK, Counted, ListsLiveWhileUsed

LEMMA RefsCounted ==
  ASSUME Data, NEW c \in Conns
  PROVE  conn[c].ref = Cardinality({o \in Objects : c \in InSome(lists[o])})
                       + Cardinality(handles \cap {c})
<1>1. PICK X, Y : X = {o \in Objects : c \in InSome(lists[o])} /\ Y = handles \cap {c}
  OBVIOUS
<1>2. Cardinality(X) = IF Placed(c) THEN 1 ELSE 0
  <2>1. ASSUME NEW o \in Objects, NEW g \in Signals, Listed(c, o, g) PROVE X = {o}
    <3>1. \A p \in Objects : c \in InSome(lists[p]) <=> p = o
      BY <2>1, InSomeList DEF Data, OnceListed
    <3> QED
      BY <1>1, <3>1
  <2>2. ~Placed(c) => X = {}
    BY <1>1, InSomeList DEF Placed
  <2>3. Placed(c) => Cardinality(X) = 1
    BY <2>1, FS_Singleton DEF Placed
  <2> QED
    BY <2>2, <2>3, FS_EmptySet
<1>3. Cardinality(Y) = IF c \in handles THEN 1 ELSE 0
  <2>1. c \in handles => Y = {c}
    BY <1>1
  <2>2. c \notin handles => Y = {}
    BY <1>1
  <2> QED
    BY <2>1, <2>2, FS_Singleton, FS_EmptySet
<1> QED
  BY <1>1, <1>2, <1>3 DEF Data, Counts

LEMMA WalkersListed ==
  ASSUME IInv, NEW o \in Objects, NEW f \in AllFrames, Uses(f, o), f.conn # None,
         ~(f.at \in {"slot", "relock"} /\ Gone(o))
  PROVE  {f.conn, f.last} \subseteq InSome(lists[o]) \cup {None}
<1>1. PICK t \in Threads : \E i \in DOMAIN stack[t] : f = stack[t][i]
  BY FrameIs
<1>2. PICK i \in DOMAIN stack[t] : f = stack[t][i]
  BY <1>1
<1>3. /\ Basic /\ WalkOK(f) /\ ListsShape /\ UsersOK /\ FrameOK(t, f) /\ f.obj = o /\ InUse(f)
      /\ f \in Frame /\ Users(o) # {}
  BY <1>2, FramesOK, UsesInUse, UserIs DEF IInv, Good, Walks
<1>4. ASSUME NEW c, Listed(c, o, f.sig), f.sig \in Signals PROVE c \in InSome(lists[o])
  BY <1>4, InSomeList
<1>5. CASE f.op = "emit"
  <2>1. f.at # "look" => f.at \in {"slot", "relock"}
    BY <1>3, <1>5 DEF FrameOK, EmitFrame, InUse
  <2>2. ASSUME ~Gone(o) PROVE Intact(o)
    <3>1. lists[o].at = "used"
      BY <1>3, <2>2, SomeUsers, ListTyped DEF Gone, Basic, Typed, SomeLists
    <3>2. ASSUME NEW j, Deleting(o, j), stack[Home[o]][j].at \in {"receivers", "unlink"}
          PROVE  FALSE
      <4>1. Home[o] \in Threads
        BY HomeTyped
      <4>2. stack[Home[o]][j] \in AllFrames
        BY <3>2, <4>1 DEF Deleting, AllFrames, Frames, ToSet
      <4> QED
        BY <2>2, <3>2, <4>2 DEF Gone, Deleting
    <3> QED
      BY <3>1, <3>2 DEF Intact
  <2>3. Listed(f.conn, o, f.sig) /\ Listed(f.last, o, f.sig)
    BY <1>3, <1>5, <2>1, <2>2 DEF WalkOK, LookOK
  <2>4. f.sig \in Signals
    BY <1>3, <1>5 DEF FrameOK, EmitFrame
  <2> QED
    BY <1>4, <2>3, <2>4
<1>6. CASE f.op = "disconnect"
  <2>1. Listed(f.conn, o, f.sig) /\ f.sig \in Signals /\ f.last = None
    BY <1>3, <1>6 DEF WalkOK, ScanOK, FrameOK, DisconnectFrame
  <2> QED
    BY <1>4, <2>1
<1>7. CASE f.op = "delete"
  <2>1. f.at = "unlink" /\ f.sig \in Signals /\ f.last = None
    BY <1>3, <1>7 DEF FrameOK, DeleteFrame
  <2>2. PICK q : q = lists[o].of[f.sig]
    OBVIOUS
  <2>3. q # <<>> /\ f.conn = Head(q) /\ q \in Seq(Conns)
    BY <1>3, <1>7, <2>1, <2>2, ListTyped DEF WalkOK, EmptyOK, Basic
  <2>4. Listed(f.conn, o, f.sig)
    BY <2>2, <2>3, HeadAndTail DEF Listed
  <2> QED
    BY <1>4, <2>1, <2>4
<1> QED
  BY <1>3, <1>5, <1>6, <1>7 DEF InUse

LEMMA IInvNoFreed ==
  ASSUME IInv
  PROVE  NoFreedConnectionUsed
<1>1. Data /\ Typed
  BY DEF IInv, Good, Basic
<1>2. \A c \in Conns : conn[c].ref = Cardinality({o \in Objects : c \in InSome(lists[o])})
                                     + Cardinality(handles \cap {c})
  BY <1>1, RefsCounted
<1>3. \A o \in Objects : \A c \in ToSet(senders[o]) : conn[c].receiver = o
  BY <1>1, Members DEF Data, SendersOK
<1>4. \A o \in Objects : \A f \in AllFrames :
        Uses(f, o) /\ f.conn # None /\ ~(f.at \in {"slot", "relock"} /\ Gone(o)) =>
          {f.conn, f.last} \subseteq InSome(lists[o]) \cup {None}
  BY WalkersListed
<1> QED
  BY <1>2, <1>3, <1>4 DEF NoFreedConnectionUsed

LEMMA IInvReceivers ==
  ASSUME IInv
  PROVE  ReceiversLive
<1> SUFFICES ASSUME NEW o \in Objects, NEW c \in InSome(lists[o]), ~Broken(c), ~Zeroing(c)
             PROVE  /\ life[conn[c].receiver] # "dead"
                    /\ c \in ToSet(senders[conn[c].receiver])
  BY DEF ReceiversLive
<1>1. PICK g \in Signals : Listed(c, o, g)
  BY InSomeList
<1>2. Typed /\ Linked /\ ListsShape
  BY DEF IInv, Good, Basic
<1>3. c \in Conns
  BY <1>1, <1>2, Members DEF Listed
<1>4. PICK r : r = conn[c].receiver
  OBVIOUS
<1>5. r \in Objects
  BY <1>2, <1>3, <1>4, ConnTyped DEF SomeConnection, Broken
<1>6. ASSUME NEW t \in Threads, NEW i, ZeroingAt(c, t, i) PROVE FALSE
  <2>1. stack[t][i] \in AllFrames
    BY <1>6 DEF ZeroingAt, AllFrames, Frames, ToSet
  <2> QED
    BY <1>6, <2>1 DEF ZeroingAt, Zeroing
<1>7. c \in ToSet(senders[r])
  BY <1>1, <1>2, <1>3, <1>4, <1>6 DEF Linked
<1>8. life[r] # "dead"
  BY <1>2, <1>5, <1>7, NoneWanted DEF ListsShape, ShapeOf
<1> QED
  BY <1>4, <1>7, <1>8

LEMMA IInvDirty ==
  ASSUME IInv
  PROVE  BrokenAreDirty
<1> SUFFICES ASSUME NEW o \in Objects, NEW c \in InSome(lists[o]), Broken(c)
             PROVE  lists[o].dirty \/ \E f \in AllFrames : Uses(f, o) /\ f.op # "emit"
  BY DEF BrokenAreDirty
<1>1. PICK g \in Signals : Listed(c, o, g)
  BY InSomeList
<1>2. c \in Conns
  BY <1>1, Members DEF Listed, IInv, Good, Basic
<1>3. ASSUME NEW t \in Threads, NEW i, Dirties(o, t, i)
      PROVE  \E f \in AllFrames : Uses(f, o) /\ f.op # "emit"
  <2>1. stack[t][i] \in AllFrames
    BY <1>3 DEF Dirties, AllFrames, Frames, ToSet
  <2>2. Uses(stack[t][i], o) /\ stack[t][i].op # "emit"
    BY <1>3 DEF Dirties, Uses
  <2> QED
    BY <2>1, <2>2
<1> QED
  BY <1>1, <1>2, <1>3 DEF IInv, Dirt

\* The variables of signals and slots keep their types, for any objects, threads,
\* signals, connections and mutexes: inUse is never negative, ref_ of a
\* connection is at most 2, currentSender and previousSender are frames.
THEOREM TypeCorrect ==
  Spec => []TypeOK
BY Invariance, IInvTypeOK, PTL

\* QObjectConnectionListVector: inUse is the number of activate, disconnect and
\* ~QObject that use the lists, in every thread and at every depth; the lists
\* are deleted by the last of them once orphaned, and never before.
THEOREM ListsOutliveTheirUsers ==
  Spec => []ListsLiveWhileUsed
BY Invariance, IInvListsLive, PTL

\* QObjectPrivate::Connection: ref_ is the number of its list and its handle; who
\* walks a list is at a connection that is in it, after slots and relocks in
\* which connect cleans the lists, others disconnect and objects are deleted.
THEOREM NoConnectionIsUsedFreed ==
  Spec => []NoFreedConnectionUsed
BY Invariance, IInvNoFreed, PTL

\* activate reads c->receiver under the sender's mutex only: the receiver it
\* finds has not been deleted, and has the connection among its senders, so
\* that its destructor will break it.
THEOREM CalledReceiversLive ==
  Spec => []ReceiversLive
BY Invariance, IInvReceivers, PTL

\* A connection that was broken by disconnect, by its receiver's destructor or
\* through its handle stays in a list only while the list is dirty or somebody
\* is about to make it so: cleanConnectionLists will free it.
THEOREM BrokenWillBeCleaned ==
  Spec => []BrokenAreDirty
BY Invariance, IInvDirty, PTL

-----------------------------------------------------------------------------
(* Lists change under their mutexes only.                                  *)

LEMMA HoldsNeeded ==
  ASSUME Basic, NEW t \in Threads, NEW op, NEW at, At(t, op, at),
         NEW o \in Objects, Needs(Top(t), MutexOf[o])
  PROVE  holder[MutexOf[o]] = t
BY AtTop, MutexTyped

LEMMA HoldsOwn ==
  ASSUME Basic, NEW t \in Threads, NEW op, NEW at, At(t, op, at), op # "event",
         op = "emit" => at # "slot", op = "delete" => at \notin {"begin", "free"}
  PROVE  Top(t).obj \in Objects /\ holder[MutexOf[Top(t).obj]] = t
<1>1. Top(t).obj \in Objects /\ Needs(Top(t), MutexOf[Top(t).obj])
  BY AtTop, FrameTyped DEF Needs, Own
<1> QED
  BY <1>1, HoldsNeeded

LEMMA OnlyOneTouched ==
  ASSUME NEW o \in Objects, NEW p, Touched(o), UNCHANGED <<senders, conn>>,
         \A q \in Objects : q # p => lists'[q] = lists[q]
  PROVE  o = p
BY DEF Touched

LEMMA ConnectGuarded ==
  ASSUME Basic, Data, NewConns, NEW t \in Threads, ConnectEnd(t), NEW o \in Objects, Touched(o)
  PROVE  holder[MutexOf[o]] = t
<1>1. PICK f \in Frame :
        /\ f = Top(t) /\ f.op = "connect" /\ f.at = "begin"
        /\ f.obj \in Objects /\ f.other \in Objects /\ f.sig \in Signals /\ f.conn \in Conns
  BY ConnectTop
<1>2. At(t, "connect", "begin")
  BY DEF ConnectEnd
<1>3. conn[f.conn].ref = 0
  BY <1>1, <1>2, NewOfTop DEF NewToAll
<1>4. PICK v : v = lists[f.obj]
  OBVIOUS
<1>5. CASE UNCHANGED <<lists, senders, conn>>
  BY <1>5 DEF Touched
<1>6. CASE /\ conn' = [c \in Conns |->
                IF c = f.conn THEN NewConnection(c, f.obj, f.other)
                ELSE IF c \in Cleaned(v) THEN Deref(conn[c]) ELSE conn[c]]
           /\ lists' = [lists EXCEPT ![f.obj] =
                [Clean(v) EXCEPT !.at = "used", !.of[f.sig] = Append(@, f.conn)]]
           /\ senders' = [senders EXCEPT ![f.other] = <<f.conn>> \o @]
  <2>1. \A q \in Objects : q # f.obj => lists'[q] = lists[q]
    BY <1>6 DEF Basic, Typed
  <2>2. \A q \in Objects : q # f.other => senders'[q] = senders[q]
    BY <1>6 DEF Basic, Typed
  <2>3. ASSUME NEW c \in InSome(lists[o]) PROVE conn'[c].receiver = conn[c].receiver
    <3>1. PICK g \in Signals : Listed(c, o, g)
      BY <2>3, InSomeList
    <3>2. c \in Conns
      BY <3>1, Members DEF Listed, Basic
    <3>3. c # f.conn
      <4>1. conn[c].ref # 0
        BY <3>1, <3>2 DEF Data, Counts, Placed
      <4> QED
        BY <1>3, <4>1
    <3>4. conn'[c] = IF c \in Cleaned(v) THEN Deref(conn[c]) ELSE conn[c]
      BY <1>6, <3>2, <3>3
    <3>5. c \in Cleaned(v) => Broken(c)
      BY <1>1, <1>4, CleanedAre
    <3>6. PICK k : k = conn[c]
      OBVIOUS
    <3>7. k \in SomeConnection
      BY <3>2, <3>6, ConnTyped DEF Basic
    <3>8. Deref(k).receiver \in {None, k.receiver}
      BY <3>7, DerefIs
    <3> QED
      BY <3>4, <3>5, <3>6, <3>8 DEF Broken
  <2>4. o \in {f.obj, f.other}
    BY <2>1, <2>2, <2>3 DEF Touched
  <2>5. Needs(Top(t), MutexOf[o])
    BY <1>1, <2>4, NoneElsewhere DEF Needs, Own
  <2> QED
    BY <1>2, <2>5, HoldsNeeded
<1> QED
  BY <1>1, <1>4, <1>5, <1>6 DEF ConnectEnd

\* A function that changes the lists of its object, and nothing else
LEMMA OwnGuarded ==
  ASSUME Basic, NEW t \in Threads, NEW o \in Objects, Touched(o),
         DisconnectBegin(t) \/ DisconnectEnd(t) \/ EmitBegin(t) \/ EmitEnd(t)
         \/ DeleteLists(t) \/ DeleteListsEnd(t)
  PROVE  holder[MutexOf[o]] = t
<1>1. PICK p : p = Top(t).obj
  OBVIOUS
<1>2. p \in Objects /\ holder[MutexOf[p]] = t
  BY <1>1, HoldsOwn DEF DisconnectBegin, DisconnectEnd, EmitBegin, EmitEnd, DeleteLists, DeleteListsEnd
<1>3. UNCHANGED <<senders, conn>>
  BY DEF DisconnectBegin, DisconnectEnd, EmitBegin, EmitEnd, DeleteLists, DeleteListsEnd
<1>4. lists' = lists \/ \E v : lists' = [lists EXCEPT ![p] = v]
  BY <1>1 DEF DisconnectBegin, DisconnectEnd, EmitBegin, EmitEnd, DeleteLists, DeleteListsEnd
<1>5. \A q \in Objects : q # p => lists'[q] = lists[q]
  BY <1>2, <1>4 DEF Basic, Typed
<1>6. o = p
  BY <1>3, <1>5, OnlyOneTouched
<1> QED
  BY <1>2, <1>6

\* c leaves the senders of its receiver.
LEMMA UnlinkGuarded ==
  ASSUME Good, NEW t \in Threads, NEW op \in {"disconnect", "delete"}, At(t, op, "unlink"),
         NEW o \in Objects, NEW c, c = Top(t).conn,
         senders' = IF Broken(c) THEN senders ELSE Unlinked(c), senders'[o] # senders[o]
  PROVE  holder[MutexOf[o]] = t
<1>1. /\ Top(t) \in Frame /\ FrameOK(t, Top(t)) /\ Top(t).op = op /\ Top(t).at = "unlink"
      /\ stack[t] # <<>>
  BY AtTop DEF Good
<1>2. c \in Conns
  BY <1>1 DEF FrameOK, DisconnectFrame, DeleteFrame
<1>3. ~Broken(c) /\ senders' = Unlinked(c)
  OBVIOUS
<1>4. o = conn[c].receiver
  BY <1>2, <1>3, UnlinkedTyped DEF Good, Basic
<1>5. Needs(Top(t), MutexOf[o])
  BY <1>1, <1>3, <1>4, WalksTop DEF Good, WalkOK, UnlinkOK
<1> QED
  BY <1>5, HoldsNeeded DEF Good

LEMMA DisconnectUnlinkGuarded ==
  ASSUME Good, NEW t \in Threads, DisconnectUnlink(t), NEW o \in Objects, Touched(o)
  PROVE  holder[MutexOf[o]] = t
<1>1. PICK c : c = Top(t).conn
  OBVIOUS
<1>2. At(t, "disconnect", "unlink") /\ UNCHANGED <<lists, conn>>
      /\ senders' = IF Broken(c) THEN senders ELSE Unlinked(c)
  BY <1>1 DEF DisconnectUnlink
<1>3. senders'[o] # senders[o]
  BY <1>2 DEF Touched
<1> QED
  BY <1>1, <1>2, <1>3, UnlinkGuarded

LEMMA DisconnectZeroGuarded ==
  ASSUME Good, NEW t \in Threads, DisconnectZero(t), NEW o \in Objects, Touched(o)
  PROVE  holder[MutexOf[o]] = t
<1>1. At(t, "disconnect", "zero") /\ UNCHANGED <<lists, senders>>
      /\ conn' = [conn EXCEPT ![Top(t).conn].receiver = None]
  BY DEF DisconnectZero
<1>2. PICK p, c : p = Top(t).obj /\ c = Top(t).conn
  OBVIOUS
<1>3. p \in Objects /\ holder[MutexOf[p]] = t
  BY <1>1, <1>2, HoldsOwn DEF Good
<1>4. Listed(c, p, Top(t).sig)
  BY <1>1, <1>2, GoodImplies DEF OutOfSenders
<1>5. Top(t).sig \in Signals /\ c \in Conns
  <2>1. FrameOK(t, Top(t)) /\ Top(t).op = "disconnect" /\ Top(t).at = "zero"
    BY <1>1, AtTop DEF Good
  <2> QED
    BY <1>2, <2>1, NoneElsewhere DEF FrameOK, DisconnectFrame
<1>6. PICK d \in InSome(lists[o]) : conn'[d].receiver # conn[d].receiver
  BY <1>1 DEF Touched
<1>7. PICK g \in Signals : Listed(d, o, g)
  BY <1>6, InSomeList
<1>8. d \in Conns
  BY <1>7, Members DEF Listed, Good, Basic
<1>9. d = c
  BY <1>1, <1>2, <1>6, <1>8 DEF Good, Basic, Typed
<1>10. o = p
  BY <1>3, <1>4, <1>5, <1>7, <1>9 DEF Good, Data, OnceListed
<1> QED
  BY <1>3, <1>10

LEMMA DeleteReceiversGuarded ==
  ASSUME Good, NEW t \in Threads, DeleteReceivers(t), NEW o \in Objects, Touched(o)
  PROVE  holder[MutexOf[o]] = t
<1>1. PICK p : p = Top(t).obj
  OBVIOUS
<1>2. At(t, "delete", "receivers") /\ UNCHANGED senders
  BY DEF DeleteReceivers
<1>3. p \in Objects /\ holder[MutexOf[p]] = t
  BY <1>1, <1>2, HoldsOwn DEF Good
<1>10. PICK g \in Signals :
         /\ lists[p].of[g] # <<>>
         /\ \/ /\ Broken(Head(lists[p].of[g]))
               /\ DropFirst(p, g, Head(lists[p].of[g]), conn[Head(lists[p].of[g])])
            \/ UNCHANGED <<lists, conn>>
  BY <1>1 DEF DeleteReceivers
<1>4. PICK c : c = Head(lists[p].of[g])
  OBVIOUS
<1>5. CASE UNCHANGED <<lists, conn>>
  BY <1>2, <1>5 DEF Touched
<1>6. CASE Broken(c) /\ DropFirst(p, g, c, conn[c])
  <2>1. PICK q : q = lists[p].of[g]
    OBVIOUS
  <2>2. c \in Conns
    BY <1>3, <1>4, <1>10, <2>1, ListTyped, HeadAndTail DEF Good, Basic
  <2>3. PICK k : k = conn[c]
    OBVIOUS
  <2>4. k \in SomeConnection /\ k.receiver = None /\ Deref(k).receiver \in {None, k.receiver}
    BY <1>6, <2>2, <2>3, ConnTyped, DerefIs DEF Good, Basic, Broken
  <2>5. conn' = [conn EXCEPT ![c] = Deref(k)]
    BY <1>6, <2>3 DEF DropFirst
  <2>6. \A d \in Conns : conn'[d].receiver = conn[d].receiver
    BY <2>2, <2>3, <2>4, <2>5 DEF Good, Basic, Typed
  <2>7. InSome(lists[o]) \subseteq Conns
    <3>1. ASSUME NEW d \in InSome(lists[o]) PROVE d \in Conns
      BY <3>1, InSomeList, Members DEF Listed, Good, Basic
    <3> QED
      BY <3>1
  <2>8. \A r \in Objects : r # p => lists'[r] = lists[r]
    BY <1>6 DEF DropFirst, Good, Basic, Typed
  <2>9. o = p
    BY <1>2, <2>6, <2>7, <2>8 DEF Touched
  <2> QED
    BY <1>3, <2>9
<1> QED
  BY <1>4, <1>5, <1>6, <1>10

LEMMA DeleteUnlinkGuarded ==
  ASSUME Good, NEW t \in Threads, DeleteUnlink(t), NEW o \in Objects, Touched(o)
  PROVE  holder[MutexOf[o]] = t
<1>1. PICK p, c, g : p = Top(t).obj /\ c = Top(t).conn /\ g = Top(t).sig
  OBVIOUS
<1>2. At(t, "delete", "unlink") /\ DropFirst(p, g, c, [conn[c] EXCEPT !.receiver = None])
      /\ senders' = IF Broken(c) THEN senders ELSE Unlinked(c)
  BY <1>1 DEF DeleteUnlink
<1>3. p \in Objects /\ holder[MutexOf[p]] = t
  BY <1>1, <1>2, HoldsOwn DEF Good
<1>4. /\ FrameOK(t, Top(t)) /\ Top(t).op = "delete" /\ Top(t).at = "unlink" /\ stack[t] # <<>>
      /\ c \in Conns /\ g \in Signals
  BY <1>1, <1>2, AtTop DEF Good, FrameOK, DeleteFrame
<1>5. PICK q : q = lists[p].of[g]
  OBVIOUS
<1>6. q # <<>> /\ c = Head(q)
  BY <1>1, <1>4, <1>5, WalksTop DEF Good, WalkOK, EmptyOK
<1>7. Listed(c, p, g)
  BY <1>3, <1>4, <1>5, <1>6, ListTyped, HeadAndTail DEF Listed, Good, Basic
<1>8. CASE senders'[o] # senders[o]
  BY <1>1, <1>2, <1>8, UnlinkGuarded
<1>9. CASE lists'[o] # lists[o]
  <2>1. o = p
    BY <1>2, <1>9 DEF DropFirst, Good, Basic, Typed
  <2> QED
    BY <1>3, <2>1
<1>10. ASSUME NEW d \in InSome(lists[o]), conn'[d].receiver # conn[d].receiver
       PROVE  o = p
  <2>1. PICK h \in Signals : Listed(d, o, h)
    BY <1>10, InSomeList
  <2>2. d \in Conns
    BY <2>1, Members DEF Listed, Good, Basic
  <2>3. d = c
    BY <1>2, <1>10, <2>2 DEF DropFirst, Good, Basic, Typed
  <2> QED
    BY <1>3, <1>4, <1>7, <2>1, <2>3 DEF Good, Data, OnceListed
<1> QED
  BY <1>3, <1>8, <1>9, <1>10 DEF Touched

LEMMA DeleteNodeGuarded ==
  ASSUME Good, NEW t \in Threads, DeleteNode(t), NEW o \in Objects, Touched(o)
  PROVE  holder[MutexOf[o]] = t
<1>1. PICK p, s, c : p = Top(t).obj /\ s = Top(t).other /\ c = Head(senders[p])
  OBVIOUS
<1>2. At(t, "delete", "node")
  BY DEF DeleteNode
<1>3. p \in Objects /\ holder[MutexOf[p]] = t
  BY <1>1, <1>2, HoldsOwn DEF Good
<1>4. s \in Objects /\ Needs(Top(t), MutexOf[s])
  <2>1. FrameOK(t, Top(t)) /\ WantOK(Top(t)) /\ Top(t).op = "delete" /\ Top(t).at = "node"
    BY <1>2, AtTop DEF Good
  <2>2. s \in Objects
    BY <1>1, <2>1 DEF FrameOK, DeleteFrame
  <2>3. Top(t).mutex = MutexOf[s] \/ MutexOf[p] = MutexOf[s]
    BY <1>1, <2>1 DEF WantOK
  <2> QED
    BY <1>1, <2>1, <2>2, <2>3 DEF Needs, Own
<1>5. holder[MutexOf[s]] = t
  BY <1>2, <1>4, HoldsNeeded DEF Good
<1>6. /\ ~NodeGone(p, s) /\ conn' = [conn EXCEPT ![c].receiver = None]
      /\ lists' = [lists EXCEPT ![s].dirty = @ \/ lists[s].at = "used"]
      /\ senders' = [senders EXCEPT ![p] = Tail(@)]
  <2>1. CASE UNCHANGED <<conn, lists, senders>>
    BY <2>1 DEF Touched
  <2> QED
    BY <1>1, <2>1 DEF DeleteNode
<1>7. senders[p] # <<>> /\ conn[c].sender = s
  BY <1>1, <1>6 DEF NodeGone
<1>8. \A q \in Objects : (q # p => senders'[q] = senders[q]) /\ (q # s => lists'[q] = lists[q])
  BY <1>6 DEF Good, Basic, Typed
<1>9. ASSUME NEW d \in InSome(lists[o]), conn'[d].receiver # conn[d].receiver
      PROVE  o = s
  <2>1. PICK h \in Signals : Listed(d, o, h)
    BY <1>9, InSomeList
  <2>2. d \in Conns
    BY <2>1, Members DEF Listed, Good, Basic
  <2>3. d = c
    BY <1>6, <1>9, <2>2 DEF Good, Basic, Typed
  <2> QED
    BY <1>7, <2>1, <2>2, <2>3 DEF Good, Data, Ends
<1>10. o \in {p, s}
  BY <1>8, <1>9 DEF Touched
<1> QED
  BY <1>3, <1>5, <1>10

LEMMA DropTouchesNothing ==
  ASSUME Good, NEW t \in Threads, NEW c \in Conns, DropHandle(t, c), NEW o \in Objects
  PROVE  ~Touched(o)
<1>1. UNCHANGED <<lists, senders>> /\ c \in handles /\ conn' = [conn EXCEPT ![c] = Deref(conn[c])]
  BY DEF DropHandle
<1>2. ASSUME NEW d \in InSome(lists[o]) PROVE conn'[d].receiver = conn[d].receiver
  <2>1. PICK h \in Signals : Listed(d, o, h)
    BY <1>2, InSomeList
  <2>2. d \in Conns
    BY <2>1, Members DEF Listed, Good, Basic
  <2>3. CASE d # c
    BY <1>1, <2>2, <2>3 DEF Good, Basic, Typed
  <2>4. CASE d = c
    <3>1. PICK k : k = conn[c]
      OBVIOUS
    <3>2. k \in SomeConnection /\ k.ref = 2
      BY <1>1, <2>1, <2>4, <3>1, ConnTyped DEF Good, Basic, Data, Counts, Placed
    <3>3. Deref(k).receiver = k.receiver
      BY <3>2, DerefIs
    <3>4. conn'[c] = Deref(k)
      BY <1>1, <3>1 DEF Good, Basic, Typed
    <3> QED
      BY <2>4, <3>1, <3>3, <3>4
  <2> QED
    BY <2>3, <2>4
<1> QED
  BY <1>1, <1>2 DEF Touched

LEMMA HandleGuarded ==
  ASSUME Good, NEW t \in Threads, NEW c \in Conns, DisconnectHandle(t, c), NEW o \in Objects,
         Touched(o)
  PROVE  holder[MutexOf[o]] = Free
<1>1. PICK s, r : s = conn[c].sender /\ r = conn[c].receiver
  OBVIOUS
<1>2. /\ holder[MutexOf[s]] = Free /\ holder[MutexOf[r]] = Free
      /\ lists' = [lists EXCEPT ![s].dirty = TRUE] /\ senders' = Unlinked(c) /\ ~Broken(c)
      /\ conn' = [conn EXCEPT ![c].receiver = None]
  BY <1>1 DEF DisconnectHandle
<1>3. \A q \in Objects : (q # r => senders'[q] = senders[q]) /\ (q # s => lists'[q] = lists[q])
  BY <1>1, <1>2, UnlinkedTyped DEF Good, Basic, Typed
<1>4. ASSUME NEW d \in InSome(lists[o]), conn'[d].receiver # conn[d].receiver
      PROVE  o = s
  <2>1. PICK h \in Signals : Listed(d, o, h)
    BY <1>4, InSomeList
  <2>2. d \in Conns
    BY <2>1, Members DEF Listed, Good, Basic
  <2>3. d = c
    BY <1>2, <1>4, <2>2 DEF Good, Basic, Typed
  <2> QED
    BY <1>1, <2>1, <2>2, <2>3 DEF Good, Data, Ends
<1>5. o \in {s, r}
  BY <1>3, <1>4 DEF Touched
<1> QED
  BY <1>2, <1>5

LEMMA StepGuarded ==
  ASSUME Good, NewConns, NEW t \in Threads, Step(t), NEW o \in Objects, Touched(o)
  PROVE  holder[MutexOf[o]] = t
<1>1. CASE Lock(t) \/ DisconnectList(t) \/ DisconnectScan(t)
           \/ EmitLook(t) \/ SlotReturn(t) \/ EmitResume(t) \/ DeliverEnd(t) \/ DeleteBegin(t)
           \/ DeleteSenders(t) \/ DeleteEnd(t)
  <2>1. UNCHANGED <<lists, conn, senders>>
    BY <1>1 DEF Lock, DisconnectList, DisconnectScan,
      EmitLook, SlotReturn, EmitResume, DeliverEnd, DeleteBegin, DeleteSenders, DeleteEnd
  <2> QED
    BY <2>1 DEF Touched
<1>2. Basic /\ Data
  BY DEF Good
<1> QED
  BY <1>1, <1>2, ConnectGuarded, OwnGuarded, DisconnectUnlinkGuarded, DisconnectZeroGuarded,
     DeleteReceiversGuarded, DeleteUnlinkGuarded, DeleteNodeGuarded DEF Step

LEMMA UserCallGuarded ==
  ASSUME Good, NEW t \in Threads, UserCall(t), NEW o \in Objects, Touched(o)
  PROVE  holder[MutexOf[o]] = Free /\ \E c \in Conns : DisconnectHandle(t, c)
<1>1. ASSUME UNCHANGED <<lists, conn, senders>> PROVE FALSE
  BY <1>1 DEF Touched
<1> QED
  BY <1>1, DropTouchesNothing, HandleGuarded
     DEF UserCall, EmitCall, ConnectCall, DisconnectCall, Deliver, DeleteCall

LEMMA NextGuarded ==
  ASSUME IInv, [Next]_vars
  PROVE  \A o \in Objects : Touched(o) => \E t \in Threads :
           \/ Step(t) /\ holder[MutexOf[o]] = t
           \/ holder[MutexOf[o]] = Free /\ \E c \in Conns : DisconnectHandle(t, c)
<1> SUFFICES ASSUME NEW o \in Objects, Touched(o)
             PROVE  \E t \in Threads :
                      \/ Step(t) /\ holder[MutexOf[o]] = t
                      \/ holder[MutexOf[o]] = Free /\ \E c \in Conns : DisconnectHandle(t, c)
  OBVIOUS
<1>1. CASE UNCHANGED vars
  BY <1>1 DEF vars, Touched
<1>2. ASSUME NEW t \in Threads, Step(t) \/ UserCall(t)
      PROVE  \/ Step(t) /\ holder[MutexOf[o]] = t
             \/ holder[MutexOf[o]] = Free /\ \E c \in Conns : DisconnectHandle(t, c)
  BY <1>2, StepGuarded, UserCallGuarded DEF IInv
<1> QED
  BY <1>1, <1>2 DEF Next

\* The lists of an object, the receivers of their connections and its senders
\* change only in a thread that holds the mutex signalSlotLock gives for it,
\* in connect, in disconnectHelper, in activate and in the destructor, which
\* unlock it on their way to lock another in address order (ListsGuarded).
THEOREM ListsChangeUnderTheirMutex ==
  Spec => ListsGuarded
<1>1. IInv /\ [Next]_vars =>
        [\A o \in Objects : Touched(o) => \E t \in Threads :
           \/ Step(t) /\ holder[MutexOf[o]] = t
           \/ holder[MutexOf[o]] = Free /\ \E c \in Conns : DisconnectHandle(t, c)]_vars
  BY NextGuarded
<1> QED
  BY <1>1, Invariance, PTL DEF Spec, ListsGuarded

-----------------------------------------------------------------------------
(* The senders of slots: which frame an object's currentSender is in.      *)

\* f executes a slot of o.
Executes(f, o) ==
  f.op \in {"emit", "event"} /\ f.at \in {"slot", "relock"} /\ ReceiverOf(f) = o
PrevOf(o, i) == stack[Home[o]][i].prev

\* p is the greatest of S, or 0 if S is empty.
Greatest(S, p) == (S = {} /\ p = 0) \/ (p \in S /\ \A j \in S : j <= p)
Under(S, n) == {j \in S : j < n}

\* currentSender of an object and the previous of each Sender lead through the
\* slots of the object from the innermost to the outermost; when the destructor
\* has cut currentSender off, it is the innermost whose ref is 0.
SwitchedAt(o) ==
  /\ Past(o) => currentSender[o] = 0
  /\ ~Past(o) => Greatest(Slots(o), currentSender[o])
  /\ \A i \in Slots(o) : Greatest(Under(Slots(o), i), PrevOf(o, i))
  /\ \A i \in Slots(o) : i \in dropped[Home[o]] <=> Past(o) /\ \A j \in Slots(o) : j <= i
DroppedSlots ==
  \A t \in Threads : \A i \in dropped[t] : \E o \in Objects : Home[o] = t /\ i \in Slots(o)
Switched == (\A o \in Objects : SwitchedAt(o)) /\ DroppedSlots

SamePast == \A o \in Objects : Past(o)' <=> Past(o)
SamePrev == \A o \in Objects : \A i \in Slots(o) : i \in Slots(o)' => PrevOf(o, i)' = PrevOf(o, i)
Steady == SamePrev /\ \A o \in Objects : Slots(o)' = Slots(o)

LEMMA SlotIs ==
  ASSUME NEW o, NEW i
  PROVE  i \in Slots(o) <=> i \in DOMAIN stack[Home[o]] /\ Executes(stack[Home[o]][i], o)
BY DEF Slots, Executes

LEMMA SlotsTyped ==
  ASSUME Basic, NEW o \in Objects, NEW i \in Slots(o)
  PROVE  /\ i \in Nat \ {0} /\ i <= Len(stack[Home[o]]) /\ PrevOf(o, i) \in Nat
         /\ Executes(stack[Home[o]][i], o)
<1>1. i \in DOMAIN stack[Home[o]] /\ Executes(stack[Home[o]][i], o) /\ Home[o] \in Threads
  BY SlotIs, HomeTyped
<1>2. stack[Home[o]] \in Seq(Frame)
  BY <1>1 DEF Basic, Typed
<1>3. stack[Home[o]][i] \in Frame
  BY <1>1, <1>2
<1>4. PrevOf(o, i) \in Nat
  BY <1>3 DEF Frame, PrevOf
<1> QED
  BY <1>1, <1>2, <1>4

\* A frame executes a slot of one object.
LEMMA OneSlot ==
  ASSUME NEW o \in Objects, NEW p \in Objects, Home[o] = Home[p], NEW i \in Slots(o), i \in Slots(p)
  PROVE  o = p
BY SlotIs DEF Executes

LEMMA SteadySwitched ==
  ASSUME Switched, Steady, SamePast, UNCHANGED switchers
  PROVE  Switched'
<1>1. currentSender' = currentSender /\ dropped' = dropped
  BY DEF switchers
<1>2. ASSUME NEW o \in Objects PROVE SwitchedAt(o)'
  <2>1. SwitchedAt(o) /\ Slots(o)' = Slots(o) /\ (Past(o)' <=> Past(o))
    BY DEF Switched, Steady, SamePast
  <2>2. \A i \in Slots(o) : PrevOf(o, i)' = PrevOf(o, i)
    BY <2>1 DEF Steady, SamePrev
  <2> QED
    BY <1>1, <2>1, <2>2 DEF SwitchedAt, Greatest, Under
<1>3. DroppedSlots'
  BY <1>1 DEF Switched, DroppedSlots, Steady
<1> QED
  BY <1>2, <1>3 DEF Switched

\* An object o that is alive, or has not begun to be disconnected, enters a slot
\* in frame n.
LEMMA SwitchesIn ==
  ASSUME Basic, Switched, SamePast, SamePrev, NEW r \in Objects, ~Past(r), NEW n \in Nat \ {0},
         \A i \in Slots(r) : i < n,
         \A o \in Objects : Home[o] = Home[r] => n \notin Slots(o),
         \A i : i \in Slots(r)' <=> i \in Slots(r) \/ i = n,
         \A o \in Objects : o # r => Slots(o)' = Slots(o),
         PrevOf(r, n)' = currentSender[r],
         currentSender' = [currentSender EXCEPT ![r] = n], dropped' = dropped
  PROVE  Switched'
<1>1. currentSender'[r] = n /\ \A o \in Objects : o # r => currentSender'[o] = currentSender[o]
  BY DEF Basic, Typed
<1>2. Home[r] \in Threads
  BY HomeTyped
<1>3. ASSUME NEW o \in Objects, o # r PROVE SwitchedAt(o)'
  <2>1. SwitchedAt(o) /\ Slots(o)' = Slots(o) /\ (Past(o)' <=> Past(o))
    BY <1>3 DEF Switched, SamePast
  <2>2. \A i \in Slots(o) : PrevOf(o, i)' = PrevOf(o, i)
    BY <2>1 DEF SamePrev
  <2> QED
    BY <1>1, <1>3, <2>1, <2>2 DEF SwitchedAt, Greatest, Under
<1>4. SwitchedAt(r)'
  <2>1. SwitchedAt(r) /\ ~Past(r)'
    BY DEF Switched, SamePast
  <2>2. \A i \in Slots(r) : i \in Nat
    BY SlotsTyped
  <2>3. Greatest(Slots(r), currentSender[r])
    BY <2>1 DEF SwitchedAt
  <2>4. Greatest(Slots(r)', n)
    BY <2>2 DEF Greatest
  <2>5. Under(Slots(r)', n) = Slots(r)
    BY <2>2 DEF Under
  <2>6. ASSUME NEW i \in Slots(r) PROVE Greatest(Under(Slots(r)', i), PrevOf(r, i)')
    <3>1. Under(Slots(r)', i) = Under(Slots(r), i)
      BY <2>2 DEF Under
    <3>2. PrevOf(r, i)' = PrevOf(r, i)
      BY DEF SamePrev
    <3> QED
      BY <2>1, <3>1, <3>2 DEF SwitchedAt
  <2>7. n \notin dropped[Home[r]]
    BY <1>2 DEF Switched, DroppedSlots
  <2>8. \A i \in Slots(r)' : Greatest(Under(Slots(r)', i), PrevOf(r, i)')
    BY <2>3, <2>5, <2>6
  <2>9. \A i \in Slots(r)' : i \notin dropped'[Home[r]]
    BY <2>1, <2>7 DEF SwitchedAt
  <2> QED
    BY <1>1, <2>1, <2>4, <2>8, <2>9 DEF SwitchedAt
<1>5. DroppedSlots'
  <2> SUFFICES ASSUME NEW t \in Threads, NEW i \in dropped[t]
               PROVE  \E o \in Objects : Home[o] = t /\ i \in Slots(o)'
    BY DEF DroppedSlots
  <2>1. PICK o \in Objects : Home[o] = t /\ i \in Slots(o)
    BY DEF Switched, DroppedSlots
  <2> QED
    BY <2>1
<1> QED
  BY <1>3, <1>4, <1>5 DEF Switched

\* The innermost slot of r, in frame n, ends.
LEMMA SwitchesOut ==
  ASSUME Basic, Switched, SamePast, SamePrev, NEW r \in Objects, NEW n \in Slots(r),
         \A i \in Slots(r) : i <= n,
         \A i : i \in Slots(r)' <=> i \in Slots(r) /\ i # n,
         \A o \in Objects : o # r => Slots(o)' = Slots(o),
         NEW p, p = PrevOf(r, n),
         currentSender' = (IF n \in dropped[Home[r]] THEN currentSender
                           ELSE [currentSender EXCEPT ![r] = p]),
         dropped' = [dropped EXCEPT ![Home[r]] = (@ \ {n, p}) \cup Told(Home[r], n, p)]
  PROVE  Switched'
<1>1. PICK t : t = Home[r]
  OBVIOUS
<1>2. t \in Threads /\ \A i \in Slots(r) : i \in Nat \ {0}
  BY <1>1, HomeTyped, SlotsTyped
<1>3. SwitchedAt(r) /\ Greatest(Under(Slots(r), n), p)
  BY DEF Switched, SwitchedAt
<1>4. Slots(r)' = Under(Slots(r), n)
  BY <1>2 DEF Under
<1>5. Greatest(Slots(r)', p)
  BY <1>3, <1>4
<1>6. p = 0 \/ p \in Slots(r)'
  BY <1>5 DEF Greatest
<1>7. /\ dropped'[t] = (dropped[t] \ {n, p}) \cup Told(t, n, p)
      /\ \A u \in Threads : u # t => dropped'[u] = dropped[u]
  BY <1>1, <1>2 DEF Basic, Typed
<1>8. 0 \notin dropped[t]
  <2> SUFFICES ASSUME 0 \in dropped[t] PROVE FALSE
    OBVIOUS
  <2>1. PICK o \in Objects : Home[o] = t /\ 0 \in Slots(o)
    BY <1>2 DEF Switched, DroppedSlots
  <2> QED
    BY <2>1, SlotsTyped
<1>9. n \in dropped[t] <=> Past(r)
  BY <1>1, <1>3 DEF SwitchedAt
<1>10. ASSUME NEW o \in Objects, o # r PROVE SwitchedAt(o)'
  <2>1. SwitchedAt(o) /\ Slots(o)' = Slots(o) /\ (Past(o)' <=> Past(o))
    BY <1>10 DEF Switched, SamePast
  <2>2. \A i \in Slots(o) : PrevOf(o, i)' = PrevOf(o, i)
    BY <2>1 DEF SamePrev
  <2>3. currentSender'[o] = currentSender[o]
    BY <1>10 DEF Basic, Typed
  <2>4. ASSUME NEW i \in Slots(o)
        PROVE  i \in dropped'[Home[o]] <=> i \in dropped[Home[o]]
    <3>1. Home[o] \in Threads /\ i # 0
      BY HomeTyped, SlotsTyped
    <3>2. CASE Home[o] # t
      BY <1>7, <3>1, <3>2
    <3>3. CASE Home[o] = t
      <4>1. i \notin Slots(r)
        BY <1>1, <1>10, <3>3, OneSlot
      <4>2. i # n /\ i # p
        BY <1>6, <3>1, <4>1
      <4> QED
        BY <1>7, <3>3, <4>2 DEF Told
    <3> QED
      BY <3>2, <3>3
  <2>5. \A i \in Slots(o)' : i \in dropped'[Home[o]] <=> Past(o)' /\ \A j \in Slots(o)' : j <= i
    BY <2>1, <2>4 DEF SwitchedAt
  <2>6. \A i \in Slots(o)' : Greatest(Under(Slots(o)', i), PrevOf(o, i)')
    BY <2>1, <2>2 DEF SwitchedAt
  <2> QED
    BY <2>1, <2>3, <2>5, <2>6 DEF SwitchedAt
<1>11. SwitchedAt(r)'
  <2>1. Past(r)' <=> Past(r)
    BY DEF SamePast
  <2>2. ASSUME NEW i \in Slots(r)' PROVE Greatest(Under(Slots(r)', i), PrevOf(r, i)')
    <3>1. i \in Slots(r) /\ i < n
      BY <1>2
    <3>2. Under(Slots(r)', i) = Under(Slots(r), i)
      BY <1>2, <1>4, <3>1 DEF Under
    <3>3. PrevOf(r, i)' = PrevOf(r, i)
      BY <3>1 DEF SamePrev
    <3> QED
      BY <1>3, <3>1, <3>2, <3>3 DEF SwitchedAt
  <2>3. CASE Past(r)
    <3>1. n \in dropped[t] /\ currentSender' = currentSender /\ currentSender[r] = 0
      BY <1>1, <1>3, <1>9, <2>3 DEF SwitchedAt
    <3>2. dropped'[t] = (dropped[t] \ {n}) \cup (IF p # 0 THEN {p} ELSE {})
      BY <1>7, <1>8, <3>1 DEF Told
    <3>3. ASSUME NEW i \in Slots(r)'
          PROVE  i \in dropped'[t] <=> \A j \in Slots(r)' : j <= i
      <4>1. i \in Slots(r) /\ i # n /\ i < n /\ i # 0
        BY <1>2
      <4>2. p \in Slots(r)' /\ p # 0 /\ p \in Nat /\ \A j \in Slots(r)' : j <= p
        BY <1>2, <1>5, <3>3, <1>4 DEF Greatest, Under
      <4>3. i \notin dropped[t]
        BY <1>1, <1>2, <1>3, <4>1 DEF SwitchedAt
      <4>4. i \in dropped'[t] <=> i = p
        BY <3>2, <4>2, <4>3
      <4>5. i <= p /\ \A j \in Slots(r)' : j <= p
        BY <4>2
      <4>6. (\A j \in Slots(r)' : j <= i) <=> i = p
        BY <1>2, <4>1, <4>2, <4>5
      <4> QED
        BY <4>4, <4>6
    <3> QED
      BY <1>1, <2>1, <2>2, <2>3, <3>1, <3>3 DEF SwitchedAt
  <2>4. CASE ~Past(r)
    <3>1. n \notin dropped[t] /\ currentSender'[r] = p
      BY <1>1, <1>9, <2>4 DEF Basic, Typed
    <3>2. \A i \in Slots(r) : i \notin dropped[t]
      BY <1>1, <1>3, <2>4 DEF SwitchedAt
    <3>3. \A i \in Slots(r)' : i \notin dropped'[t]
      BY <1>7, <3>1, <3>2 DEF Told
    <3> QED
      BY <1>1, <1>5, <2>1, <2>2, <2>4, <3>1, <3>3 DEF SwitchedAt
  <2> QED
    BY <2>3, <2>4
<1>12. DroppedSlots'
  <2> SUFFICES ASSUME NEW u \in Threads, NEW i \in dropped'[u]
               PROVE  \E o \in Objects : Home[o] = u /\ i \in Slots(o)'
    BY DEF DroppedSlots
  <2>1. CASE i \in Told(t, n, p) /\ u = t
    BY <1>1, <1>6, <2>1 DEF Told
  <2>2. CASE i \in dropped[u] /\ (u = t => i # n)
    <3>1. PICK o \in Objects : Home[o] = u /\ i \in Slots(o)
      BY <2>2 DEF Switched, DroppedSlots
    <3> QED
      BY <1>1, <2>2, <3>1
  <2> QED
    BY <1>7, <2>1, <2>2
<1> QED
  BY <1>10, <1>11, <1>12 DEF Switched

LEMMA BecomesSlots ==
  ASSUME Basic, NEW t \in Threads, NEW f, NEW g, Becomes(t, f, g), NEW o \in Objects,
         NEW n, n = Len(stack[t])
  PROVE  /\ n \in Nat \ {0} /\ \A i \in Slots(o) : Home[o] = t => i <= n
         /\ \A i : i \in Slots(o)' <=>
              IF Home[o] = t /\ i = n THEN Executes(g, o) ELSE i \in Slots(o)
         /\ Home[o] = t => /\ n \in Slots(o) <=> Executes(f, o)
                           /\ PrevOf(o, n) = f.prev /\ PrevOf(o, n)' = g.prev
         /\ \A i \in Slots(o) : Home[o] # t \/ i # n => PrevOf(o, i)' = PrevOf(o, i)
<1>1. PICK u : u = Home[o]
  OBVIOUS
<1>2. /\ n \in Nat \ {0} /\ n \in DOMAIN stack[t] /\ f = stack[t][n] /\ u \in Threads
      /\ DOMAIN stack'[u] = DOMAIN stack[u] /\ n \in DOMAIN stack'[t]
      /\ \A i \in DOMAIN stack[u] : stack'[u][i] = IF u = t /\ i = n THEN g ELSE stack[u][i]
      /\ stack'[t][n] = g
  BY <1>1, BecomesFrames, HomeTyped
<1>3. \A i : i \in Slots(o) <=> i \in DOMAIN stack[u] /\ Executes(stack[u][i], o)
  BY <1>1, SlotIs
<1>4. \A i : i \in Slots(o)' <=> i \in DOMAIN stack'[u] /\ Executes(stack'[u][i], o)
  BY <1>1 DEF Slots, Executes
<1>5. \A i \in Slots(o) : u = t => i <= n
  BY <1>1, SlotsTyped
<1>6. \A i : PrevOf(o, i) = stack[u][i].prev /\ PrevOf(o, i)' = stack'[u][i].prev
  BY <1>1 DEF PrevOf
<1> QED
  BY <1>1, <1>2, <1>3, <1>4, <1>5, <1>6

LEMMA EntersSlots ==
  ASSUME Basic, NEW t \in Threads, NEW g \in Frame, Enters(t, g), NEW o \in Objects,
         NEW n, n = Len(stack[t]) + 1
  PROVE  /\ n \in Nat \ {0} /\ \A i \in Slots(o) : Home[o] = t => i < n
         /\ \A i : i \in Slots(o)' <=> i \in Slots(o) \/ (Home[o] = t /\ i = n /\ Executes(g, o))
         /\ Home[o] = t => n \notin Slots(o) /\ PrevOf(o, n)' = g.prev
         /\ \A i \in Slots(o) : PrevOf(o, i)' = PrevOf(o, i)
<1>1. PICK u : u = Home[o]
  OBVIOUS
<1>2. /\ n \in Nat \ {0} /\ u \in Threads
      /\ DOMAIN stack[u] \subseteq DOMAIN stack'[u]
      /\ \A i \in DOMAIN stack[u] : stack'[u][i] = stack[u][i] /\ i <= Len(stack[u])
      /\ \A i \in DOMAIN stack'[u] :
           i \in DOMAIN stack[u] \/ (u = t /\ i = n /\ stack'[u][i] = g)
      /\ n \in DOMAIN stack'[t] /\ stack'[t][n] = g /\ n \notin DOMAIN stack[t]
  BY <1>1, EntersFrames, HomeTyped
<1>3. \A i : i \in Slots(o) <=> i \in DOMAIN stack[u] /\ Executes(stack[u][i], o)
  BY <1>1, SlotIs
<1>4. \A i : i \in Slots(o)' <=> i \in DOMAIN stack'[u] /\ Executes(stack'[u][i], o)
  BY <1>1 DEF Slots, Executes
<1>5. \A i \in Slots(o) : u = t => i < n
  <2> SUFFICES ASSUME NEW i \in Slots(o), u = t PROVE i < n
    OBVIOUS
  <2>1. Len(stack[t]) \in Nat
    BY EntersFrames
  <2>2. i \in Nat /\ i <= Len(stack[t])
    BY <1>1, SlotsTyped
  <2> QED
    BY <2>1, <2>2
<1>6. \A i : PrevOf(o, i) = stack[u][i].prev /\ PrevOf(o, i)' = stack'[u][i].prev
  BY <1>1 DEF PrevOf
<1> QED
  BY <1>1, <1>2, <1>3, <1>4, <1>5, <1>6

LEMMA ReturnsSlots ==
  ASSUME Basic, NEW t \in Threads, stack[t] # <<>>, Returns(t), NEW o \in Objects,
         NEW n, n = Len(stack[t])
  PROVE  /\ \A i \in Slots(o) : Home[o] = t => i <= n
         /\ \A i : i \in Slots(o)' <=> i \in Slots(o) /\ (Home[o] # t \/ i # n)
         /\ Home[o] = t => /\ n \in Slots(o) <=> Executes(Top(t), o)
                           /\ PrevOf(o, n) = Top(t).prev
         /\ \A i \in Slots(o) : i \in Slots(o)' => PrevOf(o, i)' = PrevOf(o, i)
<1>1. PICK u : u = Home[o]
  OBVIOUS
<1>2. /\ n \in DOMAIN stack[t] /\ Top(t) = stack[t][n] /\ u \in Threads
      /\ DOMAIN stack'[u] \subseteq DOMAIN stack[u]
      /\ \A i \in DOMAIN stack'[u] : stack'[u][i] = stack[u][i] /\ i \in DOMAIN stack[u]
      /\ \A i \in DOMAIN stack[u] : i \in DOMAIN stack'[u] \/ (u = t /\ i = n)
      /\ n \notin DOMAIN stack'[t]
  BY <1>1, ReturnsFrames, HomeTyped
<1>3. \A i : i \in Slots(o) <=> i \in DOMAIN stack[u] /\ Executes(stack[u][i], o)
  BY <1>1, SlotIs
<1>4. \A i : i \in Slots(o)' <=> i \in DOMAIN stack'[u] /\ Executes(stack'[u][i], o)
  BY <1>1 DEF Slots, Executes
<1>5. \A i \in Slots(o) : u = t => i <= n
  BY <1>1, SlotsTyped
<1>6. \A i : PrevOf(o, i) = stack[u][i].prev /\ PrevOf(o, i)' = stack'[u][i].prev
  BY <1>1 DEF PrevOf
<1>7. \A i : i \in Slots(o)' <=> i \in Slots(o) /\ (u # t \/ i # n)
  BY <1>2, <1>3, <1>4
<1>8. \A i \in Slots(o) : i \in Slots(o)' => PrevOf(o, i)' = PrevOf(o, i)
  BY <1>2, <1>4, <1>6
<1> QED
  BY <1>1, <1>2, <1>3, <1>5, <1>6, <1>7, <1>8

LEMMA SteadyIf ==
  ASSUME \A o \in Objects : /\ \A i : i \in Slots(o)' <=> i \in Slots(o)
                            /\ \A i \in Slots(o) : PrevOf(o, i)' = PrevOf(o, i)
  PROVE  Steady
<1>1. \A o \in Objects : Slots(o)' = Slots(o)
  OBVIOUS
<1> QED
  BY <1>1 DEF Steady, SamePrev

LEMMA SteadyBecomes ==
  ASSUME Basic, NEW t \in Threads, NEW f, NEW g, Becomes(t, f, g),
         \A o \in Objects : Executes(f, o) <=> Executes(g, o),
         \A o \in Objects : Executes(f, o) => g.prev = f.prev
  PROVE  Steady
<1> SUFFICES ASSUME NEW o \in Objects
             PROVE  /\ \A i : i \in Slots(o)' <=> i \in Slots(o)
                    /\ \A i \in Slots(o) : PrevOf(o, i)' = PrevOf(o, i)
  BY SteadyIf
<1>1. PICK n : n = Len(stack[t])
  OBVIOUS
<1>2. /\ \A i : i \in Slots(o)' <=>
              IF Home[o] = t /\ i = n THEN Executes(g, o) ELSE i \in Slots(o)
      /\ Home[o] = t => /\ n \in Slots(o) <=> Executes(f, o)
                        /\ PrevOf(o, n) = f.prev /\ PrevOf(o, n)' = g.prev
      /\ \A i \in Slots(o) : Home[o] # t \/ i # n => PrevOf(o, i)' = PrevOf(o, i)
  BY <1>1, BecomesSlots
<1> QED
  BY <1>2

LEMMA SteadyEnters ==
  ASSUME Basic, NEW t \in Threads, NEW g \in Frame, Enters(t, g), g.at = "begin"
  PROVE  Steady
<1> SUFFICES ASSUME NEW o \in Objects
             PROVE  /\ \A i : i \in Slots(o)' <=> i \in Slots(o)
                    /\ \A i \in Slots(o) : PrevOf(o, i)' = PrevOf(o, i)
  BY SteadyIf
<1>1. ~Executes(g, o)
  BY DEF Executes
<1> QED
  BY <1>1, EntersSlots

LEMMA SteadyReturns ==
  ASSUME Basic, NEW t \in Threads, stack[t] # <<>>, Returns(t),
         \A o \in Objects : ~Executes(Top(t), o)
  PROVE  Steady
<1> SUFFICES ASSUME NEW o \in Objects
             PROVE  /\ \A i : i \in Slots(o)' <=> i \in Slots(o)
                    /\ \A i \in Slots(o) : PrevOf(o, i)' = PrevOf(o, i)
  BY SteadyIf
<1>1. PICK n : n = Len(stack[t])
  OBVIOUS
<1>2. /\ \A i : i \in Slots(o)' <=> i \in Slots(o) /\ (Home[o] # t \/ i # n)
      /\ Home[o] = t => (n \in Slots(o) <=> Executes(Top(t), o))
      /\ \A i \in Slots(o) : i \in Slots(o)' => PrevOf(o, i)' = PrevOf(o, i)
  BY <1>1, ReturnsSlots
<1> QED
  BY <1>2

LEMMA SteadyStack ==
  ASSUME UNCHANGED stack
  PROVE  Steady
BY DEF Steady, SamePrev, Slots, PrevOf

\* Steps of calls that have no slots
LEMMA SteadySlotless ==
  ASSUME Basic, NEW t \in Threads, StepsOn(t), stack[t] # <<>>, Top(t).op \notin {"emit", "event"}
  PROVE  Steady
<1>1. \A o \in Objects : ~Executes(Top(t), o)
  BY DEF Executes
<1>2. CASE \E g : Becomes(t, Top(t), g)
  <2>1. PICK g : Becomes(t, Top(t), g)
    BY <1>2
  <2>2. \A o \in Objects : ~Executes(g, o)
    BY <2>1 DEF Becomes, Executes
  <2> QED
    BY <1>1, <2>1, <2>2, SteadyBecomes
<1> QED
  BY <1>1, <1>2, SteadyStack, SteadyReturns DEF StepsOn, Pops

LEMMA SamePastOf ==
  ASSUME IInv, NEW t \in Threads, Step(t) \/ UserCall(t), ~DeleteBegin(t)
  PROVE  SamePast
BY GoodImplies, PastNext DEF SamePast, IInv, Good

\* Who disconnects from another thread does not stand between an emission and
\* the receiver's destructor: both hold the mutex of the sender.
LEMMA ReceiverFound ==
  ASSUME IInv, NEW t \in Threads, At(t, "emit", "look"), NEW c, c = Top(t).conn, c \in Conns,
         ~Broken(c), NEW r \in Objects, r = conn[c].receiver, Home[r] = t
  PROVE  ~Past(r)
<1>1. PICK f : f = Top(t)
  OBVIOUS
<1>2. Basic /\ Walks /\ Linked /\ ListsShape /\ Data /\ Good
  BY DEF IInv, Good
<1>3. /\ stack[t] # <<>> /\ f.op = "emit" /\ f.at = "look" /\ FrameOK(t, f)
      /\ f.obj \in Objects /\ holder[MutexOf[f.obj]] = t
  BY <1>1, <1>2, AtTop, HoldsOwn
<1>4. f.sig \in Signals
  BY <1>3 DEF FrameOK, EmitFrame
<1>5. Listed(c, f.obj, f.sig)
  <2>1. c # None
    BY NoneElsewhere
  <2> QED
    BY <1>1, <1>2, <1>3, <2>1, WalksTop DEF WalkOK, LookOK
<1>6. ASSUME NEW u \in Threads, NEW i, ZeroingAt(c, u, i) PROVE FALSE
  <2>1. PICK h : h = Top(u)
    OBVIOUS
  <2>2. i \in DOMAIN stack[u] /\ stack[u][i].op = "disconnect" /\ stack[u][i].at = "zero"
        /\ stack[u][i].conn = c
    BY <1>6 DEF ZeroingAt
  <2>3. stack[u] # <<>> /\ h.op = "disconnect" /\ h.at = "zero" /\ h.conn = c
    BY <1>2, <2>1, <2>2, OnlyTop DEF Below
  <2>4. WantOK(h) /\ FrameOK(u, h)
    BY <1>2, <2>1, <2>3, TopOK
  <2>5. At(u, "disconnect", "zero")
    BY <2>1, <2>3, <2>4 DEF WantOK, At
  <2>6. h.obj \in Objects /\ holder[MutexOf[h.obj]] = u
    BY <1>2, <2>1, <2>5, HoldsOwn
  <2>7. c # None
    BY NoneElsewhere
  <2>8. h.sig \in Signals /\ Listed(c, h.obj, h.sig)
    BY <1>2, <2>1, <2>3, <2>4, <2>7, WalksTop DEF WalkOK, ScanOK, FrameOK, DisconnectFrame
  <2>9. h.obj = f.obj
    BY <1>2, <1>3, <1>4, <1>5, <2>6, <2>8 DEF Data, OnceListed
  <2> QED
    BY <1>1, <1>3, <2>1, <2>3, <2>6, <2>9
<1>7. c \in ToSet(senders[r])
  BY <1>2, <1>3, <1>4, <1>5, <1>6 DEF Linked
<1>8. life[r] # "dead"
  BY <1>2, <1>7, NoneWanted DEF ListsShape, ShapeOf
<1>9. ASSUME NEW i, Deleting(r, i), stack[t][i].at # "begin" PROVE FALSE
  <2>1. i \in DOMAIN stack[t] /\ stack[t][i].op = "delete"
    BY <1>9 DEF Deleting
  <2>2. stack[t][i].at # "slot"
    BY <1>2, <2>1, FramesOK DEF FrameOK, DeleteFrame
  <2>3. ~Below(stack[t][i])
    BY <1>9, <2>2 DEF Below
  <2> QED
    BY <1>1, <1>2, <1>3, <2>1, <2>3, OnlyTop
<1> QED
  BY <1>8, <1>9 DEF Past

LEMMA EmitLookSwitched ==
  ASSUME IInv, Switched, NEW t \in Threads, EmitLook(t)
  PROVE  Switched'
<1>1. Basic /\ SamePast
  <2>1. ~DeleteBegin(t)
    BY DEF EmitLook, DeleteBegin, At
  <2> QED
    BY <2>1, SamePastOf DEF IInv, Good, Step
<1>2. PICK g \in Frame :
           /\ Becomes(t, Top(t), g) /\ Top(t).op = "emit" /\ Top(t).at = "look"
           /\ Top(t).conn \in Conns
           /\ \/ /\ GoneOn(Top(t), g) /\ UNCHANGED switchers
                 /\ \/ Broken(Top(t).conn) /\ g.called = Top(t).called
                    \/ ~Broken(Top(t).conn) /\ g.called = Append(Top(t).called, Top(t).conn)
              \/ /\ g.at = "slot" /\ g.sig = Top(t).sig /\ g.conn = Top(t).conn
                 /\ g.last = Top(t).last /\ g.due = Top(t).due
                 /\ g.called = Append(Top(t).called, Top(t).conn)
                 /\ ~Broken(g.conn) /\ g.other = conn[g.conn].receiver /\ g.other \in Objects
                 /\ Home[g.other] = t /\ g.prev = currentSender[g.other] /\ UNCHANGED dropped
                 /\ currentSender' = [currentSender EXCEPT ![g.other] = Len(stack[t])]
  BY <1>1, EmitLookFrame
<1>3. PICK f : f = Top(t)
  OBVIOUS
<1>4. \A o \in Objects : ~Executes(f, o)
  BY <1>2, <1>3 DEF Executes
<1>5. CASE GoneOn(f, g) /\ UNCHANGED switchers
  <2>1. \A o \in Objects : ~Executes(g, o)
    BY <1>5 DEF GoneOn, Executes
  <2>2. Steady
    BY <1>1, <1>2, <1>3, <1>4, <2>1, SteadyBecomes
  <2> QED
    BY <1>1, <1>5, <2>2, SteadySwitched
<1>6. CASE /\ g.at = "slot" /\ ~Broken(g.conn) /\ g.conn = f.conn
           /\ g.other = conn[g.conn].receiver /\ g.other \in Objects
           /\ Home[g.other] = t /\ g.prev = currentSender[g.other] /\ dropped' = dropped
           /\ currentSender' = [currentSender EXCEPT ![g.other] = Len(stack[t])]
  <2>1. PICK r, n : r = g.other /\ n = Len(stack[t])
    OBVIOUS
  <2>2. r \in Objects /\ Home[r] = t
    BY <1>6, <2>1
  <2>3. ~Past(r)
    <3>1. At(t, "emit", "look")
      BY DEF EmitLook
    <3> QED
      BY <1>2, <1>3, <1>6, <2>1, <2>2, <3>1, ReceiverFound
  <2>4. \A o \in Objects : Executes(g, o) <=> o = r
    BY <1>2, <1>6, <2>1 DEF Executes, ReceiverOf, Becomes
  <2>5. \A o \in Objects :
           /\ n \in Nat \ {0} /\ \A i \in Slots(o) : Home[o] = t => i <= n
           /\ \A i : i \in Slots(o)' <=>
                IF Home[o] = t /\ i = n THEN Executes(g, o) ELSE i \in Slots(o)
           /\ Home[o] = t => /\ n \in Slots(o) <=> Executes(f, o)
                             /\ PrevOf(o, n)' = g.prev
           /\ \A i \in Slots(o) : Home[o] # t \/ i # n => PrevOf(o, i)' = PrevOf(o, i)
    BY <1>1, <1>2, <1>3, <2>1, BecomesSlots
  <2>6. \A o \in Objects : Home[o] = t => n \notin Slots(o)
    BY <1>4, <2>5
  <2>7. SamePrev
    BY <2>5, <2>6 DEF SamePrev
  <2>8. \A i : i \in Slots(r)' <=> i \in Slots(r) \/ i = n
    BY <2>2, <2>4, <2>5
  <2>9. \A o \in Objects : o # r => Slots(o)' = Slots(o)
    <3> SUFFICES ASSUME NEW o \in Objects, o # r PROVE \A i : i \in Slots(o)' <=> i \in Slots(o)
      OBVIOUS
    <3> QED
      BY <2>4, <2>5, <2>6
  <2>10. n \in Nat \ {0} /\ PrevOf(r, n)' = currentSender[r] /\ \A i \in Slots(r) : i < n
    <3>1. \A i \in Slots(r) : i \in Nat /\ i <= n /\ i # n
      BY <1>1, <2>2, <2>5, <2>6, SlotsTyped
    <3>2. n \in Nat \ {0} /\ PrevOf(r, n)' = g.prev
      BY <2>2, <2>5
    <3> QED
      BY <1>6, <2>1, <3>1, <3>2
  <2>11. currentSender' = [currentSender EXCEPT ![r] = n] /\ dropped' = dropped
    BY <1>6, <2>1
  <2>12. \A o \in Objects : Home[o] = Home[r] => n \notin Slots(o)
    BY <2>2, <2>6
  <2> QED
    BY <1>1, <2>2, <2>3, <2>7, <2>8, <2>9, <2>10, <2>11, <2>12, SwitchesIn
<1> QED
  BY <1>2, <1>3, <1>5, <1>6

LEMMA DeliverSwitched ==
  ASSUME IInv, Switched, NEW t \in Threads, NEW r \in Objects, Deliver(t, r)
  PROVE  Switched'
<1>1. Basic /\ SamePast /\ LifeOK
  <2>1. UserCall(t)
    BY DEF UserCall
  <2>2. ~DeleteBegin(t)
    BY DEF Deliver, InUserCode, DeleteBegin, At
  <2> QED
    BY <2>1, <2>2, SamePastOf DEF IInv, Good
<1>2. PICK g \in Frame : /\ Enters(t, g) /\ g.op = "event" /\ g.at = "slot" /\ g.obj = r
                         /\ g.prev = currentSender[r] /\ g.conn = None /\ g.called = g.due
  BY <1>1, DeliverBasic
<1>3. PICK n : n = Len(stack[t]) + 1
  OBVIOUS
<1>4. Home[r] = t /\ life[r] = "alive" /\ currentSender' = [currentSender EXCEPT ![r] = n]
      /\ dropped' = dropped
  BY <1>3 DEF Deliver
<1>5. ~Past(r)
  BY <1>1, <1>4 DEF LifeOK, Past
<1>6. \A o \in Objects : Executes(g, o) <=> o = r
  BY <1>2 DEF Executes, ReceiverOf
<1>7. \A o \in Objects :
         /\ n \in Nat \ {0} /\ \A i \in Slots(o) : Home[o] = t => i < n
         /\ \A i : i \in Slots(o)' <=> i \in Slots(o) \/ (Home[o] = t /\ i = n /\ Executes(g, o))
         /\ Home[o] = t => n \notin Slots(o) /\ PrevOf(o, n)' = g.prev
         /\ \A i \in Slots(o) : PrevOf(o, i)' = PrevOf(o, i)
  BY <1>1, <1>2, <1>3, EntersSlots
<1>8. SamePrev
  BY <1>7 DEF SamePrev
<1>9. \A i : i \in Slots(r)' <=> i \in Slots(r) \/ i = n
  BY <1>4, <1>6, <1>7
<1>10. \A o \in Objects : o # r => Slots(o)' = Slots(o)
  <2> SUFFICES ASSUME NEW o \in Objects, o # r PROVE \A i : i \in Slots(o)' <=> i \in Slots(o)
    OBVIOUS
  <2> QED
    BY <1>6, <1>7
<1>11. n \in Nat \ {0} /\ PrevOf(r, n)' = currentSender[r] /\ \A i \in Slots(r) : i < n
  BY <1>2, <1>4, <1>7
<1>12. \A o \in Objects : Home[o] = Home[r] => n \notin Slots(o)
  BY <1>4, <1>7
<1> QED
  BY <1>1, <1>4, <1>5, <1>8, <1>9, <1>10, <1>11, <1>12, SwitchesIn

LEMMA EmitResumeSwitched ==
  ASSUME IInv, Switched, NEW t \in Threads, EmitResume(t)
  PROVE  Switched'
<1>1. Basic /\ SamePast
  <2>1. ~DeleteBegin(t)
    BY DEF EmitResume, DeleteBegin, At
  <2> QED
    BY <2>1, SamePastOf DEF IInv, Good, Step
<1>2. PICK f, n, r : f = Top(t) /\ n = Len(stack[t]) /\ r = f.other
  OBVIOUS
<1>3. PICK g \in Frame : Becomes(t, f, g) /\ g.at = "look"
  BY <1>1, <1>2, EmitResumeFrame
<1>4. /\ stack[t] # <<>> /\ FrameOK(t, f) /\ f.op = "emit" /\ f.at = "relock"
  BY <1>1, <1>2, AtTop DEF EmitResume
<1>5. r \in Objects /\ Home[r] = t
  BY <1>2, <1>4 DEF FrameOK, EmitFrame
<1>6. SlotEnd(t, r)
  BY <1>2 DEF EmitResume
<1>7. \A o \in Objects : ~Executes(g, o) /\ (Executes(f, o) <=> o = r)
  BY <1>2, <1>3, <1>4 DEF Executes, ReceiverOf
<1>8. \A o \in Objects :
         /\ \A i \in Slots(o) : Home[o] = t => i <= n
         /\ \A i : i \in Slots(o)' <=>
              IF Home[o] = t /\ i = n THEN Executes(g, o) ELSE i \in Slots(o)
         /\ Home[o] = t => (n \in Slots(o) <=> Executes(f, o)) /\ PrevOf(o, n) = f.prev
         /\ \A i \in Slots(o) : Home[o] # t \/ i # n => PrevOf(o, i)' = PrevOf(o, i)
  BY <1>1, <1>2, <1>3, BecomesSlots
<1>9. SamePrev
  BY <1>7, <1>8 DEF SamePrev
<1>10. n \in Slots(r) /\ \A i \in Slots(r) : i <= n
  BY <1>5, <1>7, <1>8
<1>11. \A i : i \in Slots(r)' <=> i \in Slots(r) /\ i # n
  BY <1>5, <1>7, <1>8
<1>12. \A o \in Objects : o # r => Slots(o)' = Slots(o)
  <2> SUFFICES ASSUME NEW o \in Objects, o # r PROVE \A i : i \in Slots(o)' <=> i \in Slots(o)
    OBVIOUS
  <2> QED
    BY <1>7, <1>8
<1>13. PICK p : p = PrevOf(r, n)
  OBVIOUS
<1>14. p = f.prev
  BY <1>5, <1>8, <1>13
<1>15. /\ currentSender' = (IF n \in dropped[Home[r]] THEN currentSender
                            ELSE [currentSender EXCEPT ![r] = p])
       /\ dropped' = [dropped EXCEPT ![Home[r]] = (@ \ {n, p}) \cup Told(Home[r], n, p)]
  BY <1>2, <1>5, <1>6, <1>14 DEF SlotEnd
<1> QED
  BY <1>1, <1>5, <1>9, <1>10, <1>11, <1>12, <1>13, <1>15, SwitchesOut

LEMMA DeliverEndSwitched ==
  ASSUME IInv, Switched, NEW t \in Threads, DeliverEnd(t)
  PROVE  Switched'
<1>1. Basic /\ SamePast
  <2>1. ~DeleteBegin(t)
    BY DEF DeliverEnd, DeleteBegin, At
  <2> QED
    BY <2>1, SamePastOf DEF IInv, Good, Step
<1>2. PICK f, n, r : f = Top(t) /\ n = Len(stack[t]) /\ r = f.obj
  OBVIOUS
<1>3. /\ stack[t] # <<>> /\ FrameOK(t, f) /\ f.op = "event" /\ f.at = "slot" /\ f \in Frame
  BY <1>1, <1>2, AtTop DEF DeliverEnd
<1>4. r \in Objects /\ Home[r] = t
  BY <1>2, <1>3, FrameTyped DEF FrameOK, EventFrame
<1>5. SlotEnd(t, r) /\ Returns(t)
  BY <1>2 DEF DeliverEnd
<1>6. \A o \in Objects : Executes(f, o) <=> o = r
  BY <1>2, <1>3 DEF Executes, ReceiverOf
<1>7. \A o \in Objects :
         /\ \A i \in Slots(o) : Home[o] = t => i <= n
         /\ \A i : i \in Slots(o)' <=> i \in Slots(o) /\ (Home[o] # t \/ i # n)
         /\ Home[o] = t => (n \in Slots(o) <=> Executes(f, o)) /\ PrevOf(o, n) = f.prev
         /\ \A i \in Slots(o) : i \in Slots(o)' => PrevOf(o, i)' = PrevOf(o, i)
  BY <1>1, <1>2, <1>3, <1>5, ReturnsSlots
<1>8. SamePrev
  BY <1>7 DEF SamePrev
<1>9. n \in Slots(r) /\ \A i \in Slots(r) : i <= n
  BY <1>4, <1>6, <1>7
<1>10. \A i : i \in Slots(r)' <=> i \in Slots(r) /\ i # n
  BY <1>4, <1>7
<1>11. \A o \in Objects : o # r => Slots(o)' = Slots(o)
  <2> SUFFICES ASSUME NEW o \in Objects, o # r PROVE \A i : i \in Slots(o)' <=> i \in Slots(o)
    OBVIOUS
  <2> QED
    BY <1>6, <1>7
<1>12. PICK p : p = PrevOf(r, n)
  OBVIOUS
<1>13. p = f.prev
  BY <1>4, <1>7, <1>12
<1>14. /\ currentSender' = (IF n \in dropped[Home[r]] THEN currentSender
                            ELSE [currentSender EXCEPT ![r] = p])
       /\ dropped' = [dropped EXCEPT ![Home[r]] = (@ \ {n, p}) \cup Told(Home[r], n, p)]
  BY <1>2, <1>4, <1>5, <1>13 DEF SlotEnd
<1> QED
  BY <1>1, <1>4, <1>8, <1>9, <1>10, <1>11, <1>12, <1>14, SwitchesOut

LEMMA DeleteBeginSwitched ==
  ASSUME IInv, Switched, NEW t \in Threads, DeleteBegin(t)
  PROVE  Switched'
<1>1. Basic /\ LifeOK /\ SendersKnown
  BY GoodImplies DEF IInv, Good
<1>2. PICK f, n, o : f = Top(t) /\ n = Len(stack[t]) /\ o = f.obj
  OBVIOUS
<1>3. PICK g \in Frame :
           /\ Becomes(t, f, g) /\ f.op = "delete" /\ f.at = "begin"
           /\ g.at = "lists" \/ g.at = "free"
  BY <1>1, <1>2, DeleteBeginFrame
<1>4. PICK s : s = currentSender[o]
  OBVIOUS
<1>5. /\ stack[t] # <<>> /\ o \in Objects /\ Home[o] = t /\ life' = life
      /\ dropped' = [dropped EXCEPT ![t] = @ \cup ({s} \ {0})]
      /\ currentSender' = [currentSender EXCEPT ![o] = 0]
  <2>1. At(t, "delete", "begin")
    BY DEF DeleteBegin
  <2>2. /\ dropped' = [dropped EXCEPT ![t] = @ \cup ({s} \ {0})] /\ life' = life
        /\ currentSender' = [currentSender EXCEPT ![o] = 0]
    BY <1>2, <1>4 DEF DeleteBegin
  <2> QED
    BY <1>1, <1>2, <2>1, <2>2, ReturnsFrame DEF FrameOK, DeleteFrame
<1>6. /\ n \in DOMAIN stack[t] /\ stack[t][n] = f
      /\ n \in DOMAIN stack'[t] /\ stack'[t][n] = g
  BY <1>1, <1>2, <1>3, BecomesFrames
<1>7. g.op = "delete" /\ g.obj = o
  BY <1>2, <1>3 DEF Becomes
<1>8. Past(o)'
  BY <1>3, <1>5, <1>6, <1>7 DEF Past, Deleting
<1>9. ~Past(o)
  <2>1. Deleting(o, n)
    BY <1>2, <1>3, <1>5, <1>6 DEF Deleting
  <2>2. life[o] = "dying" /\ \A i : Deleting(o, i) => i = n
    BY <1>1, <1>5, <2>1 DEF LifeOK
  <2> QED
    BY <1>3, <1>5, <1>6, <2>2 DEF Past
<1>10. \A p \in Objects : p # o => (Past(p)' <=> Past(p))
  BY <1>1, <1>2, PastNext DEF Step
<1>11. Steady
  <2>1. \A p \in Objects : ~Executes(f, p) /\ ~Executes(g, p)
    BY <1>3, <1>7 DEF Executes
  <2> QED
    BY <1>1, <1>3, <2>1, SteadyBecomes
<1>12. SwitchedAt(o) /\ Greatest(Slots(o), s) /\ \A i \in Slots(o) : i \in Nat \ {0}
  BY <1>1, <1>4, <1>5, <1>9, SlotsTyped DEF Switched, SwitchedAt
<1>13. /\ dropped'[t] = dropped[t] \cup ({s} \ {0})
       /\ \A u \in Threads : u # t => dropped'[u] = dropped[u]
       /\ currentSender'[o] = 0
       /\ \A p \in Objects : p # o => currentSender'[p] = currentSender[p]
  BY <1>1, <1>5 DEF Basic, Typed
<1>14. \A p \in Objects : /\ Slots(p)' = Slots(p)
                          /\ \A i \in Slots(p) : PrevOf(p, i)' = PrevOf(p, i)
  BY <1>11 DEF Steady, SamePrev
<1>15. ASSUME NEW p \in Objects, p # o PROVE SwitchedAt(p)'
  <2>1. SwitchedAt(p) /\ (Past(p)' <=> Past(p)) /\ Home[p] \in Threads
    BY <1>10, <1>15, HomeTyped DEF Switched
  <2>2. ASSUME NEW i \in Slots(p) PROVE i \in dropped'[Home[p]] <=> i \in dropped[Home[p]]
    <3>1. CASE Home[p] = t
      <4>1. i \notin Slots(o)
        BY <1>5, <1>15, <3>1, OneSlot
      <4>2. i # s \/ s = 0
        BY <1>12, <4>1 DEF Greatest
      <4> QED
        BY <1>13, <3>1, <4>2
    <3>2. CASE Home[p] # t
      BY <1>13, <2>1, <3>2
    <3> QED
      BY <3>1, <3>2
  <2>3. \A i \in Slots(p)' : i \in dropped'[Home[p]] <=> Past(p)' /\ \A j \in Slots(p)' : j <= i
    BY <1>14, <2>1, <2>2 DEF SwitchedAt
  <2>4. \A i \in Slots(p)' : Greatest(Under(Slots(p)', i), PrevOf(p, i)')
    BY <1>14, <2>1 DEF SwitchedAt
  <2> QED
    BY <1>13, <1>14, <1>15, <2>1, <2>3, <2>4 DEF SwitchedAt
<1>16. SwitchedAt(o)'
  <2>1. \A i \in Slots(o)' : Greatest(Under(Slots(o)', i), PrevOf(o, i)')
    BY <1>5, <1>12, <1>14 DEF SwitchedAt
  <2>2. ASSUME NEW i \in Slots(o)
        PROVE  i \in dropped'[t] <=> \A j \in Slots(o) : j <= i
    <3>1. i \notin dropped[t] /\ i \in Nat \ {0}
      BY <1>5, <1>9, <1>12 DEF SwitchedAt
    <3>2. i \in dropped'[t] <=> i = s
      BY <1>13, <3>1
    <3>3. s \in Slots(o) /\ s \in Nat /\ \A j \in Slots(o) : j <= s
      BY <1>12 DEF Greatest
    <3> QED
      BY <1>12, <3>1, <3>2, <3>3
  <2> QED
    BY <1>5, <1>8, <1>13, <1>14, <2>1, <2>2 DEF SwitchedAt
<1>17. DroppedSlots'
  <2> SUFFICES ASSUME NEW u \in Threads, NEW i \in dropped'[u]
               PROVE  \E p \in Objects : Home[p] = u /\ i \in Slots(p)'
    BY DEF DroppedSlots
  <2>1. CASE i \in dropped[u]
    BY <1>14, <2>1 DEF Switched, DroppedSlots
  <2>2. CASE u = t /\ i = s /\ s # 0
    BY <1>5, <1>12, <1>14, <2>2 DEF Greatest
  <2> QED
    BY <1>13, <2>1, <2>2
<1> QED
  BY <1>15, <1>16, <1>17 DEF Switched

\* The steps of a call other than those that begin and end slots
LEMMA SteadySteps ==
  ASSUME IInv, NEW t \in Threads, Step(t), ~EmitLook(t), ~EmitResume(t), ~DeliverEnd(t),
         ~DeleteBegin(t)
  PROVE  Steady /\ UNCHANGED switchers
<1>1. Basic /\ SendersKnown
  BY GoodImplies DEF IInv, Good
<1>2. CASE Lock(t)
  <2>1. PICK g \in Frame : Becomes(t, Top(t), g) /\ Alike(Top(t), g)
    BY <1>1, <1>2, LockFrame
  <2>2. \A o \in Objects : Executes(Top(t), o) <=> Executes(g, o)
    BY <2>1 DEF Alike, Executes, ReceiverOf
  <2>3. g.prev = Top(t).prev
    BY <2>1 DEF Alike
  <2> QED
    BY <1>1, <1>2, <2>1, <2>2, <2>3, SteadyBecomes DEF Lock
<1>3. CASE EmitBegin(t)
  <2>1. stack[t] # <<>> /\ Top(t).op = "emit" /\ Top(t).at = "begin"
    BY <1>1, <1>3, ReturnsFrame DEF EmitBegin
  <2>2. \A o \in Objects : ~Executes(Top(t), o)
    BY <2>1 DEF Executes
  <2>3. CASE lists[Top(t).obj].at = "none"
    BY <1>1, <1>3, <2>1, <2>2, <2>3, SteadyReturns DEF EmitBegin
  <2>4. CASE lists[Top(t).obj].at # "none"
    <3>1. PICK g \in Frame : Becomes(t, Top(t), g) /\ g.at = "look"
      BY <1>1, <1>3, <2>4, EmitBeginFrame
    <3>2. \A o \in Objects : ~Executes(g, o)
      BY <3>1 DEF Executes
    <3> QED
      BY <1>1, <1>3, <2>2, <3>1, <3>2, SteadyBecomes DEF EmitBegin
  <2> QED
    BY <2>3, <2>4
<1>4. CASE SlotReturn(t)
  <2>1. PICK g \in Frame :
           /\ Becomes(t, Top(t), g) /\ Top(t).op = "emit" /\ Top(t).at = "slot"
           /\ g.at = "relock" /\ g.other = Top(t).other /\ g.prev = Top(t).prev
    BY <1>1, <1>4, SlotReturnFrame
  <2>2. \A o \in Objects : Executes(Top(t), o) <=> Executes(g, o)
    BY <2>1 DEF Becomes, Executes, ReceiverOf
  <2> QED
    BY <1>1, <1>4, <2>1, <2>2, SteadyBecomes DEF SlotReturn
<1>5. CASE EmitEnd(t)
  <2>1. stack[t] # <<>> /\ Top(t).at = "look" /\ Returns(t)
    BY <1>1, <1>5, ReturnsFrame DEF EmitEnd
  <2>2. \A o \in Objects : ~Executes(Top(t), o)
    BY <2>1 DEF Executes
  <2> QED
    BY <1>1, <1>5, <2>1, <2>2, SteadyReturns DEF EmitEnd
<1>6. CASE DeleteEnd(t)
  <2>1. stack[t] # <<>> /\ Top(t).at = "free" /\ Returns(t)
    BY <1>1, <1>6, ReturnsFrame DEF DeleteEnd
  <2>2. \A o \in Objects : ~Executes(Top(t), o)
    BY <2>1 DEF Executes
  <2> QED
    BY <1>1, <1>6, <2>1, <2>2, SteadyReturns DEF DeleteEnd
<1>7. CASE ConnectEnd(t)
  <2>1. stack[t] # <<>> /\ Top(t).op = "connect" /\ UNCHANGED switchers /\ StepsOn(t)
    BY <1>1, <1>7, StepMoves DEF ConnectEnd, At, Step, DeleteEnd
  <2> QED
    BY <1>1, <2>1, SteadySlotless
<1>8. CASE DisconnectBegin(t) \/ DisconnectList(t) \/ DisconnectScan(t) \/ DisconnectUnlink(t)
           \/ DisconnectZero(t) \/ DisconnectEnd(t)
  <2>1. stack[t] # <<>> /\ Top(t).op = "disconnect" /\ UNCHANGED switchers
    BY <1>8 DEF DisconnectBegin, DisconnectList, DisconnectScan, DisconnectUnlink, DisconnectZero,
       DisconnectEnd, At
  <2>2. ~DeleteEnd(t)
    BY <2>1 DEF DeleteEnd, At
  <2>3. StepsOn(t)
    BY <1>1, <2>2, StepMoves
  <2> QED
    BY <1>1, <2>1, <2>3, SteadySlotless
<1>9. CASE (DeleteLists(t) \/ DeleteReceivers(t) \/ DeleteUnlink(t) \/ DeleteListsEnd(t)
            \/ DeleteSenders(t) \/ DeleteNode(t)) /\ ~DeleteEnd(t)
  <2>1. stack[t] # <<>> /\ Top(t).op = "delete" /\ UNCHANGED switchers
    BY <1>9 DEF DeleteLists, DeleteReceivers, DeleteUnlink, DeleteListsEnd, DeleteSenders,
       DeleteNode, At
  <2>2. StepsOn(t)
    BY <1>1, <1>9, StepMoves
  <2> QED
    BY <1>1, <2>1, <2>2, SteadySlotless
<1> QED
  BY <1>2, <1>3, <1>4, <1>5, <1>6, <1>7, <1>8, <1>9 DEF Step

\* The calls of user code other than the delivery of a queued call
LEMMA SteadyCalls ==
  ASSUME IInv, NEW t \in Threads, UserCall(t), \A o \in Objects : ~Deliver(t, o)
  PROVE  Steady /\ UNCHANGED switchers
<1>1. Basic /\ LifeOK
  BY DEF IInv, Good
<1>2. ASSUME NEW s \in Objects, NEW g \in Signals, EmitCall(t, s, g)
      PROVE  Steady /\ UNCHANGED switchers
  BY <1>1, <1>2, EmitCallBasic, SteadyEnters DEF EmitCall
<1>3. ASSUME NEW s \in Objects, NEW r \in Objects, NEW g \in Signals, ConnectCall(t, s, r, g)
      PROVE  Steady /\ UNCHANGED switchers
  BY <1>1, <1>3, ConnectCallBasic, SteadyEnters DEF ConnectCall
<1>4. ASSUME NEW s \in Objects, NEW r \in Objects \cup {None}, NEW g \in Scopes,
             DisconnectCall(t, s, r, g)
      PROVE  Steady /\ UNCHANGED switchers
  BY <1>1, <1>4, DisconnectCallBasic, SteadyEnters DEF DisconnectCall
<1>5. ASSUME NEW o \in Objects, DeleteCall(t, o) PROVE Steady /\ UNCHANGED switchers
  <2> DEFINE n == Len(stack[t])
  <2>1. /\ \A u \in Threads :
              /\ DOMAIN stack[u] \subseteq DOMAIN stack'[u]
              /\ \A i \in DOMAIN stack[u] : stack'[u][i] = stack[u][i]
              /\ \A i \in DOMAIN stack'[u] :
                   \/ i \in DOMAIN stack[u]
                   \/ u = t /\ i = n + 1
                   \/ u = t /\ stack'[u][i].op = "emit" /\ stack'[u][i].at = "begin"
        /\ stack'[t][n + 1].op = "delete"
    BY <1>1, <1>5, DeleteCallFrames
  <2> SUFFICES ASSUME NEW p \in Objects
               PROVE  /\ \A i : i \in Slots(p)' <=> i \in Slots(p)
                      /\ \A i \in Slots(p) : PrevOf(p, i)' = PrevOf(p, i)
    BY <1>5, SteadyIf DEF DeleteCall
  <2>2. PICK u : u = Home[p]
    OBVIOUS
  <2>3. /\ DOMAIN stack[u] \subseteq DOMAIN stack'[u]
        /\ \A i \in DOMAIN stack[u] : stack'[u][i] = stack[u][i]
        /\ \A i \in DOMAIN stack'[u] : i \in DOMAIN stack[u] \/ ~Executes(stack'[u][i], p)
    BY <2>1, <2>2, HomeTyped DEF Executes
  <2>4. \A i : i \in Slots(p) <=> i \in DOMAIN stack[u] /\ Executes(stack[u][i], p)
    BY <2>2, SlotIs
  <2>5. \A i : i \in Slots(p)' <=> i \in DOMAIN stack'[u] /\ Executes(stack'[u][i], p)
    BY <2>2 DEF Slots, Executes
  <2>6. \A i : PrevOf(p, i) = stack[u][i].prev /\ PrevOf(p, i)' = stack'[u][i].prev
    BY <2>2 DEF PrevOf
  <2> QED
    BY <2>3, <2>4, <2>5, <2>6
<1>6. ASSUME NEW c \in Conns, DropHandle(t, c) \/ DisconnectHandle(t, c)
      PROVE  Steady /\ UNCHANGED switchers
  BY <1>6, SteadyStack DEF DropHandle, DisconnectHandle
<1> QED
  BY <1>2, <1>3, <1>4, <1>5, <1>6 DEF UserCall

LEMMA SwitchedNext ==
  ASSUME IInv, Switched, NEW t \in Threads, Step(t) \/ UserCall(t)
  PROVE  Switched'
<1>1. CASE EmitLook(t) \/ EmitResume(t) \/ DeliverEnd(t) \/ DeleteBegin(t)
  BY <1>1, EmitLookSwitched, EmitResumeSwitched, DeliverEndSwitched, DeleteBeginSwitched
<1>2. CASE \E o \in Objects : Deliver(t, o)
  BY <1>2, DeliverSwitched
<1>3. CASE ~DeleteBegin(t) /\ Steady /\ UNCHANGED switchers
  BY <1>3, SamePastOf, SteadySwitched
<1>4. CASE /\ ~EmitLook(t) /\ ~EmitResume(t) /\ ~DeliverEnd(t) /\ ~DeleteBegin(t)
           /\ \A o \in Objects : ~Deliver(t, o)
  BY <1>3, <1>4, SteadySteps, SteadyCalls
<1> QED
  BY <1>1, <1>2, <1>4

LEMMA SwitchedStutters ==
  ASSUME IInv, Switched, UNCHANGED vars
  PROVE  Switched'
<1>1. UNCHANGED <<stack, life>> /\ UNCHANGED switchers
  BY DEF vars, switchers
<1>2. SamePast
  BY <1>1 DEF SamePast, Past, Deleting
<1> QED
  BY <1>1, <1>2, SteadyStack, SteadySwitched

LEMMA InitSwitched ==
  ASSUME Init
  PROVE  Switched
<1>1. /\ stack = [t \in Threads |-> <<>>] /\ life = [o \in Objects |-> "alive"]
      /\ currentSender = [o \in Objects |-> 0] /\ dropped = [t \in Threads |-> {}]
  BY DEF Init
<1>2. ASSUME NEW o \in Objects PROVE SwitchedAt(o)
  <2>1. stack[Home[o]] = <<>>
    BY <1>1, HomeTyped
  <2>2. DOMAIN stack[Home[o]] = {}
    BY <2>1
  <2>3. Slots(o) = {} /\ ~Past(o)
    BY <1>1, <2>2 DEF Slots, Past, Deleting
  <2> QED
    BY <1>1, <2>3 DEF SwitchedAt, Greatest
<1>3. DroppedSlots
  BY <1>1 DEF DroppedSlots
<1> QED
  BY <1>2, <1>3 DEF Switched

\* The slots of an object have an innermost.
LEMMA InnermostSlot ==
  ASSUME Basic, NEW o \in Objects, Slots(o) # {}
  PROVE  \E i \in Slots(o) : \A j \in Slots(o) : j <= i
<1>1. PICK n : n = Len(stack[Home[o]])
  OBVIOUS
<1>2. \A i \in Slots(o) : i \in Nat /\ i <= n
  BY <1>1, SlotsTyped
<1>3. n \in Nat
  BY <1>1, HomeTyped DEF Basic, Typed
<1> DEFINE Above == {n - i : i \in Slots(o)}
<1>4. Above \in SUBSET Nat /\ Above # {}
  BY <1>2, <1>3
<1>5. PICK x \in Above : \A y \in Above : x <= y
  BY <1>4, LeastNumber
<1>6. PICK i \in Slots(o) : x = n - i
  BY <1>5
<1>7. \A j \in Slots(o) : n - i <= n - j
  BY <1>5, <1>6
<1> QED
  BY <1>2, <1>3, <1>6, <1>7

LEMMA SwitchedTop ==
  ASSUME IInv, Switched
  PROVE  CurrentSenderIsTop
<1>1. Basic /\ LifeOK
  BY DEF IInv, Good
<1>2. ASSUME NEW o \in Objects, NEW top, top = CHOOSE i \in Slots(o) : \A j \in Slots(o) : j <= i
      PROVE  IF Slots(o) = {} THEN life[o] = "alive" => currentSender[o] = 0
             ELSE /\ life[o] = "alive" => currentSender[o] = top
                  /\ life[o] = "dead" => top \in dropped[Home[o]]
  <2>1. SwitchedAt(o)
    BY DEF Switched
  <2>2. life[o] = "alive" => ~Past(o)
    BY <1>1 DEF LifeOK, Past
  <2>3. life[o] = "alive" => Greatest(Slots(o), currentSender[o])
    BY <2>1, <2>2 DEF SwitchedAt
  <2>4. CASE Slots(o) = {}
    BY <2>3, <2>4 DEF Greatest
  <2>5. CASE Slots(o) # {}
    <3>1. top \in Slots(o) /\ \A j \in Slots(o) : j <= top
      BY <1>1, <1>2, <2>5, InnermostSlot
    <3>2. \A i \in Slots(o) : i \in Nat
      BY <1>1, SlotsTyped
    <3>3. ASSUME life[o] = "alive" PROVE currentSender[o] = top
      BY <2>3, <2>5, <3>1, <3>2, <3>3 DEF Greatest
    <3>4. life[o] = "dead" => Past(o)
      BY DEF Past
    <3>5. life[o] = "dead" => top \in dropped[Home[o]]
      BY <2>1, <3>1, <3>4 DEF SwitchedAt
    <3> QED
      BY <2>5, <3>3, <3>5
  <2> QED
    BY <2>4, <2>5
<1> QED
  BY <1>2 DEF CurrentSenderIsTop

\* QObject::sender in a slot: while an object is alive its currentSender is that
\* of its innermost slot, however its slots are nested, by direct and by queued
\* calls; when it has been deleted in them, the innermost Sender has ref 0, so
\* that no QConnectionSenderSwitcher writes to the object.
THEOREM InnermostSender ==
  Spec => []CurrentSenderIsTop
<1>1. IInv /\ Switched /\ [Next]_vars => Switched'
  BY SwitchedNext, SwitchedStutters DEF Next
<1> QED
  BY <1>1, InitSwitched, SwitchedTop, Invariance, PTL DEF Spec

-----------------------------------------------------------------------------
(* More of what Without computes: the order of what it leaves.             *)

KeptBy(k, s, S) ==
  /\ k[0] = <<>>
  /\ \A n \in Nat : n + 1 <= Len(s) =>
       k[n + 1] = IF s[n + 1] \in S THEN k[n] ELSE Append(k[n], s[n + 1])

LEMMA WithoutKept ==
  ASSUME NEW A, NEW s \in Seq(A), NEW S
  PROVE  \E k \in [0 .. Len(s) -> Seq(A)] : KeptBy(k, s, S) /\ Without(s, S) = k[Len(s)]
<1>1. PICK k \in [0 .. Len(s) -> Seq(A)] : Keeps(k, s, S) /\ Without(s, S) = k[Len(s)]
  BY WithoutKeeps
<1>2. Len(s) \in Nat
  OBVIOUS
<1>3. k[0] = <<>>
  BY <1>1, <1>2, KeepsAt
<1>4. \A n \in Nat : n + 1 <= Len(s) =>
        k[n + 1] = IF s[n + 1] \in S THEN k[n] ELSE Append(k[n], s[n + 1])
  BY <1>1, <1>2, KeepsAt
<1>5. KeptBy(k, s, S)
  BY <1>3, <1>4 DEF KeptBy
<1> QED
  BY <1>1, <1>5

LEMMA WithoutNone ==
  ASSUME NEW A, NEW s \in Seq(A), NEW S, \A x \in A : x \notin S
  PROVE  Without(s, S) = s
<1>1. PICK k \in [0 .. Len(s) -> Seq(A)] : KeptBy(k, s, S) /\ Without(s, S) = k[Len(s)]
  BY WithoutKept
<1>2. Len(s) \in Nat
  OBVIOUS
<1> DEFINE Same(n) == Len(k[n]) = n /\ \A i \in 1 .. n : k[n][i] = s[i]
           Reach == {n \in Nat : n <= Len(s) => Same(n)}
<1>3. 0 \in Reach
  BY <1>1 DEF KeptBy
<1>4. ASSUME NEW n \in Nat, n \in Reach PROVE n + 1 \in Reach
  <2> SUFFICES ASSUME n + 1 <= Len(s) PROVE Same(n + 1)
    OBVIOUS
  <2>1. Same(n) /\ s[n + 1] \in A
    BY <1>2, <1>4
  <2>2. k[n] \in Seq(A)
    BY <1>2
  <2>3. k[n + 1] = Append(k[n], s[n + 1])
    BY <1>1, <2>1 DEF KeptBy
  <2> QED
    BY <2>1, <2>2, <2>3
<1> HIDE DEF Reach
<1>5. \A n \in Nat : n \in Reach
  BY <1>3, <1>4, Induction
<1>6. Same(Len(s)) /\ k[Len(s)] \in Seq(A)
  BY <1>2, <1>5 DEF Reach
<1> QED
  BY <1>1, <1>6, SeqEqual

\* If what S takes from s begins at i, its i-th element follows what is left.
Leaves(s, S, w) == w = Without(s, S)
LEMMA WithoutAppends ==
  ASSUME NEW A, NEW s \in Seq(A), Once(s), NEW S, NEW i \in DOMAIN s,
         \A j \in DOMAIN s : i <= j => s[j] \in S,
         NEW w, Leaves(s, S, w), NEW q, q = Append(w, s[i])
  PROVE  Leaves(s, S \ {s[i]}, q)
<1>1. PICK k \in [0 .. Len(s) -> Seq(A)] : KeptBy(k, s, S) /\ Without(s, S) = k[Len(s)]
  BY WithoutKept
<1>2. PICK T : T = S \ {s[i]}
  OBVIOUS
<1>3. PICK l \in [0 .. Len(s) -> Seq(A)] : KeptBy(l, s, T) /\ Without(s, T) = l[Len(s)]
  BY WithoutKept
<1>4. Len(s) \in Nat /\ DOMAIN s = 1 .. Len(s) /\ i \in Nat \ {0} /\ i <= Len(s)
  OBVIOUS
<1> DEFINE Rest(n) == IF n < i THEN l[n] = k[n] ELSE l[n] = Append(k[n], s[i])
           Reach == {n \in Nat : n <= Len(s) => Rest(n)}
<1>7. 0 \in Reach
  BY <1>1, <1>3, <1>4 DEF KeptBy
<1>8. ASSUME NEW n \in Nat, n \in Reach PROVE n + 1 \in Reach
  <2> SUFFICES ASSUME n + 1 <= Len(s) PROVE Rest(n + 1)
    OBVIOUS
  <2>1. Rest(n) /\ n + 1 \in DOMAIN s
    BY <1>4, <1>8
  <2>2. k[n + 1] = IF s[n + 1] \in S THEN k[n] ELSE Append(k[n], s[n + 1])
    BY <1>1, <1>4 DEF KeptBy
  <2>3. l[n + 1] = IF s[n + 1] \in T THEN l[n] ELSE Append(l[n], s[n + 1])
    BY <1>3, <1>4 DEF KeptBy
  <2>4. n + 1 # i => s[n + 1] # s[i]
    BY <2>1 DEF Once
  <2>5. i <= n + 1 => s[n + 1] \in S
    BY <2>1
  <2>6. CASE n + 1 < i
    <3>1. l[n] = k[n] /\ (s[n + 1] \in T <=> s[n + 1] \in S)
      BY <1>2, <1>4, <2>1, <2>4, <2>6
    <3>2. l[n + 1] = k[n + 1]
      BY <2>2, <2>3, <3>1
    <3> QED
      BY <2>6, <3>2
  <2>7. CASE n + 1 = i
    <3>1. s[n + 1] = s[i] /\ s[n + 1] \in S /\ s[n + 1] \notin T /\ l[n] = k[n]
      BY <1>2, <1>4, <2>1, <2>5, <2>7
    <3>2. k[n + 1] = k[n] /\ l[n + 1] = Append(k[n], s[i])
      BY <2>2, <2>3, <3>1
    <3>3. l[n + 1] = Append(k[n + 1], s[i])
      BY <3>2
    <3> QED
      BY <1>4, <2>7, <3>3
  <2>8. CASE i < n + 1
    <3>1. s[n + 1] \in T /\ s[n + 1] \in S /\ l[n] = Append(k[n], s[i])
      BY <1>2, <1>4, <2>1, <2>4, <2>5, <2>8
    <3>2. k[n + 1] = k[n] /\ l[n + 1] = l[n]
      BY <2>2, <2>3, <3>1
    <3>3. l[n + 1] = Append(k[n + 1], s[i])
      BY <3>1, <3>2
    <3> QED
      BY <1>4, <2>8, <3>3
  <2> QED
    BY <1>4, <2>6, <2>7, <2>8
<1> HIDE DEF Reach
<1>9. \A n \in Nat : n \in Reach
  BY <1>7, <1>8, Induction
<1>10. Rest(Len(s))
  <2>1. Len(s) \in Reach
    BY <1>4, <1>9
  <2> QED
    BY <1>4, <2>1 DEF Reach
<1>11. l[Len(s)] = Append(k[Len(s)], s[i])
  BY <1>4, <1>10
<1> QED
  BY <1>1, <1>2, <1>3, <1>11 DEF Leaves

\* What is left is in the order of s.
Follows(w, s) ==
  \A i, j \in DOMAIN w : \A x, y \in DOMAIN s : i < j /\ w[i] = s[x] /\ w[j] = s[y] => x < y

LEMMA WithoutFollows ==
  ASSUME NEW A, NEW s \in Seq(A), Once(s), NEW S
  PROVE  Follows(Without(s, S), s)
<1>1. PICK k \in [0 .. Len(s) -> Seq(A)] : KeptBy(k, s, S) /\ Without(s, S) = k[Len(s)]
  BY WithoutKept
<1>2. Len(s) \in Nat /\ DOMAIN s = 1 .. Len(s)
  OBVIOUS
<1> DEFINE Old(q, n) == \A i \in DOMAIN q : \E x \in 1 .. n : q[i] = s[x]
           Reach == {n \in Nat : n <= Len(s) => Old(k[n], n) /\ Follows(k[n], s)}
<1>4. 0 \in Reach
  <2>1. k[0] = <<>> /\ DOMAIN <<>> = {}
    BY <1>1 DEF KeptBy
  <2> QED
    BY <2>1 DEF Follows
<1>5. ASSUME NEW n \in Nat, n \in Reach PROVE n + 1 \in Reach
  <2> SUFFICES ASSUME n + 1 <= Len(s) PROVE Old(k[n + 1], n + 1) /\ Follows(k[n + 1], s)
    OBVIOUS
  <2>1. PICK p : p = k[n]
    OBVIOUS
  <2>2. Old(p, n) /\ Follows(p, s) /\ p \in Seq(A) /\ s[n + 1] \in A
    BY <1>2, <1>5, <2>1
  <2>3. CASE s[n + 1] \in S
    <3>1. k[n + 1] = p
      BY <1>1, <2>1, <2>3 DEF KeptBy
    <3>2. \A x \in 1 .. n : x \in 1 .. n + 1
      OBVIOUS
    <3> QED
      BY <2>2, <3>1, <3>2
  <2>4. CASE s[n + 1] \notin S
    <3>1. PICK q : q = Append(p, s[n + 1])
      OBVIOUS
    <3>2. k[n + 1] = q
      BY <1>1, <2>1, <2>4, <3>1 DEF KeptBy
    <3>3. /\ Len(p) \in Nat /\ DOMAIN p = 1 .. Len(p) /\ DOMAIN q = 1 .. Len(p) + 1
          /\ q[Len(p) + 1] = s[n + 1] /\ \A i \in DOMAIN p : q[i] = p[i]
      BY <2>2, <3>1
    <3>4. \A i \in DOMAIN q : i \in DOMAIN p \/ i = Len(p) + 1
      BY <3>3
    <3>5. Old(q, n + 1)
      <4> SUFFICES ASSUME NEW i \in DOMAIN q PROVE \E x \in 1 .. n + 1 : q[i] = s[x]
        OBVIOUS
      <4>1. CASE i \in DOMAIN p
        <5>1. PICK x \in 1 .. n : p[i] = s[x]
          BY <2>2, <4>1
        <5>2. x \in 1 .. n + 1
          OBVIOUS
        <5> QED
          BY <3>3, <4>1, <5>1, <5>2
      <4>2. CASE i = Len(p) + 1
        <5>1. n + 1 \in 1 .. n + 1
          OBVIOUS
        <5> QED
          BY <3>3, <4>2, <5>1
      <4> QED
        BY <3>4, <4>1, <4>2
    <3>6. ASSUME NEW i \in DOMAIN q, NEW j \in DOMAIN q, NEW x \in DOMAIN s, NEW y \in DOMAIN s,
                 i < j, q[i] = s[x], q[j] = s[y]
          PROVE  x < y
      <4>1. i \in DOMAIN p
        BY <3>3, <3>6
      <4>2. CASE j \in DOMAIN p
        BY <2>2, <3>3, <3>6, <4>1, <4>2 DEF Follows
      <4>3. CASE j = Len(p) + 1
        <5>1. y = n + 1
          BY <1>2, <3>3, <3>6, <4>3 DEF Once
        <5>2. PICK z \in 1 .. n : p[i] = s[z]
          BY <2>2, <4>1
        <5>3. z \in DOMAIN s /\ s[z] = s[x]
          BY <1>2, <3>3, <3>6, <4>1, <5>2
        <5>4. z = x
          BY <5>3 DEF Once
        <5> QED
          BY <5>1, <5>4
      <4> QED
        BY <3>4, <4>2, <4>3
    <3> QED
      BY <3>2, <3>5, <3>6 DEF Follows
  <2> QED
    BY <2>3, <2>4
<1> HIDE DEF Reach
<1>6. \A n \in Nat : n \in Reach
  BY <1>4, <1>5, Induction
<1> QED
  BY <1>1, <1>2, <1>6 DEF Reach

-----------------------------------------------------------------------------
(* What an emission has called, and what it will.                          *)

Taken(d, e) == Leaves(d, ToSet(d) \ ToSet(e), e)
InOrder(f) ==
  /\ Taken(f.due, f.called)
  /\ Once(f.due)
  /\ f.at = "begin" => f.due = <<>> /\ f.called = <<>>

\* b being the broken connections, an emission that goes along s up to its m-th
\* connection, the last one, has done so up to the k-th.
Reached(f, s, b, m, k) ==
  /\ m \in Nat /\ m <= Len(s) /\ (m # 0 => s[m] = f.last)
  /\ k \in Nat \ {0} /\ k <= m + 1
  /\ f.at = "look" => f.conn = IF k <= m THEN s[k] ELSE None
  /\ f.at # "look" => k # 1 /\ f.conn = s[k - 1]
  /\ \A i \in DOMAIN f.due : \E j \in 1 .. m : f.due[i] = s[j]
  /\ \A i, j \in DOMAIN f.due : \A x, y \in 1 .. m :
       i < j /\ f.due[i] = s[x] /\ f.due[j] = s[y] => x < y
  /\ \A j \in 1 .. m : s[j] \in ToSet(f.due) \/ s[j] \in b
  /\ \A j \in 1 .. m : s[j] \in ToSet(f.called) => j < k
  /\ \A j \in 1 .. m : j < k => s[j] \in ToSet(f.called) \/ s[j] \in b

BrokenConns == {c \in Conns : Broken(c)}
EmissionOK(f) ==
  f.op = "emit" =>
    /\ InOrder(f)
    /\ f.at # "begin" /\ Intact(f.obj) =>
         \E m, k \in Nat : Reached(f, lists[f.obj].of[f.sig], BrokenConns, m, k)
Emissions == \A t \in Threads : \A i \in DOMAIN stack[t] : \A f : f = stack[t][i] => EmissionOK(f)

\* What others append to the list, and what they break, does not matter.
LEMMA ReachedKept ==
  ASSUME NEW f, NEW g, NEW s, NEW r, NEW b, NEW d, NEW m, NEW k, Reached(f, s, b, m, k),
         g.at = "look" <=> f.at = "look", g.conn = f.conn, g.last = f.last, g.due = f.due,
         g.called = f.called, Len(s) \in Nat, Len(r) \in Nat, Len(s) <= Len(r),
         \A j \in 1 .. Len(s) : r[j] = s[j] /\ (s[j] \in b => s[j] \in d)
  PROVE  Reached(g, r, d, m, k)
<1>1. m \in Nat /\ k \in Nat \ {0} /\ m <= Len(s) /\ k <= m + 1
  BY DEF Reached
<1>2. m <= Len(r) /\ \A j \in 1 .. m : r[j] = s[j] /\ (s[j] \in b => s[j] \in d)
  BY <1>1
<1>3. (m # 0 => m \in 1 .. m) /\ (k <= m => k \in 1 .. m) /\ (k # 1 => k - 1 \in 1 .. m)
  BY <1>1
<1>4. m # 0 => r[m] = g.last
  BY <1>2, <1>3 DEF Reached
<1>5. g.at = "look" => g.conn = IF k <= m THEN r[k] ELSE None
  BY <1>2, <1>3 DEF Reached
<1>6. g.at # "look" => k # 1 /\ g.conn = r[k - 1]
  BY <1>2, <1>3 DEF Reached
<1>7. \A i \in DOMAIN g.due : \E j \in 1 .. m : g.due[i] = r[j]
  BY <1>2 DEF Reached
<1>8. \A i, j \in DOMAIN g.due : \A x, y \in 1 .. m :
        i < j /\ g.due[i] = r[x] /\ g.due[j] = r[y] => x < y
  BY <1>2 DEF Reached
<1>9. \A j \in 1 .. m : r[j] \in ToSet(g.due) \/ r[j] \in d
  BY <1>2 DEF Reached
<1>10. \A j \in 1 .. m : r[j] \in ToSet(g.called) => j < k
  BY <1>2 DEF Reached
<1>11. \A j \in 1 .. m : j < k => r[j] \in ToSet(g.called) \/ r[j] \in d
  BY <1>2 DEF Reached
<1> QED
  BY <1>1, <1>2, <1>4, <1>5, <1>6, <1>7, <1>8, <1>9, <1>10, <1>11 DEF Reached

\* A list that is used grows at its end, unless the destructor empties it, and
\* what is broken in it stays so.
LEMMA ListsExtend ==
  ASSUME Basic, Data, UsersOK, NEW t \in Threads, Effect(t), NEW o \in Objects, Users(o) # {},
         ~Emptying(t, o), NEW g \in Signals, NEW s, s = lists[o].of[g], NEW r, r = lists'[o].of[g]
  PROVE  /\ s \in Seq(Conns) /\ Len(s) <= Len(r) /\ Len(r) \in Nat
         /\ \A j \in 1 .. Len(s) : r[j] = s[j] /\ (s[j] \in BrokenConns => s[j] \in BrokenConns')
<1>0. s \in Seq(Conns) /\ Len(s) \in Nat /\ DOMAIN s = 1 .. Len(s) /\ lists[o].inUse # 0
  BY ListTyped, SomeUsers DEF Basic
<1>1. ASSUME NEW j \in 1 .. Len(s), s[j] \in BrokenConns PROVE s[j] \in BrokenConns'
  <2>1. PICK c \in Conns : c = s[j] /\ conn[c].receiver = None
    BY <1>1 DEF BrokenConns, Broken
  <2>2. c \in ToSet(s)
    BY <1>0, <2>1 DEF ToSet
  <2>3. conn'[c].receiver \in {conn[c].receiver, None}
    BY <2>2, ReceiverKept DEF Placed, Listed
  <2> QED
    BY <2>1, <2>3 DEF BrokenConns, Broken
<1>6. ASSUME Len(s) <= Len(r), Len(r) \in Nat, \A j \in 1 .. Len(s) : r[j] = s[j]
      PROVE  /\ s \in Seq(Conns) /\ Len(s) <= Len(r) /\ Len(r) \in Nat
             /\ \A j \in 1 .. Len(s) :
                  r[j] = s[j] /\ (s[j] \in BrokenConns => s[j] \in BrokenConns')
  BY <1>0, <1>1, <1>6
<1>2. CASE r = s
  BY <1>0, <1>1, <1>2
<1>3. CASE ConnectEnd(t)
  <2>1. PICK f : f = Top(t)
    OBVIOUS
  <2>2. UNCHANGED lists \/ Connects(f)
    BY <1>3, <2>1, ConnectEndLists
  <2>3. CASE UNCHANGED lists
    BY <1>2, <2>3
  <2>4. CASE Connects(f) /\ o # f.obj
    BY <1>2, <2>4 DEF Connects
  <2>5. CASE Connects(f) /\ o = f.obj
    <3>1. Cleaned(lists[o]) = {}
      BY <1>0 DEF Cleaned, Cleans
    <3>2. Without(s, {}) = s
      BY <1>0, WithoutNone
    <3>3. r = IF g = f.sig THEN Append(s, f.conn) ELSE s
      BY <2>5, <3>1, <3>2 DEF Connects
    <3>4. CASE r = Append(s, f.conn)
      <4>1. f.conn \in Conns
        BY <1>3, <2>1, ConnectTop
      <4>2. Len(r) = Len(s) + 1 /\ \A j \in 1 .. Len(s) : r[j] = s[j]
        BY <1>0, <3>4, <4>1
      <4>3. Len(s) <= Len(r) /\ Len(r) \in Nat
        BY <1>0, <4>2
      <4> QED
        BY <1>6, <4>2, <4>3, Zenon
    <3> QED
      BY <1>2, <3>3, <3>4
  <2> QED
    BY <2>2, <2>3, <2>4, <2>5
<1>4. ASSUME NEW p \in Objects, NEW h \in Signals, NEW d \in Conns, Drops(p, h, d), Emptying(t, p)
      PROVE  r = s
  BY <1>4 DEF Drops
<1>5. SameLists => r = s
  BY DEF SameLists
<1> QED
  BY <1>2, <1>3, <1>4, <1>5 DEF Effect, Still, HandleDropped, LosesSender

\* A frame that is not executed, or that takes a step that changes nothing of
\* its emission.
LEMMA EmissionKept ==
  ASSUME Good, NEW t \in Threads, Step(t) \/ UserCall(t), Effect(t),
         NEW u \in Threads, NEW i \in DOMAIN stack[u], NEW f, f = stack[u][i], EmissionOK(f),
         u # t \/ Below(f) \/ f.op = "emit",
         NEW g, g.op = f.op, g.obj = f.obj, g.sig = f.sig, g.at = "begin" <=> f.at = "begin",
         g.at = "look" <=> f.at = "look", g.conn = f.conn, g.last = f.last, g.due = f.due,
         g.called = f.called
  PROVE  EmissionOK(g)'
<1> SUFFICES ASSUME g.op = "emit" PROVE EmissionOK(g)'
  BY DEF EmissionOK
<1>0. f \in Frame /\ f.obj \in Objects /\ f.sig \in Signals
  BY FramesOK, FrameTyped DEF Good, FrameOK, EmitFrame
<1>1. Basic /\ LifeOK /\ NamedLive /\ ListsShape /\ UsersOK /\ Data /\ UnlinksFirst /\ SendersKnown
  BY GoodImplies DEF Good
<1>2. InOrder(g)
  BY DEF EmissionOK, InOrder
<1>3. ASSUME g.at # "begin", Intact(g.obj)'
      PROVE  \E m, k \in Nat : Reached(g, lists'[g.obj].of[g.sig], BrokenConns', m, k)
  <2>1. Users(f.obj) # {}
    BY <1>3, UserIs DEF InUse
  <2>2. Intact(f.obj)' <=> Intact(g.obj)'
    OBVIOUS
  <2>3. Intact(f.obj)
    BY <1>0, <1>1, <1>3, <2>1, <2>2, IntactBack
  <2>4. ~Emptying(t, f.obj)
    BY <1>0, <1>1, <2>3, EmptyingIs
  <2>5. PICK s, r : s = lists[f.obj].of[f.sig] /\ r = lists'[f.obj].of[f.sig]
    OBVIOUS
  <2>6. PICK m, k \in Nat : Reached(f, s, BrokenConns, m, k)
    BY <1>3, <2>3, <2>5 DEF EmissionOK
  <2>7. /\ s \in Seq(Conns) /\ Len(s) <= Len(r) /\ Len(r) \in Nat
        /\ \A j \in 1 .. Len(s) : r[j] = s[j] /\ (s[j] \in BrokenConns => s[j] \in BrokenConns')
    <3>1. Basic /\ Data /\ UsersOK /\ f.obj \in Objects /\ f.sig \in Signals
      BY <1>0, <1>1
    <3>2. Users(f.obj) # {} /\ ~Emptying(t, f.obj) /\ s = lists[f.obj].of[f.sig]
          /\ r = lists'[f.obj].of[f.sig]
      BY <2>1, <2>4, <2>5
    <3>3. PICK o \in Objects, h \in Signals : o = f.obj /\ h = f.sig
      BY <3>1
    <3>4. Users(o) # {} /\ ~Emptying(t, o) /\ s = lists[o].of[h] /\ r = lists'[o].of[h]
      BY <3>2, <3>3
    <3>5. s \in Seq(Conns)
      BY <3>1, <3>4, ListsExtend
    <3>6. Len(s) <= Len(r)
      BY <3>1, <3>4, ListsExtend
    <3>7. Len(r) \in Nat
      BY <3>1, <3>4, ListsExtend
    <3>8. \A j \in 1 .. Len(s) : r[j] = s[j]
      BY <3>1, <3>4, ListsExtend
    <3>9. \A j \in 1 .. Len(s) : (s[j] \in BrokenConns => s[j] \in BrokenConns')
      BY <3>1, <3>4, ListsExtend
    <3> QED
      BY <3>5, <3>6, <3>7, <3>8, <3>9
  <2>8. Len(s) \in Nat
    BY <2>7
  <2>9. Reached(g, r, BrokenConns', m, k)
    BY <2>6, <2>7, <2>8, ReachedKept
  <2> QED
    BY <2>5, <2>9
<1> QED
  BY <1>2, <1>3 DEF EmissionOK, InOrder

LEMMA BystanderEmits ==
  ASSUME Good, Emissions, NEW t \in Threads, Step(t) \/ UserCall(t), Effect(t),
         NEW u \in Threads, NEW i \in DOMAIN stack[u], NEW f, f = stack[u][i], u # t \/ Below(f)
  PROVE  EmissionOK(f)'
<1>1. EmissionOK(f)
  BY DEF Emissions
<1> QED
  BY <1>1, EmissionKept

LEMMA EmissionsBecome ==
  ASSUME Good, Emissions, NEW t \in Threads, Step(t), Effect(t), NEW g, Becomes(t, Top(t), g),
         EmissionOK(g)'
  PROVE  Emissions'
<1>1. PICK f : f = Top(t)
  OBVIOUS
<1>2. Becomes(t, f, g)
  BY <1>1
<1> SUFFICES ASSUME NEW u \in Threads, NEW i \in DOMAIN stack'[u], NEW k, k = stack'[u][i]
             PROVE  EmissionOK(k)'
  BY DEF Emissions
<1>3. /\ i \in DOMAIN stack[u]
      /\ stack'[u][i] = IF u = t /\ i = Len(stack[t]) THEN g ELSE stack[u][i]
  BY <1>2, BecomesFrames DEF Good
<1>4. CASE u = t /\ i = Len(stack[t])
  <2>1. k = g
    BY <1>3, <1>4
  <2> QED
    BY <2>1
<1>5. CASE ~(u = t /\ i = Len(stack[t]))
  <2>1. PICK h : h = stack[u][i]
    OBVIOUS
  <2>2. u # t \/ Below(h)
    BY <1>3, <1>5, <2>1 DEF Good, Basic, Shape
  <2>3. EmissionOK(h)'
    BY <1>3, <2>1, <2>2, BystanderEmits
  <2>4. k = h
    BY <1>3, <1>5, <2>1
  <2> QED
    BY <2>3, <2>4
<1> QED
  BY <1>4, <1>5

LEMMA EmissionsReturn ==
  ASSUME Good, Emissions, NEW t \in Threads, Step(t), Effect(t), stack[t] # <<>>, Returns(t)
  PROVE  Emissions'
<1> SUFFICES ASSUME NEW u \in Threads, NEW i \in DOMAIN stack'[u], NEW k, k = stack'[u][i]
             PROVE  EmissionOK(k)'
  BY DEF Emissions
<1>1. /\ i \in DOMAIN stack[u] /\ stack'[u][i] = stack[u][i] /\ ~(u = t /\ i = Len(stack[t]))
  BY ReturnsFrames DEF Good
<1>2. PICK h : h = stack[u][i]
  OBVIOUS
<1>3. u # t \/ Below(h)
  BY <1>1, <1>2 DEF Good, Basic, Shape
<1>4. EmissionOK(h)'
  BY <1>1, <1>2, <1>3, BystanderEmits
<1>5. k = h
  BY <1>1, <1>2
<1> QED
  BY <1>4, <1>5

\* The executed frame is no emission.
LEMMA EmissionsElsewhere ==
  ASSUME Good, Emissions, NEW t \in Threads, Step(t), Effect(t), stack[t] # <<>>,
         Top(t).op # "emit", StepsOn(t) \/ Returns(t)
  PROVE  Emissions'
<1>1. ASSUME NEW g, Becomes(t, Top(t), g) PROVE Emissions'
  <2>1. EmissionOK(g)'
    BY <1>1 DEF EmissionOK, Becomes
  <2> QED
    BY <1>1, <2>1, EmissionsBecome
<1>2. CASE UNCHANGED stack
  <2> SUFFICES ASSUME NEW u \in Threads, NEW i \in DOMAIN stack[u], NEW k, k = stack[u][i]
               PROVE  EmissionOK(k)'
    BY <1>2 DEF Emissions
  <2>1. CASE u # t \/ Below(k)
    BY <2>1, BystanderEmits
  <2>2. CASE u = t /\ ~Below(k)
    <3>1. k = Top(t)
      BY <2>2, OnlyTop DEF Good
    <3> QED
      BY <3>1 DEF EmissionOK
  <2> QED
    BY <2>1, <2>2
<1> QED
  BY <1>1, <1>2, EmissionsReturn DEF StepsOn, Pops

\* An emission that begins
NewEmission(g) == g.op = "emit" => g.at = "begin" /\ g.due = <<>> /\ g.called = <<>>

LEMMA NewEmissionOK ==
  ASSUME NEW g, NewEmission(g)
  PROVE  EmissionOK(g)'
<1> SUFFICES ASSUME g.op = "emit" PROVE EmissionOK(g)'
  BY DEF EmissionOK
<1>1. g.at = "begin" /\ g.due = <<>> /\ g.called = <<>>
  BY DEF NewEmission
<1>2. PICK S : S = ToSet(g.due) \ ToSet(g.called)
  OBVIOUS
<1>3. Without(<<>>, S) = <<>>
  BY WithoutEmpty
<1>4. InOrder(g)
  BY <1>1, <1>2, <1>3 DEF InOrder, Taken, Leaves, Once
<1> QED
  BY <1>1, <1>4 DEF EmissionOK, InOrder

LEMMA EmissionsCall ==
  ASSUME Good, Emissions, NEW t \in Threads, UserCall(t), Effect(t),
         \A u \in Threads : \A i \in DOMAIN stack'[u] :
           \/ i \in DOMAIN stack[u] /\ stack'[u][i] = stack[u][i]
           \/ NewEmission(stack'[u][i])
  PROVE  Emissions'
<1> SUFFICES ASSUME NEW u \in Threads, NEW i \in DOMAIN stack'[u], NEW k, k = stack'[u][i]
             PROVE  EmissionOK(k)'
  BY DEF Emissions
<1>1. PICK h : h = stack'[u][i]
  OBVIOUS
<1>2. EmissionOK(h)'
  <2>1. CASE NewEmission(h)
    BY <2>1, NewEmissionOK
  <2>2. CASE i \in DOMAIN stack[u] /\ h = stack[u][i]
    <3>1. stack[t] # <<>> => Below(Top(t))
      BY UserCodeTop DEF InUserCode, Below, Good
    <3>2. u # t \/ Below(h)
      <4>1. CASE u = t /\ ~Below(h)
        <5>1. h = Top(t) /\ stack[t] # <<>>
          BY <2>2, <4>1, OnlyTop DEF Good
        <5> QED
          BY <3>1, <4>1, <5>1
      <4> QED
        BY <4>1
    <3> QED
      BY <2>2, <3>2, BystanderEmits
  <2> QED
    BY <1>1, <2>1, <2>2
<1> QED
  BY <1>1, <1>2

LEMMA EmissionsUserCall ==
  ASSUME Good, Emissions, NEW t \in Threads, UserCall(t), Effect(t)
  PROVE  Emissions'
<1>0. Basic
  BY DEF Good
<1>1. ASSUME NEW g \in Frame, Enters(t, g), NewEmission(g) PROVE Emissions'
  <2>1. \A u \in Threads : \A i \in DOMAIN stack'[u] :
           \/ i \in DOMAIN stack[u] /\ stack'[u][i] = stack[u][i]
           \/ stack'[u][i] = g
    BY <1>0, <1>1, EntersFrames
  <2> QED
    BY <1>1, <2>1, EmissionsCall, Zenon
<1>2. ASSUME NEW s \in Objects, NEW g \in Signals, EmitCall(t, s, g) PROVE Emissions'
  <2>1. \E f \in Frame : Enters(t, f) /\ f.op = "emit" /\ f.at = "begin"
                         /\ f.due = <<>> /\ f.called = <<>>
    BY <1>0, <1>2, EmitCallBasic
  <2> QED
    BY <1>1, <2>1 DEF NewEmission
<1>3. ASSUME NEW s \in Objects, NEW r \in Objects, NEW g \in Signals, ConnectCall(t, s, r, g)
      PROVE  Emissions'
  <2>1. \E f \in Frame : Enters(t, f) /\ f.op = "connect"
    BY <1>0, <1>3, ConnectCallBasic
  <2> QED
    BY <1>1, <2>1 DEF NewEmission
<1>4. ASSUME NEW s \in Objects, NEW r \in Objects \cup {None}, NEW g \in Scopes,
             DisconnectCall(t, s, r, g)
      PROVE  Emissions'
  <2>1. \E f \in Frame : Enters(t, f) /\ f.op = "disconnect" /\ f.at = "begin" /\ f.conn = None
    BY <1>0, <1>4, DisconnectCallBasic
  <2> QED
    BY <1>1, <2>1 DEF NewEmission
<1>5. ASSUME NEW o \in Objects, Deliver(t, o) PROVE Emissions'
  <2>1. \E f \in Frame : Enters(t, f) /\ f.op = "event"
    BY <1>0, <1>5, DeliverBasic
  <2> QED
    BY <1>1, <2>1 DEF NewEmission
<1>6. ASSUME NEW o \in Objects, DeleteCall(t, o) PROVE Emissions'
  <2>1. \A u \in Threads : \A i \in DOMAIN stack'[u] :
           \/ i \in DOMAIN stack[u] /\ stack'[u][i] = stack[u][i]
           \/ NewEmission(stack'[u][i])
    BY <1>0, <1>6, DeleteCallFrames DEF NewEmission
  <2> QED
    BY <2>1, EmissionsCall
<1>7. ASSUME NEW c \in Conns, DropHandle(t, c) \/ DisconnectHandle(t, c) PROVE Emissions'
  <2>1. UNCHANGED stack
    BY <1>7 DEF DropHandle, DisconnectHandle
  <2> QED
    BY <2>1, EmissionsCall
<1> QED
  BY <1>2, <1>3, <1>4, <1>5, <1>6, <1>7 DEF UserCall

-----------------------------------------------------------------------------
(* The steps of an emission                                                *)

LEMMA NextAt ==
  ASSUME NEW A, NEW s \in Seq(A), Once(s), NEW i \in DOMAIN s
  PROVE  NextIn(s, s[i]) = IF i = Len(s) THEN None ELSE s[i + 1]
<1>1. PICK c : c = s[i]
  OBVIOUS
<1>2. c \in ToSet(s)
  BY <1>1 DEF ToSet
<1>3. PICK k : k = CHOOSE j \in DOMAIN s : s[j] = c
  OBVIOUS
<1>4. k \in DOMAIN s /\ s[k] = c
  BY <1>1, <1>3
<1>5. k = i
  BY <1>1, <1>4 DEF Once
<1>6. NextIn(s, c) = IF k = Len(s) THEN None ELSE s[k + 1]
  BY <1>2, <1>3 DEF NextIn
<1> QED
  BY <1>1, <1>5, <1>6

LEMMA WithoutAll ==
  ASSUME NEW A, NEW s \in Seq(A), NEW S, ToSet(s) \subseteq S
  PROVE  Without(s, S) = <<>>
<1>1. PICK w : w = Without(s, S)
  OBVIOUS
<1>2. w \in Seq(A) /\ ToSet(w) = {}
  BY <1>1, WithoutElements
<1>3. w = <<>>
  BY <1>2, HeadAndTail
<1> QED
  BY <1>1, <1>3

LEMMA BeginReached ==
  ASSUME NEW s \in Seq(Conns), Once(s), NEW b, NEW g, g.at = "look", g.conn = First(s),
         g.last = (IF s = <<>> THEN None ELSE Last(s)), g.called = <<>>,
         NEW B, B = {x \in ToSet(s) : x \in b}, g.due = Without(s, B)
  PROVE  InOrder(g) /\ Reached(g, s, b, Len(s), 1)
<1>1. Len(s) \in Nat /\ DOMAIN s = 1 .. Len(s)
  OBVIOUS
<1>2. PICK d : d = g.due
  OBVIOUS
<1>3. /\ d \in Seq(Conns) /\ ToSet(d) = ToSet(s) \ B /\ Once(d) /\ Follows(d, s)
  <2>1. d = Without(s, B)
    BY <1>2
  <2>2. d \in Seq(Conns)
    BY <2>1, WithoutElements
  <2>3. ToSet(d) = ToSet(s) \ B
    BY <2>1, WithoutElements
  <2>4. Once(d)
    BY <2>1, WithoutOnce
  <2>5. Follows(d, s)
    BY <2>1, WithoutFollows
  <2> QED
    BY <2>2, <2>3, <2>4, <2>5
<1>4. ToSet(<<>>) = {}
  BY DEF ToSet
<1>5. InOrder(g)
  <2>1. Without(d, ToSet(d) \ ToSet(<<>>)) = <<>>
    BY <1>3, <1>4, WithoutAll
  <2> QED
    BY <1>2, <1>3, <2>1 DEF InOrder, Taken, Leaves
<1>6. g.conn = IF 1 <= Len(s) THEN s[1] ELSE None
  BY <1>1 DEF First
<1>7. Len(s) # 0 => s[Len(s)] = g.last
  BY <1>1 DEF Last
<1>8. \A i \in DOMAIN g.due : \E j \in 1 .. Len(s) : g.due[i] = s[j]
  <2> SUFFICES ASSUME NEW i \in DOMAIN d PROVE \E j \in 1 .. Len(s) : d[i] = s[j]
    BY <1>2
  <2>1. d[i] \in ToSet(s)
    BY <1>3 DEF ToSet
  <2> QED
    BY <1>1, <2>1 DEF ToSet
<1>9. \A i, j \in DOMAIN g.due : \A x, y \in 1 .. Len(s) :
        i < j /\ g.due[i] = s[x] /\ g.due[j] = s[y] => x < y
  BY <1>1, <1>2, <1>3 DEF Follows
<1>10. \A j \in 1 .. Len(s) : s[j] \in ToSet(g.due) \/ s[j] \in b
  <2> SUFFICES ASSUME NEW j \in 1 .. Len(s), s[j] \notin b PROVE s[j] \in ToSet(d)
    BY <1>2
  <2>1. s[j] \in ToSet(s)
    BY <1>1 DEF ToSet
  <2> QED
    BY <1>3, <2>1
<1>11. \A j \in 1 .. Len(s) : s[j] \notin ToSet(g.called)
  BY <1>4
<1>12. \A j \in 1 .. Len(s) : ~(j < 1)
  OBVIOUS
<1> QED
  BY <1>1, <1>5, <1>6, <1>7, <1>8, <1>9, <1>10, <1>11, <1>12 DEF Reached

\* An emission that has reached s[n] goes on to the next connection.
LEMMA NextReached ==
  ASSUME NEW s \in Seq(Conns), Once(s), NEW b, NEW f, NEW g, NEW m, NEW k, Reached(f, s, b, m, k),
         NEW n \in 1 .. m, f.conn = s[n], g.at = "look", g.last = f.last, g.due = f.due,
         g.conn = IF f.conn = f.last THEN None ELSE NextIn(s, f.conn),
         \A j \in 1 .. m : s[j] \in ToSet(g.called) => j <= n,
         \A j \in 1 .. m : j <= n => s[j] \in ToSet(g.called) \/ s[j] \in b
  PROVE  Reached(g, s, b, m, n + 1)
<1>1. m \in Nat /\ m <= Len(s) /\ n \in Nat /\ s[m] = f.last /\ n \in DOMAIN s /\ m \in DOMAIN s
      /\ Len(s) \in Nat
  BY DEF Reached
<1>2. f.conn = f.last => n = m
  BY <1>1 DEF Once
<1>3. NextIn(s, s[n]) = IF n = Len(s) THEN None ELSE s[n + 1]
  BY <1>1, NextAt
<1>4. g.conn = IF n + 1 <= m THEN s[n + 1] ELSE None
  <2>1. CASE n = m
    BY <1>1, <2>1
  <2>2. CASE n # m
    BY <1>1, <1>2, <1>3, <2>2
  <2> QED
    BY <2>1, <2>2
<1>5. n + 1 \in Nat \ {0} /\ n + 1 <= m + 1
  BY <1>1
<1>6. \A j \in 1 .. m : (j <= n <=> j < n + 1)
  BY <1>1
<1>7. \A i \in DOMAIN g.due : \E j \in 1 .. m : g.due[i] = s[j]
  BY DEF Reached
<1>8. \A i, j \in DOMAIN g.due : \A x, y \in 1 .. m :
        i < j /\ g.due[i] = s[x] /\ g.due[j] = s[y] => x < y
  BY DEF Reached
<1>9. \A j \in 1 .. m : s[j] \in ToSet(g.due) \/ s[j] \in b
  BY DEF Reached
<1> QED
  BY <1>1, <1>4, <1>5, <1>6, <1>7, <1>8, <1>9 DEF Reached

\* What an emission calls next is the next of what it found.
LEMMA CallsNext ==
  ASSUME NEW s \in Seq(Conns), Once(s), NEW b, NEW f \in Frame, NEW m, NEW k,
         Reached(f, s, b, m, k), InOrder(f), NEW c, c = s[k], k <= m, c \notin b,
         NEW q, q = Append(f.called, c)
  PROVE  Taken(f.due, q)
<1>1. k \in 1 .. m /\ m \in Nat /\ DOMAIN s = 1 .. Len(s) /\ m <= Len(s) /\ c \in Conns
  BY DEF Reached
<1>2. PICK d, e : d = f.due /\ e = f.called
  OBVIOUS
<1>3. d \in Seq(Conns) /\ e \in Seq(Conns) /\ Once(d)
  BY <1>2, FrameTyped DEF InOrder
<1>4. PICK S : S = ToSet(d) \ ToSet(e)
  OBVIOUS
<1>5. Leaves(d, S, e)
  BY <1>2, <1>4 DEF InOrder, Taken
<1>6. c \in ToSet(d)
  BY <1>1, <1>2 DEF Reached
<1>7. PICK i \in DOMAIN d : d[i] = c
  BY <1>6 DEF ToSet
<1>8. ASSUME NEW j \in DOMAIN d, i <= j PROVE d[j] \in S
  <2>1. PICK y \in 1 .. m : d[j] = s[y]
    BY <1>2 DEF Reached
  <2>2. k <= y
    <3>1. CASE i = j
      <4>1. s[y] = s[k] /\ y \in DOMAIN s /\ k \in DOMAIN s
        BY <1>1, <1>7, <2>1, <3>1
      <4>2. y = k
        BY <4>1 DEF Once
      <4> QED
        BY <1>1, <4>2
    <3>2. CASE i # j
      <4>1. i < j
        BY <1>3, <1>8, <3>2
      <4>2. k < y
        BY <1>1, <1>2, <1>7, <2>1, <4>1 DEF Reached
      <4> QED
        BY <1>1, <4>2
    <3> QED
      BY <3>1, <3>2
  <2>3. s[y] \notin ToSet(e)
    <3>1. s[y] \in ToSet(e) => y < k
      BY <1>2 DEF Reached
    <3> QED
      BY <1>1, <2>2, <3>1
  <2>4. d[j] \in ToSet(d)
    BY DEF ToSet
  <2> QED
    BY <1>4, <2>1, <2>3, <2>4
<1>9. Leaves(d, S \ {d[i]}, q)
  <2>1. q = Append(e, d[i])
    BY <1>2, <1>7
  <2> QED
    BY <1>3, <1>5, <1>8, <2>1, WithoutAppends
<1>10. S \ {c} = ToSet(d) \ ToSet(q)
  <2>1. q = Append(e, c)
    BY <1>2
  <2>2. \A x : x \in ToSet(q) <=> x \in ToSet(e) \/ x = c
    <3>1. c \in Conns /\ e \in Seq(Conns)
      BY <1>1, <1>3
    <3> QED
      BY <2>1, <3>1, AppendIs, Zenon
  <2> QED
    BY <1>4, <2>1, <2>2
<1> QED
  BY <1>2, <1>7, <1>9, <1>10 DEF Taken

LEMMA EmissionsTop ==
  ASSUME Basic, Emissions, NEW t \in Threads, stack[t] # <<>>
  PROVE  EmissionOK(Top(t))
<1>1. Len(stack[t]) \in DOMAIN stack[t] /\ Top(t) = stack[t][Len(stack[t])]
  BY TopFrame DEF Basic, Typed
<1>2. EmissionOK(stack[t][Len(stack[t])])
  BY <1>1 DEF Emissions
<1> QED
  BY <1>1, <1>2, Zenon

\* Steps that change nothing of the emission they belong to
LEMMA EmissionAlike ==
  ASSUME Good, Emissions, NEW t \in Threads, Step(t), Effect(t), Lock(t) \/ SlotReturn(t)
  PROVE  Emissions'
<1>0. Basic
  BY DEF Good
<1>1. PICK f : f = Top(t)
  OBVIOUS
<1>2. PICK g : /\ Becomes(t, f, g) /\ g.sig = f.sig /\ (g.at = "begin" <=> f.at = "begin")
               /\ (g.at = "look" <=> f.at = "look") /\ g.conn = f.conn /\ g.last = f.last
               /\ g.due = f.due /\ g.called = f.called
  <2>1. CASE Lock(t)
    <3>1. PICK g \in Frame : Becomes(t, Top(t), g) /\ Alike(Top(t), g)
      BY <1>0, <2>1, LockFrame
    <3> QED
      BY <1>1, <3>1 DEF Alike
  <2>2. CASE SlotReturn(t)
    <3>1. PICK g \in Frame :
             /\ Becomes(t, Top(t), g) /\ Top(t).at = "slot"
             /\ g.at = "relock" /\ g.sig = Top(t).sig /\ g.conn = Top(t).conn
             /\ g.last = Top(t).last /\ g.due = Top(t).due /\ g.called = Top(t).called
      BY <1>0, <2>2, SlotReturnFrame
    <3> QED
      BY <1>1, <3>1
  <2> QED
    BY <2>1, <2>2
<1>3. /\ stack[t] # <<>> /\ Len(stack[t]) \in DOMAIN stack[t] /\ f = stack[t][Len(stack[t])]
      /\ g.op = f.op /\ g.obj = f.obj
  BY <1>0, <1>1, <1>2, BecomesFrames DEF Becomes
<1>4. EmissionOK(g)'
  <2>1. CASE f.op # "emit"
    BY <1>3, <2>1 DEF EmissionOK
  <2>2. CASE f.op = "emit"
    <3>1. EmissionOK(f)
      BY <1>0, <1>1, <1>3, EmissionsTop
    <3> QED
      BY <1>2, <1>3, <2>2, <3>1, EmissionKept
  <2> QED
    BY <2>1, <2>2
<1> QED
  BY <1>1, <1>2, <1>4, EmissionsBecome

LEMMA EmitBeginEmits ==
  ASSUME Good, Emissions, NEW t \in Threads, Step(t), Effect(t), EmitBegin(t)
  PROVE  Emissions'
<1>0. Basic /\ Data /\ stack[t] # <<>>
  BY ReturnsFrame DEF Good, EmitBegin
<1>1. PICK f : f = Top(t)
  OBVIOUS
<1>2. EmissionOK(f) /\ FrameOK(t, f) /\ f.obj \in Objects
  BY <1>0, <1>1, EmissionsTop, TopOK, FrameTyped
<1>3. CASE lists[f.obj].at = "none"
  BY <1>0, <1>1, <1>3, EmissionsReturn DEF EmitBegin
<1>4. CASE lists[f.obj].at # "none"
  <2>1. PICK g \in Frame :
           /\ Becomes(t, Top(t), g) /\ Top(t).op = "emit" /\ Top(t).at = "begin"
           /\ g.at = "look" /\ g.sig = Top(t).sig /\ g.called = Top(t).called
           /\ LET all == lists[g.obj].of[g.sig] IN
                /\ g.conn = First(all) /\ g.last = (IF all = <<>> THEN None ELSE Last(all))
                /\ g.due = Without(all, {x \in ToSet(all) : Broken(x)})
    BY <1>0, <1>1, <1>4, EmitBeginFrame
  <2>2. g.obj = f.obj /\ g.op = "emit" /\ g.sig = f.sig /\ f.sig \in Signals /\ g.called = <<>>
    BY <1>1, <1>2, <2>1 DEF Becomes, FrameOK, EmitFrame, EmissionOK, InOrder
  <2>3. PICK s : s = lists[g.obj].of[g.sig]
    OBVIOUS
  <2>4. s \in Seq(Conns) /\ Once(s)
    BY <1>0, <1>2, <2>2, <2>3, ListTyped DEF Basic, Data, OnceListed
  <2>5. PICK B : B = {x \in ToSet(s) : Broken(x)}
    OBVIOUS
  <2>6. B = {x \in ToSet(s) : x \in BrokenConns}
    BY <2>4, <2>5, ElementsTyped DEF BrokenConns
  <2>7. InOrder(g) /\ Reached(g, s, BrokenConns, Len(s), 1)
    <3>1. g.conn = First(s) /\ g.last = (IF s = <<>> THEN None ELSE Last(s)) /\ g.due = Without(s, B)
      BY <2>1, <2>3, <2>5
    <3> QED
      BY <2>1, <2>2, <2>4, <2>6, <3>1, BeginReached
  <2>8. lists'[g.obj].of[g.sig] = s /\ BrokenConns' = BrokenConns
    <3>1. lists' = [lists EXCEPT ![f.obj] = Enter(lists[f.obj])] /\ UNCHANGED conn
      BY <1>1, <1>4 DEF EmitBegin
    <3>2. SameLists
      BY <1>0, <1>2, <3>1, EntersLists DEF Basic, SameLists
    <3> QED
      BY <1>2, <2>2, <2>3, <3>1, <3>2 DEF SameLists, BrokenConns, Broken
  <2>9. EmissionOK(g)'
    <3>1. Len(s) \in Nat /\ 1 \in Nat
      BY <2>4
    <3>2. \E m, k \in Nat : Reached(g, lists'[g.obj].of[g.sig], BrokenConns', m, k)
      BY <2>7, <2>8, <3>1
    <3> QED
      BY <2>7, <3>2 DEF EmissionOK, InOrder
  <2> QED
    BY <2>1, <2>9, EmissionsBecome
<1> QED
  BY <1>3, <1>4

LEMMA EmitLookEmits ==
  ASSUME Good, Emissions, NEW t \in Threads, Step(t), Effect(t), EmitLook(t)
  PROVE  Emissions'
<1>0. Basic /\ Data /\ ListsShape /\ stack[t] # <<>> /\ UNCHANGED <<lists, conn>>
  BY ReturnsFrame DEF Good, EmitLook
<1>1. PICK f : f = Top(t)
  OBVIOUS
<1>2. EmissionOK(f) /\ WalkOK(f) /\ FrameOK(t, f) /\ f.obj \in Objects /\ f \in Frame
  BY <1>0, <1>1, EmissionsTop, WalksTop, TopOK, FrameTyped DEF Good
<1>3. PICK g \in Frame :
         /\ Becomes(t, f, g) /\ f.op = "emit" /\ f.at = "look" /\ f.conn \in Conns
         /\ \/ /\ GoneOn(f, g)
               /\ \/ Broken(f.conn) /\ g.called = f.called
                  \/ ~Broken(f.conn) /\ g.called = Append(f.called, f.conn)
            \/ /\ g.at = "slot" /\ g.sig = f.sig /\ g.conn = f.conn
               /\ g.last = f.last /\ g.due = f.due
               /\ g.called = Append(f.called, f.conn) /\ ~Broken(g.conn)
  BY <1>0, <1>1, EmitLookFrame
<1>4. /\ g.obj = f.obj /\ g.op = "emit" /\ g.sig = f.sig /\ f.sig \in Signals /\ g.due = f.due
      /\ g.last = f.last /\ g.at \in {"look", "slot"}
  BY <1>2, <1>3 DEF Becomes, FrameOK, EmitFrame, GoneOn
<1>5. PICK s : s = lists[f.obj].of[f.sig]
  OBVIOUS
<1>6. s \in Seq(Conns) /\ Once(s) /\ DOMAIN s = 1 .. Len(s)
  <2>1. s \in Seq(Conns)
    BY <1>0, <1>2, <1>4, <1>5, ListTyped DEF Basic
  <2>2. Once(s)
    BY <1>0, <1>2, <1>4, <1>5 DEF Data, OnceListed
  <2> QED
    BY <2>1, <2>2
<1>7. Intact(f.obj)
  <2>1. Listed(f.conn, f.obj, f.sig)
    BY <1>2, <1>3, NoneElsewhere DEF WalkOK, LookOK
  <2>2. s # <<>>
    BY <1>5, <2>1 DEF Listed, ToSet
  <2>3. lists[f.obj].at = "used"
    BY <1>0, <1>2, <1>4, <1>5, <2>2 DEF ListsShape, ShapeOf
  <2> QED
    BY <1>0, <1>1, <1>3, <2>3, IntactWhenEmitting
<1>8. PICK m, k \in Nat : Reached(f, s, BrokenConns, m, k)
  BY <1>2, <1>3, <1>5, <1>7 DEF EmissionOK
<1>9. k \in 1 .. m /\ f.conn = s[k] /\ m <= Len(s) /\ k \in DOMAIN s
  <2>1. k \in Nat \ {0} /\ m \in Nat /\ m <= Len(s) /\ f.conn = IF k <= m THEN s[k] ELSE None
    BY <1>3, <1>8 DEF Reached
  <2>2. k <= m
    BY <1>3, <2>1, NoneElsewhere
  <2> QED
    BY <1>6, <2>1, <2>2
<1>10. lists'[g.obj].of[g.sig] = s /\ BrokenConns' = BrokenConns
  BY <1>0, <1>4, <1>5 DEF BrokenConns, Broken
<1>11. InOrder(f)
  BY <1>2, <1>3 DEF EmissionOK
<1>12. ASSUME ~Broken(f.conn), g.called = Append(f.called, f.conn)
       PROVE  InOrder(g) /\ \A x : x \in ToSet(g.called) <=> x \in ToSet(f.called) \/ x = f.conn
  <2>1. PICK c, q : c = f.conn /\ q = Append(f.called, c)
    OBVIOUS
  <2>2. c = s[k] /\ k <= m /\ c \notin BrokenConns /\ c \in Conns /\ q = g.called
    BY <1>3, <1>9, <1>12, <2>1 DEF BrokenConns
  <2>3. Taken(f.due, q)
    <3>1. /\ s \in Seq(Conns) /\ Once(s) /\ f \in Frame /\ Reached(f, s, BrokenConns, m, k)
          /\ InOrder(f) /\ c = s[k] /\ k <= m /\ c \notin BrokenConns /\ q = Append(f.called, c)
      BY <1>2, <1>6, <1>8, <1>11, <2>1, <2>2
    <3> QED
      BY <3>1, CallsNext
  <2>4. InOrder(g)
    BY <1>3, <1>4, <1>11, <2>1, <2>2, <2>3 DEF InOrder
  <2>5. f.called \in Seq(Conns)
    BY <1>2, FrameTyped
  <2>6. \A x : x \in ToSet(q) <=> x \in ToSet(f.called) \/ x = c
    BY <2>1, <2>2, <2>5, AppendIs, Zenon
  <2> QED
    BY <2>1, <2>2, <2>4, <2>6
<1>13. InOrder(g)
  <2>1. CASE Broken(f.conn) /\ g.called = f.called
    BY <1>4, <1>11, <2>1 DEF InOrder
  <2> QED
    BY <1>3, <1>12, <2>1
<1>14. \A j \in 1 .. m : (j <= k <=> j < k \/ j = k) /\ (s[j] = s[k] => j = k)
  BY <1>6, <1>9 DEF Once
<1>15. \A j \in 1 .. m : s[j] \in ToSet(g.called) => j <= k
  <2>1. \A j \in 1 .. m : s[j] \in ToSet(f.called) => j < k
    BY <1>8 DEF Reached
  <2>2. \A x : x \in ToSet(g.called) => x \in ToSet(f.called) \/ x = f.conn
    BY <1>3, <1>12
  <2> QED
    BY <1>9, <1>14, <2>1, <2>2
<1>16. \A j \in 1 .. m : j <= k => s[j] \in ToSet(g.called) \/ s[j] \in BrokenConns
  <2>1. \A j \in 1 .. m : j < k => s[j] \in ToSet(f.called) \/ s[j] \in BrokenConns
    BY <1>8 DEF Reached
  <2>2. \A x : x \in ToSet(f.called) => x \in ToSet(g.called)
    BY <1>3, <1>12
  <2>3. f.conn \in ToSet(g.called) \/ f.conn \in BrokenConns
    BY <1>3, <1>12 DEF BrokenConns
  <2> QED
    BY <1>9, <1>14, <2>1, <2>2, <2>3
<1>17. Reached(g, s, BrokenConns, m, k + 1)
  <2>1. CASE GoneOn(f, g)
    <3>1. g.conn = IF f.conn = f.last THEN None ELSE NextIn(s, f.conn)
      BY <1>5, <2>1 DEF GoneOn, AtLast, NextOf
    <3>2. g.at = "look"
      BY <2>1 DEF GoneOn
    <3> QED
      BY <1>4, <1>6, <1>8, <1>9, <1>15, <1>16, <3>1, <3>2, NextReached
  <2>2. CASE g.at = "slot" /\ g.conn = f.conn
    <3>1. /\ m \in Nat /\ m <= Len(s) /\ (m # 0 => s[m] = g.last)
          /\ k + 1 \in Nat \ {0} /\ k + 1 <= m + 1 /\ k + 1 # 1
      BY <1>4, <1>8, <1>9 DEF Reached
    <3>2. g.conn = s[(k + 1) - 1]
      BY <1>9, <2>2
    <3>3. \A i \in DOMAIN g.due : \E j \in 1 .. m : g.due[i] = s[j]
      BY <1>4, <1>8 DEF Reached
    <3>4. \A i, j \in DOMAIN g.due : \A x, y \in 1 .. m :
            i < j /\ g.due[i] = s[x] /\ g.due[j] = s[y] => x < y
      BY <1>4, <1>8 DEF Reached
    <3>5. \A j \in 1 .. m : s[j] \in ToSet(g.due) \/ s[j] \in BrokenConns
      BY <1>4, <1>8 DEF Reached
    <3>6. \A j \in 1 .. m : (j <= k <=> j < k + 1)
      BY <1>9
    <3> QED
      BY <1>15, <1>16, <2>2, <3>1, <3>2, <3>3, <3>4, <3>5, <3>6 DEF Reached
  <2> QED
    BY <1>3, <2>1, <2>2
<1>18. EmissionOK(g)'
  <2>1. k + 1 \in Nat
    OBVIOUS
  <2>2. \E i, j \in Nat : Reached(g, lists'[g.obj].of[g.sig], BrokenConns', i, j)
    BY <1>10, <1>17, <2>1
  <2> QED
    BY <1>13, <2>2 DEF EmissionOK, InOrder
<1> QED
  BY <1>1, <1>3, <1>18, EmissionsBecome

LEMMA EmitResumeEmits ==
  ASSUME Good, Emissions, NEW t \in Threads, Step(t), Effect(t), EmitResume(t)
  PROVE  Emissions'
<1>0. Basic /\ Data /\ ListsShape /\ stack[t] # <<>> /\ UNCHANGED <<lists, conn>>
  BY ReturnsFrame DEF Good, EmitResume
<1>1. PICK f : f = Top(t)
  OBVIOUS
<1>2. EmissionOK(f) /\ FrameOK(t, f) /\ f.obj \in Objects /\ f \in Frame
  BY <1>0, <1>1, EmissionsTop, TopOK, FrameTyped DEF Good
<1>3. PICK g \in Frame :
         /\ Becomes(t, f, g) /\ f.op = "emit" /\ f.at = "relock" /\ f.conn \in Conns
         /\ g.at = "look" /\ g.called = f.called /\ g.due = f.due
         /\ IF lists[g.obj].at = "orphaned" THEN g.conn = None ELSE GoneOn(f, g)
  BY <1>0, <1>1, EmitResumeFrame
<1>4. g.obj = f.obj /\ g.op = "emit" /\ f.sig \in Signals
  BY <1>2, <1>3 DEF Becomes, FrameOK, EmitFrame
<1>5. InOrder(g)
  BY <1>2, <1>3 DEF EmissionOK, InOrder
<1>6. CASE lists[g.obj].at = "orphaned"
  <2>1. ~Intact(g.obj)'
    BY <1>0, <1>6 DEF Intact
  <2> QED
    BY <1>1, <1>3, <1>5, <2>1, EmissionsBecome DEF EmissionOK, InOrder
<1>7. CASE lists[g.obj].at # "orphaned"
  <2>1. Intact(f.obj)
    BY <1>0, <1>1, <1>3, <1>4, <1>7, IntactWhenEmitting
  <2>2. PICK s : s = lists[f.obj].of[f.sig]
    OBVIOUS
  <2>3. s \in Seq(Conns) /\ Once(s)
    BY <1>0, <1>2, <1>4, <2>2, ListTyped DEF Basic, Data, OnceListed
  <2>4. PICK m, k \in Nat : Reached(f, s, BrokenConns, m, k)
    BY <1>2, <1>3, <2>1, <2>2 DEF EmissionOK
  <2>5. k # 0 /\ k # 1 /\ k <= m + 1 /\ f.conn = s[k - 1]
    BY <1>3, <2>4 DEF Reached
  <2>6. PICK n \in 1 .. m : n = k - 1
    BY <2>5
  <2>7. \A j \in 1 .. m : (j < k <=> j <= n) /\ k = n + 1
    BY <2>6
  <2>8. \A j \in 1 .. m : s[j] \in ToSet(g.called) => j <= n
    BY <1>3, <2>4, <2>7 DEF Reached
  <2>9. \A j \in 1 .. m : j <= n => s[j] \in ToSet(g.called) \/ s[j] \in BrokenConns
    BY <1>3, <2>4, <2>7 DEF Reached
  <2>10. g.last = f.last /\ g.sig = f.sig
         /\ g.conn = IF f.conn = f.last THEN None ELSE NextIn(s, f.conn)
    BY <1>3, <1>7, <2>2 DEF GoneOn, AtLast, NextOf
  <2>11. f.conn = s[n]
    BY <2>5, <2>6
  <2>12. Reached(g, s, BrokenConns, m, n + 1)
    BY <1>3, <2>3, <2>4, <2>8, <2>9, <2>10, <2>11, NextReached
  <2>13. EmissionOK(g)'
    <3>1. n + 1 \in Nat
      OBVIOUS
    <3>2. lists'[g.obj].of[g.sig] = s /\ BrokenConns' = BrokenConns
      BY <1>0, <1>4, <2>2, <2>10 DEF BrokenConns, Broken
    <3>3. \E i, j \in Nat : Reached(g, lists'[g.obj].of[g.sig], BrokenConns', i, j)
      BY <2>12, <3>1, <3>2
    <3> QED
      BY <1>5, <3>3 DEF EmissionOK, InOrder
  <2> QED
    BY <1>1, <1>3, <2>13, EmissionsBecome
<1> QED
  BY <1>6, <1>7

LEMMA EmissionsNext ==
  ASSUME IInv, Emissions, NEW t \in Threads, Step(t) \/ UserCall(t)
  PROVE  Emissions'
<1>1. Good /\ Basic /\ SendersKnown /\ Effect(t)
  <2>1. /\ Good /\ NewConns /\ Basic /\ Data /\ ListsShape
        /\ UnlinksFirst /\ SendersKnown /\ OutOfSenders(t)
    BY GoodImplies DEF IInv, Good
  <2>2. NewToAll(t)
    BY <2>1, NewOfTop
  <2> QED
    BY <2>1, <2>2, DataNext
<1>2. CASE UserCall(t)
  BY <1>1, <1>2, EmissionsUserCall
<1>3. CASE Step(t) /\ (Lock(t) \/ SlotReturn(t))
  BY <1>1, <1>3, EmissionAlike
<1>4. CASE Step(t) /\ (EmitBegin(t) \/ EmitLook(t) \/ EmitResume(t))
  BY <1>1, <1>4, EmitBeginEmits, EmitLookEmits, EmitResumeEmits
<1>5. CASE Step(t) /\ EmitEnd(t)
  <2>1. stack[t] # <<>> /\ Returns(t)
    BY <1>5 DEF EmitEnd, At
  <2> QED
    BY <1>1, <1>5, <2>1, EmissionsReturn
<1>6. CASE /\ Step(t) /\ ~Lock(t) /\ ~SlotReturn(t) /\ ~EmitBegin(t) /\ ~EmitLook(t)
           /\ ~EmitResume(t) /\ ~EmitEnd(t)
  <2>1. stack[t] # <<>> /\ Top(t).op # "emit"
    BY <1>6 DEF Step, At, ConnectEnd, DisconnectBegin, DisconnectList, DisconnectScan,
      DisconnectUnlink, DisconnectZero, DisconnectEnd, DeliverEnd, DeleteBegin, DeleteLists,
      DeleteReceivers, DeleteUnlink, DeleteListsEnd, DeleteSenders, DeleteNode, DeleteEnd
  <2>2. CASE DeleteEnd(t)
    BY <1>1, <1>6, <2>1, <2>2, EmissionsElsewhere DEF DeleteEnd
  <2>3. CASE ~DeleteEnd(t)
    BY <1>1, <1>6, <2>1, <2>3, StepMoves, EmissionsElsewhere
  <2> QED
    BY <2>2, <2>3
<1> QED
  BY <1>2, <1>3, <1>4, <1>5, <1>6

LEMMA EmissionsStutter ==
  ASSUME Emissions, UNCHANGED vars
  PROVE  Emissions'
<1>1. UNCHANGED <<stack, lists, conn>>
  BY DEF vars
<1>2. BrokenConns' = BrokenConns
  BY <1>1 DEF BrokenConns, Broken
<1>3. \A o : Intact(o)' <=> Intact(o)
  BY <1>1 DEF Intact, Deleting
<1>4. \A f : EmissionOK(f) => EmissionOK(f)'
  BY <1>1, <1>2, <1>3 DEF EmissionOK
<1> QED
  BY <1>1, <1>4 DEF Emissions

LEMMA InitEmissions ==
  ASSUME Init
  PROVE  Emissions
<1>1. \A t \in Threads : stack[t] = <<>>
  BY DEF Init
<1>2. \A t \in Threads : DOMAIN stack[t] = {}
  BY <1>1
<1> QED
  BY <1>2 DEF Emissions

LEMMA EmissionsEachOnce ==
  ASSUME IInv, Emissions
  PROVE  EachOnce
<1>0. Good /\ Basic
  BY DEF IInv, Good
<1>1. ASSUME NEW f \in AllFrames, f.op = "emit"
      PROVE  /\ f.called = Without(f.due, ToSet(f.due) \ ToSet(f.called))
             /\ f.at = "look" /\ f.conn = None /\ lists[f.obj].at = "used" =>
                  \A c \in ToSet(f.due) \ ToSet(f.called) : Broken(c)
  <2>1. PICK t \in Threads : f \in Frames(t)
    BY DEF AllFrames
  <2>2. PICK i \in DOMAIN stack[t] : f = stack[t][i]
    BY <2>1 DEF Frames, ToSet
  <2>3. EmissionOK(f) /\ FrameOK(t, f) /\ f \in Frame /\ f.obj \in Objects /\ f.sig \in Signals
    BY <1>0, <1>1, <2>2, FramesOK, FrameTyped DEF Emissions, FrameOK, EmitFrame
  <2>4. f.called = Without(f.due, ToSet(f.due) \ ToSet(f.called))
    BY <1>1, <2>3 DEF EmissionOK, InOrder, Taken, Leaves
  <2>5. ASSUME f.at = "look", f.conn = None, lists[f.obj].at = "used",
               NEW c \in ToSet(f.due) \ ToSet(f.called)
        PROVE  Broken(c)
    <3>1. f = Top(t) /\ stack[t] # <<>>
      <4>1. ~Below(stack[t][i])
        BY <1>1, <2>2, <2>5 DEF Below
      <4> QED
        BY <1>0, <2>2, <4>1, OnlyTop
    <3>2. Intact(f.obj)
      BY <1>0, <1>1, <2>5, <3>1, IntactWhenEmitting
    <3>3. PICK s : s = lists[f.obj].of[f.sig]
      OBVIOUS
    <3>4. PICK m, k \in Nat : Reached(f, s, BrokenConns, m, k)
      BY <1>1, <2>3, <2>5, <3>2, <3>3 DEF EmissionOK
    <3>5. s \in Seq(Conns)
      BY <1>0, <2>3, <3>3, ListTyped DEF Basic
    <3>6. k > m
      <4>1. k \in Nat \ {0} /\ m <= Len(s) /\ None = IF k <= m THEN s[k] ELSE None
        BY <2>5, <3>4 DEF Reached
      <4>2. k <= m => s[k] \in Conns
        BY <3>5, <4>1
      <4> QED
        BY <4>1, <4>2, NoneElsewhere
    <3>7. PICK j \in 1 .. m : c = s[j]
      <4>1. PICK n \in DOMAIN f.due : f.due[n] = c
        BY DEF ToSet
      <4> QED
        BY <3>4, <4>1 DEF Reached
    <3>8. j < k
      BY <3>6
    <3>9. s[j] \in BrokenConns
      BY <3>4, <3>7, <3>8 DEF Reached
    <3> QED
      BY <3>7, <3>9 DEF BrokenConns
  <2> QED
    BY <2>4, <2>5
<1> QED
  BY <1>1 DEF EachOnce

\* "We need to check against last here to ensure that signals added during the
\* signal emission are not emitted in this emission" (activate): an emission
\* calls what was connected when it began, each once and in order, and leaves
\* out only what has been disconnected, whatever its slots and other threads
\* connect, disconnect and delete meanwhile.
THEOREM EachCalledOnce ==
  Spec => []EachOnce
<1>1. IInv /\ Emissions /\ [Next]_vars => Emissions'
  BY EmissionsNext, EmissionsStutter DEF Next
<1> QED
  BY <1>1, InitEmissions, EmissionsEachOnce, Invariance, PTL DEF Spec
=============================================================================
