------------------------- MODULE ConnectionsProofs -------------------------
(***************************************************************************)
(* Proofs about signals and slots (Connections), for any objects, threads, *)
(* signals, connections and mutexes, however the pool gives the mutexes    *)
(* out and however deep the calls are nested.                              *)
(*                                                                         *)
(* The inductive invariant IInv is a conjunction of                        *)
(*   Basic      the variables' types; what a call may look like at each    *)
(*              point of its function; a thread holds the mutexes that its *)
(*              innermost call has locked and no other                     *)
(*   LifeOK, NamedLive  an object is dying while its destructor runs, and  *)
(*              who was given an object finds it alive                     *)
(*   ListsShape what the destructor leaves of the lists at each point      *)
(*   UsersOK    inUse counts the calls that use the lists                  *)
(*   Data       a connection is in one list once, ref counts its uses, the *)
(*              senders of an object have it as their receiver             *)
(*   Walks      who walks a list is at a connection that is in it, and who *)
(*              unlinks one holds the mutex of its receiver                *)
(*   NewConns   a connection under construction is nobody else's           *)
(*   Linked     a receiver has its connections among its senders           *)
(*   Dirt       broken connections are in dirty lists                      *)
(*                                                                         *)
(* Each part is shown to be kept by each step.  The steps are described    *)
(* once: Moves and StepsOn say what a step does to the stacks, Effect what *)
(* it does to the connections, and the parts are proved from these.        *)
(***************************************************************************)
EXTENDS Connections, SequenceTheorems, FiniteSetTheorems, TLAPS

-----------------------------------------------------------------------------
(* Induction over numbers, as a statement about sets, and what Without     *)
(* computes.                                                               *)

LEMMA LeastNumber ==
  ASSUME NEW T \in SUBSET Nat, T # {}
  PROVE  \E x \in T : \A y \in T : x <= y
<1>1. \A x, y \in Nat : <<y, x>> \in OpToRel(<, Nat) <=> y < x
  BY DEF OpToRel
<1>2. PICK R : IsWellFoundedOn(R, Nat) /\ \A x, y \in Nat : <<y, x>> \in R <=> y < x
  BY <1>1, NatLessThanWellFounded, Zenon
<1>3. \E x \in T : \A y \in T : ~ (<<y, x>> \in R)
  BY <1>2, WFMin, Zenon
<1>4. PICK x \in T : \A y \in T : ~ (<<y, x>> \in R)
  BY <1>3
<1>5. ASSUME NEW y \in T PROVE x <= y
  <2>1. x \in Nat /\ y \in Nat
    OBVIOUS
  <2>2. ~(y < x)
    BY <1>2, <1>4, <2>1
  <2> QED
    BY <2>1, <2>2
<1> QED
  BY <1>5

LEMMA Induction ==
  ASSUME NEW S, 0 \in S, \A n \in Nat : n \in S => n + 1 \in S
  PROVE  \A n \in Nat : n \in S
<1> SUFFICES ASSUME Nat \ S # {} PROVE FALSE
  OBVIOUS
<1>1. PICK x \in Nat \ S : \A y \in Nat \ S : x <= y
  BY LeastNumber
<1>2. x # 0 /\ x - 1 \in Nat
  BY <1>1
<1>3. x - 1 \in S
  BY <1>1, <1>2
<1> QED
  BY <1>1, <1>2, <1>3

\* The elements of s up to its n-th that are not in S, in order
Keeps(k, s, S) ==
  \A n \in 0 .. Len(s) :
    k[n] = IF n = 0 THEN <<>>
           ELSE IF s[n] \in S THEN k[n - 1] ELSE Append(k[n - 1], s[n])

LEMMA KeepsAt ==
  ASSUME NEW k, NEW s, NEW S, Len(s) \in Nat, Keeps(k, s, S)
  PROVE  /\ k[0] = <<>>
         /\ \A n \in Nat : n + 1 <= Len(s) =>
              k[n + 1] = IF s[n + 1] \in S THEN k[n] ELSE Append(k[n], s[n + 1])
<1>1. k[0] = <<>>
  BY DEF Keeps
<1>2. ASSUME NEW n \in Nat, n + 1 <= Len(s)
      PROVE  k[n + 1] = IF s[n + 1] \in S THEN k[n] ELSE Append(k[n], s[n + 1])
  <2>1. PICK m \in 0 .. Len(s) : m = n + 1
    BY <1>2
  <2>2. m # 0 /\ m - 1 = n
    BY <2>1
  <2>3. k[m] = IF s[m] \in S THEN k[m - 1] ELSE Append(k[m - 1], s[m])
    BY <2>1, <2>2 DEF Keeps
  <2> QED
    BY <2>1, <2>2, <2>3
<1> QED
  BY <1>1, <1>2

LEMMA WithoutKeeps ==
  ASSUME NEW A, NEW s \in Seq(A), NEW S
  PROVE  \E k \in [0 .. Len(s) -> Seq(A)] : Keeps(k, s, S) /\ Without(s, S) = k[Len(s)]
<1> DEFINE Body(k, n) == IF n = 0 THEN <<>>
                         ELSE IF s[n] \in S THEN k[n - 1] ELSE Append(k[n - 1], s[n])
           Upto(m) == \E k \in [0 .. m -> Seq(A)] : \A n \in 0 .. m : k[n] = Body(k, n)
           Good == {m \in Nat : m <= Len(s) => Upto(m)}
<1>1. Len(s) \in Nat /\ \A n \in 1 .. Len(s) : s[n] \in A
  OBVIOUS
<1>2. Upto(0)
  <2> DEFINE k == [n \in 0 .. 0 |-> <<>>]
  <2>1. k \in [0 .. 0 -> Seq(A)]
    OBVIOUS
  <2>2. \A n \in 0 .. 0 : k[n] = Body(k, n)
    OBVIOUS
  <2> HIDE DEF k
  <2> QED
    BY <2>1, <2>2
<1>3. ASSUME NEW m \in Nat, m + 1 <= Len(s), Upto(m) PROVE Upto(m + 1)
  <2>1. PICK k \in [0 .. m -> Seq(A)] : \A n \in 0 .. m : k[n] = Body(k, n)
    BY <1>3
  <2>2. s[m + 1] \in A /\ k[m] \in Seq(A)
    BY <1>1, <1>3
  <2> DEFINE l == [n \in 0 .. m + 1 |-> IF n = m + 1 THEN
                     (IF s[m + 1] \in S THEN k[m] ELSE Append(k[m], s[m + 1])) ELSE k[n]]
  <2>3. Append(k[m], s[m + 1]) \in Seq(A)
    BY <2>2
  <2>4. l \in [0 .. m + 1 -> Seq(A)]
    BY <2>2, <2>3
  <2>5. ASSUME NEW n \in 0 .. m + 1 PROVE l[n] = Body(l, n)
    <3>1. CASE n = m + 1
      <4>1. n # 0 /\ n - 1 = m /\ l[m] = k[m]
        BY <3>1
      <4>2. l[n] = IF s[n] \in S THEN k[m] ELSE Append(k[m], s[n])
        BY <3>1
      <4> QED
        BY <4>1, <4>2
    <3>2. CASE n # m + 1
      <4>1. n \in 0 .. m /\ l[n] = k[n]
        BY <3>2
      <4>2. n # 0 => n - 1 \in 0 .. m /\ l[n - 1] = k[n - 1]
        BY <4>1
      <4>3. k[n] = Body(k, n)
        BY <2>1, <4>1
      <4> HIDE DEF l
      <4> QED
        BY <4>1, <4>2, <4>3
    <3> QED
      BY <3>1, <3>2
  <2> HIDE DEF l
  <2> QED
    BY <2>4, <2>5
<1>4. Upto(Len(s))
  <2> HIDE DEF Upto
  <2>1. 0 \in Good
    BY <1>2
  <2>2. ASSUME NEW m \in Nat, m \in Good PROVE m + 1 \in Good
    BY <1>1, <1>3, <2>2
  <2> HIDE DEF Good
  <2>3. \A m \in Nat : m \in Good
    BY <2>1, <2>2, Induction
  <2> QED
    BY <1>1, <2>3 DEF Good
<1>5. PICK k \in [0 .. Len(s) -> Seq(A)] : \A n \in 0 .. Len(s) : k[n] = Body(k, n)
  BY <1>4
<1>6. k = [n \in 0 .. Len(s) |-> Body(k, n)]
  BY <1>5
<1>7. PICK l : l = [n \in 0 .. Len(s) |-> Body(l, n)] /\ Without(s, S) = l[Len(s)]
  <2> DEFINE l == CHOOSE l : l = [n \in 0 .. Len(s) |-> Body(l, n)]
  <2>1. l = [n \in 0 .. Len(s) |-> Body(l, n)]
    BY <1>6
  <2>2. Without(s, S) = l[Len(s)]
    BY DEF Without
  <2> HIDE DEF l
  <2> QED
    BY <2>1, <2>2
<1>8. Keeps(l, s, S) /\ DOMAIN l = 0 .. Len(s)
  BY <1>7 DEF Keeps
<1>0. /\ l[0] = <<>>
      /\ \A n \in Nat : n + 1 <= Len(s) =>
           l[n + 1] = IF s[n + 1] \in S THEN l[n] ELSE Append(l[n], s[n + 1])
  <2> HIDE DEF Body, Upto, Good
  <2> QED
    BY <1>1, <1>8, KeepsAt
<1>9. l \in [0 .. Len(s) -> Seq(A)]
  <2> DEFINE Typed == {n \in Nat : n <= Len(s) => l[n] \in Seq(A)}
  <2>1. 0 \in Typed
    <3>1. <<>> \in Seq(A)
      OBVIOUS
    <3>2. l[0] \in Seq(A)
      BY <1>0, <3>1
    <3> QED
      BY <3>2
  <2>2. ASSUME NEW n \in Nat, n \in Typed PROVE n + 1 \in Typed
    <3> SUFFICES ASSUME n + 1 <= Len(s) PROVE l[n + 1] \in Seq(A)
      OBVIOUS
    <3>1. l[n] \in Seq(A) /\ s[n + 1] \in A
      BY <1>1, <2>2
    <3>2. l[n + 1] = IF s[n + 1] \in S THEN l[n] ELSE Append(l[n], s[n + 1])
      BY <1>0
    <3> QED
      BY <3>1, <3>2
  <2> HIDE DEF Typed
  <2>3. \A n \in Nat : n \in Typed
    BY <2>1, <2>2, Induction
  <2>4. \A n \in 0 .. Len(s) : l[n] \in Seq(A)
    BY <1>1, <2>3 DEF Typed
  <2> QED
    BY <1>7, <2>4
<1> QED
  BY <1>7, <1>8, <1>9

\* What Without computes: a sequence of the elements of s that are not in S,
\* each once if each was in s once.
LEMMA WithoutElements ==
  ASSUME NEW A, NEW s \in Seq(A), NEW S
  PROVE  /\ Without(s, S) \in Seq(A)
         /\ ToSet(Without(s, S)) = ToSet(s) \ S
         /\ (\A i, j \in DOMAIN s : s[i] = s[j] => i = j) =>
              \A i, j \in DOMAIN Without(s, S) :
                Without(s, S)[i] = Without(s, S)[j] => i = j
<1>1. PICK k \in [0 .. Len(s) -> Seq(A)] : Keeps(k, s, S) /\ Without(s, S) = k[Len(s)]
  BY WithoutKeeps
<1>2. Len(s) \in Nat /\ DOMAIN s = 1 .. Len(s)
  OBVIOUS
<1>0. /\ k[0] = <<>>
      /\ \A n \in Nat : n + 1 <= Len(s) =>
           k[n + 1] = IF s[n + 1] \in S THEN k[n] ELSE Append(k[n], s[n + 1])
  BY <1>1, <1>2, KeepsAt
<1> DEFINE Some(n) == {s[i] : i \in 1 .. n} \ S
           Once(q) == \A i, j \in 1 .. Len(q) : q[i] = q[j] => i = j
           Holds(n) == /\ {k[n][i] : i \in 1 .. Len(k[n])} = Some(n)
                       /\ Once(s) => Once(k[n])
           Good == {n \in Nat : n <= Len(s) => Holds(n)}
<1>3. Holds(0)
  <2>1. k[0] = <<>>
    BY <1>0
  <2> QED
    BY <2>1
<1>4. ASSUME NEW n \in Nat, n + 1 <= Len(s), Holds(n) PROVE Holds(n + 1)
  <2>1. k[n] \in Seq(A) /\ Len(k[n]) \in Nat
    BY <1>2, <1>4
  <2>2. k[n + 1] = IF s[n + 1] \in S THEN k[n] ELSE Append(k[n], s[n + 1])
    BY <1>0, <1>4
  <2>3. Some(n + 1) = Some(n) \cup ({s[n + 1]} \ S)
    BY <1>4
  <2>4. CASE s[n + 1] \in S
    BY <1>4, <2>2, <2>3, <2>4
  <2>5. CASE s[n + 1] \notin S
    <3>1. s[n + 1] \in A
      BY <1>2, <1>4
    <3>2. PICK q : q = Append(k[n], s[n + 1])
      OBVIOUS
    <3>3. /\ Len(q) = Len(k[n]) + 1 /\ q[Len(k[n]) + 1] = s[n + 1]
          /\ \A i \in 1 .. Len(k[n]) : q[i] = k[n][i]
      BY <2>1, <3>1, <3>2
    <3>4. k[n + 1] = q
      BY <2>2, <2>5, <3>2
    <3>5. {q[i] : i \in 1 .. Len(q)} = {k[n][i] : i \in 1 .. Len(k[n])} \cup {s[n + 1]}
      <4>1. \A i \in 1 .. Len(q) : i \in 1 .. Len(k[n]) \/ i = Len(k[n]) + 1
        BY <2>1, <3>3
      <4>2. \A i \in 1 .. Len(k[n]) : i \in 1 .. Len(q)
        BY <2>1, <3>3
      <4>3. Len(k[n]) + 1 \in 1 .. Len(q)
        BY <2>1, <3>3
      <4> QED
        BY <3>3, <4>1, <4>2, <4>3
    <3>6. ASSUME Once(s) PROVE Once(q)
      <4>1. \A i \in 1 .. Len(k[n]) : k[n][i] # s[n + 1]
        <5>1. \A i \in 1 .. Len(k[n]) : \E j \in 1 .. n : k[n][i] = s[j]
          BY <1>4
        <5>2. \A j \in 1 .. n : s[j] # s[n + 1]
          BY <1>2, <1>4, <3>6
        <5> QED
          BY <5>1, <5>2
      <4>2. Once(k[n])
        BY <1>4, <3>6
      <4>3. \A i \in 1 .. Len(q) : i \in 1 .. Len(k[n]) \/ i = Len(k[n]) + 1
        BY <2>1, <3>3
      <4> QED
        BY <3>3, <4>1, <4>2, <4>3
    <3>7. {k[n + 1][i] : i \in 1 .. Len(k[n + 1])} = Some(n + 1)
      <4>1. PICK X : X = {k[n][i] : i \in 1 .. Len(k[n])}
        OBVIOUS
      <4>2. {q[i] : i \in 1 .. Len(q)} = X \cup {s[n + 1]}
        BY <3>5, <4>1, Zenon
      <4>3. X = Some(n)
        BY <1>4, <4>1, Zenon
      <4> QED
        BY <2>3, <2>5, <3>4, <4>2, <4>3
    <3> QED
      BY <3>4, <3>6, <3>7
  <2> QED
    BY <2>4, <2>5
<1>5. Holds(Len(s))
  <2> HIDE DEF Holds
  <2>1. 0 \in Good
    BY <1>3
  <2>2. ASSUME NEW n \in Nat, n \in Good PROVE n + 1 \in Good
    BY <1>2, <1>4, <2>2
  <2> HIDE DEF Good
  <2>3. \A n \in Nat : n \in Good
    BY <2>1, <2>2, Induction
  <2> QED
    BY <1>2, <2>3 DEF Good
<1>6. PICK q : q = Without(s, S)
  OBVIOUS
<1>7. q \in Seq(A) /\ DOMAIN q = 1 .. Len(q) /\ q = k[Len(s)]
  BY <1>1, <1>2, <1>6
<1>8. ToSet(q) = ToSet(s) \ S
  BY <1>2, <1>5, <1>7 DEF ToSet
<1>9. Once(s) => Once(q)
  BY <1>5, <1>7
<1> QED
  BY <1>2, <1>6, <1>7, <1>8, <1>9

-----------------------------------------------------------------------------
(* Types, the frames of each function, and who holds the mutexes.          *)

\* References are counted in integers, until it is shown that they suffice.
SomeLists == [at : {"none", "used", "orphaned", "deleted"}, inUse : Int,
              dirty : BOOLEAN, of : [Signals -> Seq(Conns)]]
SomeConnection == [sender : Objects \cup {None}, receiver : Objects \cup {None}, ref : Int]

Typed ==
  /\ life \in [Objects -> {"alive", "dying", "dead"}]
  /\ lists \in [Objects -> SomeLists] /\ senders \in [Objects -> Seq(Conns)]
  /\ conn \in [Conns -> SomeConnection] /\ handles \subseteq Conns
  /\ currentSender \in [Objects -> Nat] /\ dropped \in [Threads -> SUBSET Nat]
  /\ metaCalls \in [Objects -> Seq(Objects)]
  /\ stack \in [Threads -> Seq(Frame)] /\ holder \in [Mutexes -> Threads \cup {Free}]
  /\ calls \in 0 .. MaxCalls

\* The frames of each function, by the point it has reached
ConnectFrame(f) ==
  f.op = "connect" => /\ f.at = "begin" /\ f.other \in Objects
                      /\ f.sig \in Signals /\ f.conn \in Conns
DisconnectFrame(f) ==
  f.op = "disconnect" => /\ f.at \in {"begin", "scan", "unlink", "zero"}
                         /\ f.at \in {"unlink", "zero"} => f.conn \in Conns
                         /\ f.conn # None => f.sig \in Signals
EmitFrame(t, f) ==
  f.op = "emit" => /\ f.at \in {"begin", "look", "slot", "relock"}
                   /\ f.sig \in Signals /\ Home[f.obj] = t
                   /\ f.at \in {"slot", "relock"} =>
                        f.conn \in Conns /\ f.other \in Objects /\ Home[f.other] = t
EventFrame(t, f) == f.op = "event" => f.at = "slot" /\ Home[f.obj] = t
DeleteFrame(t, f) ==
  f.op = "delete" => /\ f.at \in {"begin", "lists", "receivers", "unlink", "senders",
                                  "node", "free"}
                     /\ Home[f.obj] = t
                     /\ f.at = "unlink" => f.conn \in Conns /\ f.sig \in Signals
                     /\ f.at # "unlink" => f.conn = None
                     /\ f.at = "node" => f.other \in Objects
FrameOK(t, f) ==
  /\ f \in Frame /\ ConnectFrame(f) /\ DisconnectFrame(f) /\ EmitFrame(t, f)
  /\ EventFrame(t, f) /\ DeleteFrame(t, f)
  /\ f.op # "emit" => f.last = None

\* The mutexes that a call holds or is about to lock, and those it holds
Own(f) ==
  /\ f.op # "event"
  /\ f.op = "emit" => f.at # "slot"
  /\ f.op = "delete" => f.at \notin {"begin", "free"}
Needs(f, m) ==
  \/ Own(f) /\ m = MutexOf[f.obj]
  \/ m = f.mutex
  \/ f.op \in {"connect", "disconnect"} /\ f.other # None /\ m = MutexOf[f.other]
Holds(f, m) == Needs(f, m) /\ m \notin ToSet(f.want)

WantOK(f) ==
  /\ \A i \in DOMAIN f.want : Needs(f, f.want[i])
  /\ \A i, j \in DOMAIN f.want : f.want[i] = f.want[j] => i = j
  /\ f.want # <<>> => f.at \in {"begin", "unlink", "relock", "lists", "node"} /\ Own(f)
  /\ f.mutex # None => /\ f.mutex # MutexOf[f.obj] /\ f.at \in {"unlink", "node"}
                       /\ f.op \in {"disconnect", "delete"}
                       /\ f.op = "disconnect" => f.other = None
  /\ f.at = "node" => f.mutex = MutexOf[f.other] \/ MutexOf[f.obj] = MutexOf[f.other]

\* Calls that others are nested in
Below(f) == f.at = "slot" \/ (f.op = "delete" /\ f.at = "begin")

Shape ==
  \A t \in Threads : \A i \in DOMAIN stack[t] :
    /\ FrameOK(t, stack[t][i]) /\ WantOK(stack[t][i])
    /\ i # Len(stack[t]) => Below(stack[t][i])

\* A thread holds the mutexes that the function it executes has locked, and
\* those only.
HeldByTop ==
  \A t \in Threads, m \in Mutexes :
    holder[m] = t <=> stack[t] # <<>> /\ Holds(Top(t), m)

Basic == Typed /\ Shape /\ HeldByTop

-----------------------------------------------------------------------------
(* What the operations do to the stacks.                                   *)

LEMMA TopFrame ==
  ASSUME stack \in [Threads -> Seq(Frame)], NEW t \in Threads, stack[t] # <<>>
  PROVE  /\ Len(stack[t]) \in Nat \ {0} /\ DOMAIN stack[t] = 1 .. Len(stack[t])
         /\ Len(stack[t]) \in DOMAIN stack[t]
         /\ Top(t) = stack[t][Len(stack[t])] /\ Top(t) \in Frame
<1>1. stack[t] \in Seq(Frame)
  OBVIOUS
<1> QED
  BY <1>1 DEF Top, Last

LEMMA GoesStack ==
  ASSUME stack \in [Threads -> Seq(Frame)], NEW t \in Threads, stack[t] # <<>>,
         NEW g \in Frame, Goes(t, g)
  PROVE  /\ stack' \in [Threads -> Seq(Frame)]
         /\ \A u \in Threads : u # t => stack'[u] = stack[u]
         /\ Len(stack'[t]) = Len(stack[t]) /\ stack'[t] # <<>>
         /\ DOMAIN stack'[t] = DOMAIN stack[t]
         /\ stack'[t][Len(stack[t])] = g /\ Top(t)' = g
         /\ \A i \in DOMAIN stack[t] : i # Len(stack[t]) => stack'[t][i] = stack[t][i]
<1>1. PICK s : s = stack[t]
  OBVIOUS
<1>2. s \in Seq(Frame) /\ Len(s) \in Nat \ {0} /\ DOMAIN s = 1 .. Len(s)
  BY <1>1
<1>3. PICK r : r = SubSeq(s, 1, Len(s) - 1)
  OBVIOUS
<1>4. /\ r \in Seq(Frame) /\ Len(r) = Len(s) - 1
      /\ \A i \in 1 .. Len(s) - 1 : r[i] = s[i]
  BY <1>2, <1>3
<1>5. PICK q : q = Append(r, g)
  OBVIOUS
<1>6. /\ q \in Seq(Frame) /\ Len(q) = Len(s) /\ DOMAIN q = 1 .. Len(q)
      /\ q[Len(s)] = g /\ \A i \in 1 .. Len(s) - 1 : q[i] = s[i]
  <2>1. /\ q \in Seq(Frame) /\ Len(q) = Len(r) + 1 /\ DOMAIN q = 1 .. Len(q)
        /\ q[Len(r) + 1] = g /\ \A i \in 1 .. Len(r) : q[i] = r[i]
    BY <1>4, <1>5, AppendProperties
  <2>2. Len(r) + 1 = Len(s) /\ Len(s) - 1 = Len(r)
    BY <1>2, <1>4
  <2> QED
    BY <1>4, <2>1, <2>2
<1>7. stack' = [stack EXCEPT ![t] = q]
  BY <1>1, <1>3, <1>5 DEF Goes, Front
<1>8. stack'[t] = q /\ \A u \in Threads : u # t => stack'[u] = stack[u]
  BY <1>7
<1>9. stack' \in [Threads -> Seq(Frame)]
  BY <1>6, <1>7
<1>10. Top(t)' = g
  BY <1>6, <1>8 DEF Top, Last
<1> QED
  BY <1>1, <1>2, <1>6, <1>8, <1>9, <1>10

LEMMA EntersStack ==
  ASSUME stack \in [Threads -> Seq(Frame)], NEW t \in Threads,
         NEW g \in Frame, Enters(t, g)
  PROVE  /\ stack' \in [Threads -> Seq(Frame)]
         /\ \A u \in Threads : u # t => stack'[u] = stack[u]
         /\ Len(stack[t]) \in Nat /\ DOMAIN stack[t] = 1 .. Len(stack[t])
         /\ Len(stack'[t]) = Len(stack[t]) + 1 /\ stack'[t] # <<>>
         /\ DOMAIN stack'[t] = 1 .. Len(stack[t]) + 1
         /\ stack'[t][Len(stack[t]) + 1] = g /\ Top(t)' = g
         /\ \A i \in DOMAIN stack[t] : stack'[t][i] = stack[t][i]
<1>1. PICK s : s = stack[t]
  OBVIOUS
<1>2. s \in Seq(Frame) /\ Len(s) \in Nat /\ DOMAIN s = 1 .. Len(s)
  BY <1>1
<1>5. PICK q : q = Append(s, g)
  OBVIOUS
<1>6. /\ q \in Seq(Frame) /\ Len(q) = Len(s) + 1 /\ DOMAIN q = 1 .. Len(q)
      /\ q[Len(s) + 1] = g /\ \A i \in 1 .. Len(s) : q[i] = s[i]
  BY <1>2, <1>5
<1>7. stack' = [stack EXCEPT ![t] = q]
  BY <1>1, <1>5 DEF Enters
<1>8. stack'[t] = q /\ \A u \in Threads : u # t => stack'[u] = stack[u]
  BY <1>7
<1>9. stack' \in [Threads -> Seq(Frame)]
  BY <1>6, <1>7
<1>10. Top(t)' = g
  BY <1>6, <1>8 DEF Top, Last
<1>11. q # <<>>
  BY <1>2, <1>6
<1> QED
  BY <1>1, <1>2, <1>6, <1>8, <1>9, <1>10, <1>11

LEMMA ReturnsStack ==
  ASSUME stack \in [Threads -> Seq(Frame)], NEW t \in Threads, stack[t] # <<>>, Returns(t)
  PROVE  /\ stack' \in [Threads -> Seq(Frame)]
         /\ \A u \in Threads : u # t => stack'[u] = stack[u]
         /\ Len(stack'[t]) = Len(stack[t]) - 1
         /\ DOMAIN stack'[t] = 1 .. Len(stack[t]) - 1
         /\ \A i \in DOMAIN stack'[t] : i \in DOMAIN stack[t] /\ stack'[t][i] = stack[t][i]
         /\ stack'[t] # <<>> => Top(t)' = stack[t][Len(stack[t]) - 1]
<1>1. PICK s : s = stack[t]
  OBVIOUS
<1>2. s \in Seq(Frame) /\ Len(s) \in Nat \ {0} /\ DOMAIN s = 1 .. Len(s)
  BY <1>1
<1>3. PICK r : r = SubSeq(s, 1, Len(s) - 1)
  OBVIOUS
<1>4. /\ r \in Seq(Frame) /\ Len(r) = Len(s) - 1 /\ DOMAIN r = 1 .. Len(s) - 1
      /\ \A i \in 1 .. Len(s) - 1 : r[i] = s[i]
  BY <1>2, <1>3
<1>7. stack' = [stack EXCEPT ![t] = r]
  BY <1>1, <1>3 DEF Returns, Front
<1>8. stack'[t] = r /\ \A u \in Threads : u # t => stack'[u] = stack[u]
  BY <1>7
<1>9. stack' \in [Threads -> Seq(Frame)]
  BY <1>4, <1>7
<1>10. stack'[t] # <<>> => Top(t)' = s[Len(s) - 1]
  BY <1>2, <1>4, <1>8 DEF Top, Last
<1>11. \A i \in DOMAIN r : i \in DOMAIN s /\ r[i] = s[i]
  BY <1>2, <1>4
<1> QED
  BY <1>1, <1>2, <1>4, <1>8, <1>9, <1>10, <1>11

-----------------------------------------------------------------------------
(* How a step of one thread keeps the shape of the stacks and the mutexes  *)
(* with the functions that execute.                                        *)

LEMMA TopOK ==
  ASSUME Basic, NEW t \in Threads, stack[t] # <<>>
  PROVE  /\ FrameOK(t, Top(t)) /\ WantOK(Top(t)) /\ Top(t) \in Frame
         /\ \A m \in Mutexes : holder[m] = t <=> Holds(Top(t), m)
<1>1. Top(t) = stack[t][Len(stack[t])] /\ Len(stack[t]) \in DOMAIN stack[t]
  BY TopFrame DEF Basic, Typed
<1>2. FrameOK(t, Top(t)) /\ WantOK(Top(t))
  BY <1>1 DEF Basic, Shape
<1>3. \A m \in Mutexes : holder[m] = t <=> Holds(Top(t), m)
  BY DEF Basic, HeldByTop
<1> QED
  BY <1>2, <1>3 DEF FrameOK

LEMMA HeldMoves ==
  ASSUME Basic, NEW t \in Threads,
         \A u \in Threads : u # t => stack'[u] = stack[u],
         \A m \in Mutexes : holder'[m] = t <=> stack'[t] # <<>> /\ Holds(Top(t)', m),
         \A m \in Mutexes, u \in Threads : u # t => (holder'[m] = u <=> holder[m] = u)
  PROVE  HeldByTop'
<1> SUFFICES ASSUME NEW u \in Threads, NEW m \in Mutexes
             PROVE  holder'[m] = u <=> stack'[u] # <<>> /\ Holds(Top(u)', m)
  BY DEF HeldByTop, Holds, Needs, Own
<1>1. CASE u = t
  BY <1>1
<1>2. CASE u # t
  <2>1. stack'[u] = stack[u] /\ Top(u)' = Top(u)
    BY <1>2 DEF Top
  <2>2. holder[m] = u <=> stack[u] # <<>> /\ Holds(Top(u), m)
    BY DEF Basic, HeldByTop
  <2> QED
    BY <1>2, <2>1, <2>2
<1> QED
  BY <1>1, <1>2

LEMMA ShapeGoes ==
  ASSUME Basic, NEW t \in Threads, stack[t] # <<>>,
         NEW g, FrameOK(t, g), WantOK(g), Goes(t, g)
  PROVE  stack' \in [Threads -> Seq(Frame)] /\ Shape'
<1>1. stack \in [Threads -> Seq(Frame)] /\ g \in Frame
  BY DEF Basic, Typed, FrameOK
<1>2. /\ stack' \in [Threads -> Seq(Frame)]
      /\ \A u \in Threads : u # t => stack'[u] = stack[u]
      /\ Len(stack'[t]) = Len(stack[t])
      /\ DOMAIN stack'[t] = DOMAIN stack[t]
      /\ stack'[t][Len(stack[t])] = g
      /\ \A i \in DOMAIN stack[t] : i # Len(stack[t]) => stack'[t][i] = stack[t][i]
  BY <1>1, GoesStack
<1>3. ASSUME NEW u \in Threads, NEW i \in DOMAIN stack'[u]
      PROVE  /\ FrameOK(u, stack'[u][i]) /\ WantOK(stack'[u][i])
             /\ i # Len(stack'[u]) => Below(stack'[u][i])
  <2>1. CASE u = t /\ i = Len(stack[t])
    BY <1>2, <2>1
  <2>2. CASE ~(u = t /\ i = Len(stack[t]))
    <3>1. i \in DOMAIN stack[u] /\ stack'[u][i] = stack[u][i] /\ Len(stack'[u]) = Len(stack[u])
      BY <1>2, <1>3, <2>2
    <3> QED
      BY <3>1 DEF Basic, Shape
  <2> QED
    BY <2>1, <2>2
<1> QED
  BY <1>2, <1>3 DEF Shape, FrameOK, WantOK, Below, ConnectFrame, DisconnectFrame,
    EmitFrame, EventFrame, DeleteFrame, Needs, Own

LEMMA ShapeEnters ==
  ASSUME Basic, NEW t \in Threads, stack[t] # <<>> => Below(Top(t)),
         NEW g, FrameOK(t, g), WantOK(g), Enters(t, g)
  PROVE  stack' \in [Threads -> Seq(Frame)] /\ Shape'
<1>1. stack \in [Threads -> Seq(Frame)] /\ g \in Frame
  BY DEF Basic, Typed, FrameOK
<1>2. /\ stack' \in [Threads -> Seq(Frame)]
      /\ \A u \in Threads : u # t => stack'[u] = stack[u]
      /\ Len(stack[t]) \in Nat /\ DOMAIN stack[t] = 1 .. Len(stack[t])
      /\ Len(stack'[t]) = Len(stack[t]) + 1
      /\ DOMAIN stack'[t] = 1 .. Len(stack[t]) + 1
      /\ stack'[t][Len(stack[t]) + 1] = g
      /\ \A i \in DOMAIN stack[t] : stack'[t][i] = stack[t][i]
  BY <1>1, EntersStack
<1>3. ASSUME NEW u \in Threads, NEW i \in DOMAIN stack'[u]
      PROVE  /\ FrameOK(u, stack'[u][i]) /\ WantOK(stack'[u][i])
             /\ i # Len(stack'[u]) => Below(stack'[u][i])
  <2>1. CASE u = t /\ i = Len(stack[t]) + 1
    BY <1>2, <2>1
  <2>2. CASE u = t /\ i # Len(stack[t]) + 1
    <3>1. i \in DOMAIN stack[t] /\ stack'[t][i] = stack[t][i]
      BY <1>2, <1>3, <2>2
    <3>2. FrameOK(t, stack[t][i]) /\ WantOK(stack[t][i])
          /\ (i # Len(stack[t]) => Below(stack[t][i]))
      BY <3>1 DEF Basic, Shape
    <3>3. i = Len(stack[t]) => Below(stack[t][i])
      <4> SUFFICES ASSUME i = Len(stack[t]) PROVE Below(stack[t][i])
        OBVIOUS
      <4>1. stack[t] # <<>>
        BY <3>1
      <4> QED
        BY <1>1, <4>1, TopFrame
    <3> QED
      BY <2>2, <3>1, <3>2, <3>3
  <2>3. CASE u # t
    <3>1. i \in DOMAIN stack[u] /\ stack'[u] = stack[u]
      BY <1>2, <1>3, <2>3
    <3> QED
      BY <3>1 DEF Basic, Shape
  <2> QED
    BY <2>1, <2>2, <2>3
<1> QED
  BY <1>2, <1>3 DEF Shape, FrameOK, WantOK, Below, ConnectFrame, DisconnectFrame,
    EmitFrame, EventFrame, DeleteFrame, Needs, Own

LEMMA ShapeReturns ==
  ASSUME Basic, NEW t \in Threads, stack[t] # <<>>, Returns(t)
  PROVE  stack' \in [Threads -> Seq(Frame)] /\ Shape'
         /\ (stack'[t] # <<>> => /\ FrameOK(t, Top(t)') /\ WantOK(Top(t)')
                                 /\ Below(Top(t)'))
<1>1. stack \in [Threads -> Seq(Frame)]
  BY DEF Basic, Typed
<1>2. /\ stack' \in [Threads -> Seq(Frame)]
      /\ \A u \in Threads : u # t => stack'[u] = stack[u]
      /\ Len(stack'[t]) = Len(stack[t]) - 1
      /\ DOMAIN stack'[t] = 1 .. Len(stack[t]) - 1
      /\ \A i \in DOMAIN stack'[t] : i \in DOMAIN stack[t] /\ stack'[t][i] = stack[t][i]
      /\ stack'[t] # <<>> => Top(t)' = stack[t][Len(stack[t]) - 1]
  BY <1>1, ReturnsStack
<1>3. Len(stack[t]) \in Nat \ {0} /\ DOMAIN stack[t] = 1 .. Len(stack[t])
  BY <1>1, TopFrame
<1>4. \A i \in DOMAIN stack[t] : i # Len(stack[t]) =>
        FrameOK(t, stack[t][i]) /\ WantOK(stack[t][i]) /\ Below(stack[t][i])
  BY DEF Basic, Shape
<1>5. ASSUME NEW u \in Threads, NEW i \in DOMAIN stack'[u]
      PROVE  /\ FrameOK(u, stack'[u][i]) /\ WantOK(stack'[u][i])
             /\ i # Len(stack'[u]) => Below(stack'[u][i])
  <2>1. CASE u = t
    <3>1. i \in DOMAIN stack[t] /\ stack'[t][i] = stack[t][i] /\ i # Len(stack[t])
      BY <1>2, <1>3, <1>5, <2>1
    <3> QED
      BY <1>4, <2>1, <3>1
  <2>2. CASE u # t
    <3>1. i \in DOMAIN stack[u] /\ stack'[u] = stack[u]
      BY <1>2, <1>5, <2>2
    <3> QED
      BY <3>1 DEF Basic, Shape
  <2> QED
    BY <2>1, <2>2
<1>6. ASSUME stack'[t] # <<>>
      PROVE  FrameOK(t, Top(t)') /\ WantOK(Top(t)') /\ Below(Top(t)')
  <2>1. Len(stack[t]) - 1 \in DOMAIN stack[t]
    <3>1. stack'[t] \in Seq(Frame)
      BY <1>2
    <3>2. Len(stack'[t]) # 0
      BY <1>6, <3>1, EmptySeq
    <3>3. PICK n \in Nat \ {0} : n = Len(stack[t])
      BY <1>3
    <3>4. n - 1 # 0
      BY <1>2, <3>2, <3>3
    <3>5. n - 1 \in 1 .. n
      BY <3>4
    <3> QED
      BY <1>3, <3>3, <3>5
  <2>2. Len(stack[t]) - 1 # Len(stack[t])
    BY <1>3
  <2> QED
    BY <1>2, <1>4, <1>6, <2>1, <2>2
<1>7. Shape'
  BY <1>2, <1>5 DEF Shape, FrameOK, WantOK, Below, ConnectFrame, DisconnectFrame,
    EmitFrame, EventFrame, DeleteFrame, Needs, Own
<1> QED
  BY <1>2, <1>6, <1>7

\* A call in which another is nested holds no mutex.
LEMMA BelowHolds ==
  ASSUME NEW t, NEW f, FrameOK(t, f), WantOK(f), Below(f), NEW m \in Mutexes
  PROVE  ~Needs(f, m)
BY ConnectionsAssumption DEF FrameOK, WantOK, Below, Needs, Own, Frame, ConnectFrame,
  DisconnectFrame, EmitFrame, EventFrame, DeleteFrame

LEMMA UserCodeHolds ==
  ASSUME Basic, NEW t \in Threads, InUserCode(t)
  PROVE  /\ stack[t] # <<>> => Below(Top(t))
         /\ \A m \in Mutexes : holder[m] # t
<1>1. stack[t] # <<>> => Below(Top(t))
  BY DEF InUserCode, Below
<1>2. ASSUME NEW m \in Mutexes PROVE holder[m] # t
  <2>1. CASE stack[t] = <<>>
    BY <2>1 DEF Basic, HeldByTop
  <2>2. CASE stack[t] # <<>>
    BY <1>1, <2>2, TopOK, BelowHolds DEF Holds
  <2> QED
    BY <2>1, <2>2
<1> QED
  BY <1>1, <1>2

\* User code calls a function, which has locked nothing yet.
LEMMA CallStep ==
  ASSUME Basic, NEW t \in Threads, InUserCode(t),
         NEW g, FrameOK(t, g), WantOK(g), \A m \in Mutexes : ~Holds(g, m),
         Enters(t, g), UNCHANGED holder
  PROVE  stack' \in [Threads -> Seq(Frame)] /\ Shape' /\ HeldByTop'
<1>1. stack \in [Threads -> Seq(Frame)] /\ g \in Frame
  BY DEF Basic, Typed, FrameOK
<1>2. Top(t)' = g /\ \A u \in Threads : u # t => stack'[u] = stack[u]
  BY <1>1, EntersStack
<1>3. (stack[t] # <<>> => Below(Top(t))) /\ \A m \in Mutexes : holder[m] # t
  BY UserCodeHolds
<1>4. stack' \in [Threads -> Seq(Frame)] /\ Shape'
  BY <1>3, ShapeEnters
<1>5. HeldByTop'
  BY <1>2, <1>3, HeldMoves
<1> QED
  BY <1>4, <1>5

\* A function goes on with the mutexes that it holds.
LEMMA GoesStep ==
  ASSUME Basic, NEW t \in Threads, stack[t] # <<>>,
         NEW g, FrameOK(t, g), WantOK(g),
         \A m \in Mutexes : Holds(g, m) <=> Holds(Top(t), m),
         Goes(t, g), UNCHANGED holder
  PROVE  stack' \in [Threads -> Seq(Frame)] /\ Shape' /\ HeldByTop'
<1>1. stack \in [Threads -> Seq(Frame)] /\ g \in Frame
  BY DEF Basic, Typed, FrameOK
<1>2. /\ Top(t)' = g /\ stack'[t] # <<>>
      /\ \A u \in Threads : u # t => stack'[u] = stack[u]
  BY <1>1, GoesStack
<1>3. stack' \in [Threads -> Seq(Frame)] /\ Shape'
  BY ShapeGoes
<1>4. \A m \in Mutexes : holder[m] = t <=> Holds(Top(t), m)
  BY TopOK
<1>5. HeldByTop'
  BY <1>2, <1>4, HeldMoves
<1> QED
  BY <1>3, <1>5

\* A function returns when it has unlocked what it held.
LEMMA ReturnStep ==
  ASSUME Basic, NEW t \in Threads, stack[t] # <<>>, Returns(t),
         \A m \in Mutexes : holder'[m] # t,
         \A m \in Mutexes, u \in Threads : u # t => (holder'[m] = u <=> holder[m] = u)
  PROVE  stack' \in [Threads -> Seq(Frame)] /\ Shape' /\ HeldByTop'
<1>1. stack \in [Threads -> Seq(Frame)]
  BY DEF Basic, Typed
<1>2. \A u \in Threads : u # t => stack'[u] = stack[u]
  BY <1>1, ReturnsStack
<1>3. /\ stack' \in [Threads -> Seq(Frame)] /\ Shape'
      /\ stack'[t] # <<>> => FrameOK(t, Top(t)') /\ WantOK(Top(t)') /\ Below(Top(t)')
  BY ShapeReturns
<1>4. \A m \in Mutexes : stack'[t] # <<>> => ~Holds(Top(t)', m)
  BY <1>3, BelowHolds DEF Holds
<1>5. HeldByTop'
  BY <1>2, <1>4, HeldMoves
<1> QED
  BY <1>3, <1>5

\* What UnlockAll and UnlockOther do
LEMMA UnlockAllFrees ==
  ASSUME Typed, NEW t \in Threads, UnlockAll(t)
  PROVE  /\ holder' \in [Mutexes -> Threads \cup {Free}]
         /\ \A m \in Mutexes : holder'[m] # t
         /\ \A m \in Mutexes, u \in Threads : u # t => (holder'[m] = u <=> holder[m] = u)
BY ConnectionsAssumption DEF Typed, UnlockAll

-----------------------------------------------------------------------------
(* Sequences.                                                              *)

LEMMA HeadAndTail ==
  ASSUME NEW A, NEW s \in Seq(A), s # <<>>
  PROVE  /\ Head(s) \in A /\ Head(s) \in ToSet(s) /\ Tail(s) \in Seq(A)
         /\ ToSet(s) = {Head(s)} \cup ToSet(Tail(s))
         /\ \A i \in DOMAIN Tail(s) : i + 1 \in DOMAIN s /\ Tail(s)[i] = s[i + 1]
         /\ (\A i, j \in DOMAIN s : s[i] = s[j] => i = j) =>
              /\ ToSet(Tail(s)) = ToSet(s) \ {Head(s)}
              /\ \A i, j \in DOMAIN Tail(s) : Tail(s)[i] = Tail(s)[j] => i = j
<1>1. PICK r : r = Tail(s)
  OBVIOUS
<1>2. PICK n \in Nat \ {0} : n = Len(s)
  OBVIOUS
<1>3. /\ r \in Seq(A) /\ DOMAIN r = 1 .. n - 1 /\ DOMAIN s = 1 .. n
      /\ \A i \in 1 .. n - 1 : r[i] = s[i + 1]
  BY <1>1, <1>2
<1>4. Head(s) = s[1] /\ 1 \in 1 .. n
  BY <1>2
<1>5. \A i \in 1 .. n - 1 : i + 1 \in 1 .. n
  BY <1>2
<1>6. \A i \in 1 .. n : i = 1 \/ (i - 1 \in 1 .. n - 1 /\ (i - 1) + 1 = i)
  BY <1>2
<1>7. ToSet(s) = {s[1]} \cup ToSet(r)
  <2>1. ToSet(s) = {s[i] : i \in 1 .. n} /\ ToSet(r) = {r[i] : i \in 1 .. n - 1}
    BY <1>3 DEF ToSet
  <2>2. \A i \in 1 .. n : s[i] \in {s[1]} \cup {r[j] : j \in 1 .. n - 1}
    BY <1>3, <1>6
  <2>3. \A i \in 1 .. n - 1 : r[i] \in {s[j] : j \in 1 .. n}
    BY <1>3, <1>5
  <2>4. s[1] \in {s[j] : j \in 1 .. n}
    BY <1>4
  <2> QED
    BY <2>1, <2>2, <2>3, <2>4
<1>8. ASSUME \A i, j \in 1 .. n : s[i] = s[j] => i = j
      PROVE  /\ ToSet(r) = ToSet(s) \ {s[1]}
             /\ \A i, j \in 1 .. n - 1 : r[i] = r[j] => i = j
  <2>1. \A i \in 1 .. n - 1 : r[i] # s[1]
    <3> TAKE i \in 1 .. n - 1
    <3>1. i + 1 # 1 /\ i + 1 \in 1 .. n /\ r[i] = s[i + 1]
      BY <1>3, <1>5
    <3> QED
      BY <1>4, <1>8, <3>1
  <2>2. s[1] \notin ToSet(r)
    BY <1>3, <2>1 DEF ToSet
  <2>3. \A i, j \in 1 .. n - 1 : r[i] = r[j] => i = j
    <3> SUFFICES ASSUME NEW i \in 1 .. n - 1, NEW j \in 1 .. n - 1, r[i] = r[j]
                 PROVE  i = j
      OBVIOUS
    <3>1. s[i + 1] = s[j + 1] /\ i + 1 \in 1 .. n /\ j + 1 \in 1 .. n
      BY <1>3, <1>5
    <3>2. i + 1 = j + 1
      BY <1>8, <3>1
    <3> QED
      BY <3>2
  <2> QED
    BY <1>7, <2>2, <2>3
<1>9. s[1] \in A
  BY <1>3, <1>4
<1> QED
  BY <1>1, <1>3, <1>4, <1>5, <1>7, <1>8, <1>9

LEMMA ElementsTyped ==
  ASSUME NEW A, NEW s \in Seq(A)
  PROVE  ToSet(s) \subseteq A
BY DEF ToSet

LEMMA FirstTyped ==
  ASSUME NEW A, NEW s \in Seq(A)
  PROVE  /\ First(s) \in A \cup {None}
         /\ First(s) \in ToSet(s) \cup {None}
         /\ s # <<>> => Last(s) \in A /\ Last(s) \in ToSet(s) /\ First(s) \in ToSet(s)
<1>1. s # <<>> => Last(s) \in A /\ Last(s) \in ToSet(s)
  BY DEF Last, ToSet
<1>2. s # <<>> => First(s) \in A /\ First(s) \in ToSet(s)
  BY HeadAndTail DEF First
<1>3. s = <<>> => First(s) = None
  BY DEF First
<1> QED
  BY <1>1, <1>2, <1>3

\* What follows an element of a sequence is one of its elements, or None.
LEMMA NextTyped ==
  ASSUME NEW A, NEW s \in Seq(A), NEW c \in A
  PROVE  /\ NextIn(s, c) \in A \cup {None}
         /\ c \in ToSet(s) => NextIn(s, c) \in ToSet(s) \cup {None}
<1>1. CASE c \notin ToSet(s)
  BY <1>1 DEF NextIn
<1>2. CASE c \in ToSet(s)
  <2>1. DOMAIN s = 1 .. Len(s) /\ Len(s) \in Nat
    OBVIOUS
  <2>2. \E i \in DOMAIN s : s[i] = c
    BY <1>2 DEF ToSet
  <2>3. PICK i : i = CHOOSE j \in DOMAIN s : s[j] = c
    OBVIOUS
  <2>4. i \in DOMAIN s /\ s[i] = c
    BY <2>2, <2>3
  <2>5. NextIn(s, c) = IF i = Len(s) THEN None ELSE s[i + 1]
    BY <1>2, <2>3 DEF NextIn
  <2>6. i # Len(s) => i + 1 \in DOMAIN s
    BY <2>1, <2>4
  <2>7. i # Len(s) => s[i + 1] \in A /\ s[i + 1] \in ToSet(s)
    BY <2>6 DEF ToSet
  <2> QED
    BY <2>5, <2>7
<1> QED
  BY <1>1, <1>2

-----------------------------------------------------------------------------
(* Types.                                                                  *)

LEMMA NoneElsewhere ==
  None \notin Objects /\ None \notin Conns /\ None \notin Mutexes /\ None \notin Signals
<1>1. None \notin Objects \cup Conns \cup Mutexes \cup Signals
  BY ConnectionsAssumption, Zenon
<1> QED
  BY <1>1

LEMMA MutexTyped ==
  ASSUME NEW o \in Objects
  PROVE  MutexOf[o] \in Mutexes /\ MutexOf[o] \in Nat /\ MutexOf[o] # None
<1>1. MutexOf \in [Objects -> Mutexes] /\ Mutexes \subseteq Nat
  BY ConnectionsAssumption
<1> QED
  BY <1>1, NoneElsewhere

LEMMA ListTyped ==
  ASSUME Typed, NEW o \in Objects
  PROVE  /\ lists[o] \in SomeLists /\ lists[o].inUse \in Int /\ lists[o].dirty \in BOOLEAN
         /\ lists[o].at \in {"none", "used", "orphaned", "deleted"}
         /\ lists[o].of \in [Signals -> Seq(Conns)]
         /\ \A g \in Signals : lists[o].of[g] \in Seq(Conns)
         /\ senders[o] \in Seq(Conns)
<1>1. lists[o] \in SomeLists /\ senders[o] \in Seq(Conns)
  BY DEF Typed
<1> QED
  BY <1>1 DEF SomeLists

LEMMA ConnTyped ==
  ASSUME Typed, NEW c \in Conns
  PROVE  /\ conn[c] \in SomeConnection /\ conn[c].ref \in Int
         /\ conn[c].sender \in Objects \cup {None}
         /\ conn[c].receiver \in Objects \cup {None}
         /\ ~Broken(c) => conn[c].receiver \in Objects
<1>1. conn[c] \in SomeConnection
  BY DEF Typed
<1> QED
  BY <1>1 DEF SomeConnection, Broken

LEMMA ChangedLists ==
  ASSUME Typed, NEW o \in Objects, NEW v \in SomeLists, lists' = [lists EXCEPT ![o] = v]
  PROVE  lists' \in [Objects -> SomeLists] /\ lists'[o] = v
         /\ \A p \in Objects : p # o => lists'[p] = lists[p]
BY DEF Typed

LEMMA ChangedConn ==
  ASSUME Typed, NEW c \in Conns, NEW k \in SomeConnection, conn' = [conn EXCEPT ![c] = k]
  PROVE  conn' \in [Conns -> SomeConnection] /\ conn'[c] = k
         /\ \A d \in Conns : d # c => conn'[d] = conn[d]
BY DEF Typed

LEMMA DerefTyped ==
  ASSUME NEW k \in SomeConnection
  PROVE  Deref(k) \in SomeConnection
BY DEF Deref, SomeConnection, NoConnection

LEMMA CleanTyped ==
  ASSUME NEW v \in SomeLists
  PROVE  /\ Clean(v) \in SomeLists /\ Clean(v).at = v.at /\ Clean(v).inUse = v.inUse
         /\ Clean(v).dirty = (v.dirty /\ ~Cleans(v))
         /\ Clean(v).of \in [Signals -> Seq(Conns)]
         /\ \A g \in Signals : Clean(v).of[g] = Without(v.of[g], Cleaned(v))
<1>1. \A g \in Signals : v.of[g] \in Seq(Conns)
  BY DEF SomeLists
<1>2. PICK X : X = Cleaned(v)
  OBVIOUS
<1>3. PICK of : of = [g \in Signals |-> Without(v.of[g], X)]
  OBVIOUS
<1>4. of \in [Signals -> Seq(Conns)]
  BY <1>1, <1>3, WithoutElements
<1>5. Clean(v) = [v EXCEPT !.dirty = v.dirty /\ ~Cleans(v), !.of = of]
  BY <1>2, <1>3 DEF Clean
<1>6. PICK b \in BOOLEAN : b = (v.dirty /\ ~Cleans(v))
  OBVIOUS
<1>7. PICK w : w = [v EXCEPT !.dirty = b, !.of = of]
  OBVIOUS
<1>8. /\ w \in SomeLists /\ w.at = v.at /\ w.inUse = v.inUse /\ w.dirty = b /\ w.of = of
  BY <1>4, <1>6, <1>7 DEF SomeLists
<1>9. Clean(v) = w
  BY <1>5, <1>6, <1>7
<1> QED
  BY <1>2, <1>3, <1>4, <1>6, <1>8, <1>9

LEMMA EnterTyped ==
  ASSUME NEW v \in SomeLists
  PROVE  /\ Enter(v) \in SomeLists /\ Enter(v).at = v.at /\ Enter(v).inUse = v.inUse + 1
         /\ Enter(v).dirty = v.dirty /\ Enter(v).of = v.of
BY DEF Enter, SomeLists

LEMMA LeaveTyped ==
  ASSUME NEW v \in SomeLists
  PROVE  /\ Leave(v) \in SomeLists
         /\ ~(v.inUse = 1 /\ v.at = "orphaned") =>
              /\ Leave(v).at = v.at /\ Leave(v).inUse = v.inUse - 1
              /\ Leave(v).dirty = v.dirty /\ Leave(v).of = v.of
         /\ v.inUse = 1 /\ v.at = "orphaned" =>
              Leave(v).at = "deleted" /\ Leave(v).inUse = 0
              /\ \A g \in Signals : Leave(v).of[g] = <<>>
<1>1. CASE v.inUse = 1 /\ v.at = "orphaned"
  <2>1. PICK of : of = [g \in Signals |-> <<>>]
    OBVIOUS
  <2>2. of \in [Signals -> Seq(Conns)] /\ \A g \in Signals : of[g] = <<>>
    BY <2>1
  <2>3. PICK x \in SomeLists : x = NoLists /\ x.inUse = 0 /\ x.of = of
    <3>1. NoLists = [at |-> "none", inUse |-> 0, dirty |-> FALSE, of |-> of]
      BY <2>1 DEF NoLists
    <3>2. PICK x : x = [at |-> "none", inUse |-> 0, dirty |-> FALSE, of |-> of]
      OBVIOUS
    <3>3. x \in SomeLists
      BY <2>2, <3>2 DEF SomeLists
    <3>4. x.inUse = 0 /\ x.of = of
      BY <3>2
    <3> QED
      BY <3>1, <3>2, <3>3, <3>4
  <2>4. PICK w : w = [x EXCEPT !.at = "deleted"]
    OBVIOUS
  <2>5. w \in SomeLists /\ w.at = "deleted" /\ w.inUse = 0 /\ w.of = of
    BY <2>3, <2>4 DEF SomeLists
  <2>6. Leave(v) = w
    BY <1>1, <2>3, <2>4 DEF Leave
  <2> QED
    BY <1>1, <2>2, <2>5, <2>6
<1>2. CASE ~(v.inUse = 1 /\ v.at = "orphaned")
  <2>1. PICK w : w = [v EXCEPT !.inUse = @ - 1]
    OBVIOUS
  <2>2. /\ w \in SomeLists /\ w.at = v.at /\ w.inUse = v.inUse - 1
        /\ w.dirty = v.dirty /\ w.of = v.of
    BY <2>1 DEF SomeLists
  <2>3. Leave(v) = w
    BY <1>2, <2>1 DEF Leave
  <2> QED
    BY <1>2, <2>2, <2>3
<1> QED
  BY <1>1, <1>2

LEMMA DirtiedTyped ==
  ASSUME NEW v \in SomeLists, NEW b \in BOOLEAN
  PROVE  /\ Dirtied(v, b) \in SomeLists /\ Dirtied(v, b).at = v.at
         /\ Dirtied(v, b).inUse = v.inUse /\ Dirtied(v, b).of = v.of
         /\ Dirtied(v, b).dirty = (v.dirty \/ b)
BY DEF Dirtied, SomeLists

LEMMA UnlinkedTyped ==
  ASSUME Typed, NEW c \in Conns, ~Broken(c)
  PROVE  /\ Unlinked(c) \in [Objects -> Seq(Conns)]
         /\ Unlinked(c)[conn[c].receiver] = Without(senders[conn[c].receiver], {c})
         /\ \A o \in Objects : o # conn[c].receiver => Unlinked(c)[o] = senders[o]
<1>1. conn[c].receiver \in Objects
  BY ConnTyped
<1>2. Without(senders[conn[c].receiver], {c}) \in Seq(Conns)
  BY <1>1, ListTyped, WithoutElements
<1> QED
  BY <1>1, <1>2 DEF Typed, Unlinked

-----------------------------------------------------------------------------
(* Lock, and relock in a function that holds one mutex.                    *)

LEMMA FrameTyped ==
  ASSUME NEW f \in Frame
  PROVE  /\ f.op \in {"connect", "disconnect", "emit", "event", "delete"}
         /\ f.obj \in Objects /\ f.other \in Objects \cup {None}
         /\ f.sig \in Signals \cup {None} /\ f.left \in SUBSET Signals
         /\ f.conn \in Conns \cup {None} /\ f.last \in Conns \cup {None}
         /\ f.want \in Seq(Mutexes) /\ f.mutex \in Mutexes \cup {None}
         /\ f.due \in Seq(Conns) /\ f.called \in Seq(Conns) /\ f.broken \in BOOLEAN
         /\ f.prev \in Nat
BY DEF Frame

\* Frames that differ only in what they lock
Alike(f, g) ==
  /\ g.op = f.op /\ g.at = f.at /\ g.obj = f.obj /\ g.other = f.other /\ g.sig = f.sig
  /\ g.left = f.left /\ g.conn = f.conn /\ g.last = f.last /\ g.due = f.due
  /\ g.called = f.called /\ g.broken = f.broken /\ g.prev = f.prev

\* Frame f when it is about to lock w and to unlock x
Locking(f, x, w) == [f EXCEPT !.mutex = x, !.want = w]

LEMMA Relocked ==
  ASSUME NEW t, NEW f, FrameOK(t, f), NEW x \in Mutexes \cup {None}, NEW w \in Seq(Mutexes),
         NEW g, g = Locking(f, x, w)
  PROVE  FrameOK(t, g) /\ Alike(f, g) /\ g.mutex = x /\ g.want = w
<1>1. f \in Frame
  BY DEF FrameOK
<1>2. g \in Frame /\ Alike(f, g) /\ g.mutex = x /\ g.want = w
  BY <1>1 DEF Frame, Alike, Locking
<1>3. FrameOK(t, g)
  BY <1>2 DEF FrameOK, Alike, ConnectFrame, DisconnectFrame, EmitFrame, EventFrame, DeleteFrame
<1> QED
  BY <1>2, <1>3

LEMMA NoneWanted ==
  ToSet(<<>>) = {} /\ <<>> \in Seq(Mutexes) /\ DOMAIN <<>> = {}
BY DEF ToSet

LEMMA LockStep ==
  ASSUME Basic, NEW t \in Threads, Lock(t)
  PROVE  /\ stack' \in [Threads -> Seq(Frame)] /\ Shape' /\ HeldByTop'
         /\ holder' \in [Mutexes -> Threads \cup {Free}]
         /\ stack[t] # <<>> /\ \E g \in Frame : Goes(t, g) /\ Alike(Top(t), g)
<1>1. PICK f : f = Top(t)
  OBVIOUS
<1>2. /\ FrameOK(t, f) /\ WantOK(f) /\ f \in Frame /\ stack[t] # <<>> /\ f.want # <<>>
      /\ \A m \in Mutexes : holder[m] = t <=> Holds(f, m)
  BY <1>1, TopOK DEF Lock
<1>3. f.want \in Seq(Mutexes) /\ f.mutex \in Mutexes \cup {None}
  BY <1>2, FrameTyped
<1>4. PICK w, h : w = Tail(f.want) /\ h = Head(f.want)
  OBVIOUS
<1>5. /\ w \in Seq(Mutexes) /\ h \in Mutexes /\ h \in ToSet(f.want)
      /\ ToSet(w) = ToSet(f.want) \ {h}
      /\ \A i, j \in DOMAIN w : w[i] = w[j] => i = j
      /\ \A i \in DOMAIN w : i + 1 \in DOMAIN f.want /\ w[i] = f.want[i + 1]
  BY <1>2, <1>3, <1>4, HeadAndTail DEF WantOK
<1>6. PICK g : g = [f EXCEPT !.want = w]
  OBVIOUS
<1>7. /\ FrameOK(t, g) /\ Alike(f, g) /\ g.mutex = f.mutex /\ g.want = w
  <2>1. g = [f EXCEPT !.mutex = f.mutex, !.want = w]
    BY <1>2, <1>6 DEF Frame
  <2> QED
    <3>0. PICK x : x = f.mutex
      OBVIOUS
    <3>1. g = Locking(f, x, w)
      BY <2>1, <3>0 DEF Locking
    <3>2. FrameOK(t, f) /\ x \in Mutexes \cup {None} /\ w \in Seq(Mutexes)
      BY <1>2, <1>3, <1>5, <3>0
    <3>3. FrameOK(t, g) /\ Alike(f, g) /\ g.mutex = x /\ g.want = w
      BY <3>1, <3>2, Relocked, SMTT(60)
    <3> QED
      BY <3>0, <3>3
<1>8. \A m : Needs(g, m) <=> Needs(f, m)
  BY <1>7 DEF Alike, Needs, Own
<1>9. WantOK(g)
  <2>1. \A i \in DOMAIN w : Needs(g, w[i])
    BY <1>2, <1>5, <1>8 DEF WantOK
  <2> QED
    BY <1>2, <1>5, <1>7, <2>1 DEF WantOK, Alike, Own
<1>10. Needs(f, h)
  BY <1>2, <1>5 DEF WantOK, ToSet
<1>11. \A m \in Mutexes : Holds(g, m) <=> Holds(f, m) \/ m = h
  BY <1>5, <1>7, <1>8, <1>10 DEF Holds
<1>12. Goes(t, g) /\ holder[h] = Free /\ holder' = [holder EXCEPT ![h] = t]
  BY <1>1, <1>4, <1>6 DEF Lock
<1>13. stack' \in [Threads -> Seq(Frame)] /\ Shape'
  BY <1>2, <1>7, <1>9, <1>12, ShapeGoes
<1>14. /\ Top(t)' = g /\ stack'[t] # <<>>
       /\ \A u \in Threads : u # t => stack'[u] = stack[u]
  BY <1>2, <1>7, <1>12, GoesStack DEF Basic, Typed, FrameOK
<1>15. Free \notin Threads /\ holder \in [Mutexes -> Threads \cup {Free}]
  BY ConnectionsAssumption DEF Basic, Typed
<1>16. /\ holder' \in [Mutexes -> Threads \cup {Free}]
       /\ \A m \in Mutexes : holder'[m] = t <=> holder[m] = t \/ m = h
       /\ \A m \in Mutexes, u \in Threads : u # t => (holder'[m] = u <=> holder[m] = u)
  BY <1>5, <1>12, <1>15
<1>17. HeldByTop'
  BY <1>2, <1>11, <1>14, <1>16, HeldMoves
<1> QED
  BY <1>1, <1>2, <1>7, <1>12, <1>13, <1>16, <1>17 DEF FrameOK

LEMMA RelockStep ==
  ASSUME Basic, NEW t \in Threads, stack[t] # <<>>, NEW m \in Mutexes, NEW n \in Mutexes,
         NEW f, FrameOK(t, f), f.want = <<>>, f.mutex = None, f.at \in {"unlink", "node"},
         f.op \in {"disconnect", "delete"}, f.op = "disconnect" => f.other = None,
         f.at = "node" => n = MutexOf[f.other], m = MutexOf[f.obj],
         \A x \in Mutexes : Holds(Top(t), x) <=> x = m,
         Relocks(t, m, n, f)
  PROVE  /\ stack' \in [Threads -> Seq(Frame)] /\ Shape' /\ HeldByTop'
         /\ holder' \in [Mutexes -> Threads \cup {Free}]
         /\ \E g \in Frame : Goes(t, g) /\ Alike(f, g) /\ Needs(g, n)
<1>1. PICK x, w : /\ Goes(t, Locking(f, x, w))
                  /\ \/ n = m /\ x = None /\ w = <<>> /\ holder' = holder
                     \/ n # m /\ x = n /\ w = <<>> /\ TriesLock(m, n)
                        /\ holder' = [holder EXCEPT ![n] = t]
                     \/ n # m /\ x = n /\ w = <<n>> /\ holder' = holder
                     \/ n # m /\ x = n /\ w = <<n, m>>
                        /\ holder' = [holder EXCEPT ![m] = Free]
  <2>1. CASE m = n /\ Goes(t, f) /\ UNCHANGED holder
    <3>1. f = Locking(f, None, <<>>)
      BY DEF FrameOK, Frame, Locking
    <3> QED
      BY <2>1, <3>1
  <2>2. CASE TriesLock(m, n) /\ holder' = [holder EXCEPT ![n] = t]
             /\ Goes(t, [f EXCEPT !.mutex = n])
    <3>1. [f EXCEPT !.mutex = n] = Locking(f, n, <<>>)
      BY DEF FrameOK, Frame, Locking
    <3>2. m # n
      BY <2>2, ConnectionsAssumption DEF TriesLock
    <3> QED
      BY <2>2, <3>1, <3>2
  <2>3. CASE /\ m # n /\ ~TriesLock(m, n)
             /\ holder' = IF m \in ToSet(RelockOrder(m, n)) THEN [holder EXCEPT ![m] = Free]
                                                             ELSE holder
             /\ Goes(t, Locking(f, n, RelockOrder(m, n)))
    <3>1. CASE m < n
      <4>1. RelockOrder(m, n) = <<n>> /\ m \notin ToSet(<<n>>)
        BY <2>3, <3>1 DEF RelockOrder, ToSet
      <4> QED
        BY <2>3, <4>1
    <3>2. CASE ~(m < n)
      <4>1. RelockOrder(m, n) = <<n, m>> /\ m \in ToSet(<<n, m>>)
        BY <2>3, <3>2 DEF RelockOrder, ToSet
      <4> QED
        BY <2>3, <4>1
    <3> QED
      BY <3>1, <3>2
  <2> QED
    BY <2>1, <2>2, <2>3 DEF Relocks, Locking
<1>2. PICK g : g = Locking(f, x, w)
  OBVIOUS
<1>3. x \in Mutexes \cup {None} /\ w \in Seq(Mutexes)
  <2>1. <<>> \in Seq(Mutexes) /\ <<n>> \in Seq(Mutexes) /\ <<n, m>> \in Seq(Mutexes)
    OBVIOUS
  <2>2. x \in Mutexes \cup {None}
    BY <1>1
  <2>3. w \in {<<>>, <<n>>, <<n, m>>}
    BY <1>1
  <2> QED
    BY <2>1, <2>2, <2>3
<1>4. FrameOK(t, g) /\ Alike(f, g) /\ g.mutex = x /\ g.want = w
  BY <1>2, <1>3, Relocked
<1>5. f.obj \in Objects /\ m # None /\ n # None
  BY NoneElsewhere, FrameTyped DEF FrameOK
<1>6. Own(g) /\ g.obj = f.obj
  BY <1>4 DEF Own, Alike
<1>7. \A y \in Mutexes : Needs(g, y) <=> y = m \/ y = n
  <2>1. g.op \in {"connect", "disconnect"} => g.other = None
    BY <1>4 DEF Alike
  <2>2. \A y \in Mutexes : Needs(g, y) <=> y = m \/ y = x
    BY <1>4, <1>6, <2>1 DEF Needs
  <2> QED
    BY <1>1, <1>5, <2>2, NoneElsewhere
<1>8. WantOK(g)
  <2>1. \A i \in DOMAIN w : w[i] \in {m, n}
    BY <1>1
  <2>2. \A i, j \in DOMAIN w : w[i] = w[j] => i = j
    BY <1>1
  <2>3. \A i \in DOMAIN g.want : Needs(g, g.want[i])
    BY <1>4, <1>7, <2>1
  <2>4. g.at = "node" => g.mutex = MutexOf[g.other] \/ MutexOf[g.obj] = MutexOf[g.other]
    BY <1>1, <1>4 DEF Alike
  <2>5. g.mutex # None => g.mutex # MutexOf[g.obj]
    BY <1>1, <1>4 DEF Alike
  <2> QED
    BY <1>4, <1>6, <2>2, <2>3, <2>4, <2>5 DEF WantOK, Alike
<1>9. stack' \in [Threads -> Seq(Frame)] /\ Shape'
  BY <1>1, <1>2, <1>4, <1>8, ShapeGoes
<1>10. /\ Top(t)' = g /\ stack'[t] # <<>>
       /\ \A u \in Threads : u # t => stack'[u] = stack[u]
  BY <1>1, <1>2, <1>4, GoesStack DEF Basic, Typed, FrameOK
<1>11. Free \notin Threads /\ holder \in [Mutexes -> Threads \cup {Free}]
  BY ConnectionsAssumption DEF Basic, Typed
<1>12. \A y \in Mutexes : holder[y] = t <=> y = m
  BY TopOK
<1>13. \A y \in Mutexes : Holds(g, y) <=> (y = m \/ y = n) /\ y \notin ToSet(w)
  BY <1>4, <1>7 DEF Holds
<1>14. /\ holder' \in [Mutexes -> Threads \cup {Free}]
       /\ \A y \in Mutexes : holder'[y] = t <=> Holds(g, y)
       /\ \A y \in Mutexes, u \in Threads : u # t => (holder'[y] = u <=> holder[y] = u)
  <2>1. CASE n = m /\ w = <<>> /\ holder' = holder
    BY <1>11, <1>12, <1>13, <2>1, NoneWanted
  <2>2. CASE n # m /\ w = <<>> /\ TriesLock(m, n) /\ holder' = [holder EXCEPT ![n] = t]
    BY <1>11, <1>12, <1>13, <2>2, NoneWanted DEF TriesLock
  <2>3. CASE n # m /\ w = <<n>> /\ holder' = holder
    <3>1. ToSet(w) = {n}
      BY <2>3 DEF ToSet
    <3> QED
      BY <1>11, <1>12, <1>13, <2>3, <3>1
  <2>4. CASE n # m /\ w = <<n, m>> /\ holder' = [holder EXCEPT ![m] = Free]
    <3>1. ToSet(w) = {n, m}
      BY <2>4 DEF ToSet
    <3> QED
      BY <1>11, <1>12, <1>13, <2>4, <3>1
  <2> QED
    BY <1>1, <2>1, <2>2, <2>3, <2>4
<1>15. HeldByTop'
  BY <1>10, <1>14, HeldMoves
<1>16. Needs(g, n)
  BY <1>7
<1> QED
  BY <1>1, <1>2, <1>4, <1>9, <1>14, <1>15, <1>16 DEF FrameOK

-----------------------------------------------------------------------------
(* The calls of user code.                                                 *)

LEMMA OrderedTyped ==
  ASSUME NEW m \in Mutexes, NEW n \in Mutexes
  PROVE  /\ Ordered(m, n) \in Seq(Mutexes) /\ Ordered(m, n) # <<>>
         /\ ToSet(Ordered(m, n)) = {m, n}
         /\ \A i, j \in DOMAIN Ordered(m, n) : Ordered(m, n)[i] = Ordered(m, n)[j] => i = j
<1>1. CASE m = n
  <2>1. Ordered(m, n) = <<m>>
    BY <1>1 DEF Ordered
  <2> QED
    BY <1>1, <2>1 DEF ToSet
<1>2. ASSUME NEW x \in Mutexes, NEW y \in Mutexes, x # y, NEW w, w = <<x, y>>
      PROVE  /\ w \in Seq(Mutexes) /\ w # <<>> /\ ToSet(w) = {x, y}
             /\ \A i, j \in DOMAIN w : w[i] = w[j] => i = j
  <2>1. DOMAIN w = {1, 2} /\ w[1] = x /\ w[2] = y /\ w \in Seq(Mutexes) /\ Len(w) = 2
    BY <1>2
  <2>2. ToSet(w) = {x, y}
    BY <2>1 DEF ToSet
  <2> QED
    BY <1>2, <2>1, <2>2
<1>3. CASE m # n /\ m < n
  BY <1>2, <1>3 DEF Ordered
<1>4. CASE m # n /\ ~(m < n)
  BY <1>2, <1>4 DEF Ordered
<1> QED
  BY <1>1, <1>3, <1>4

\* The frame of a call that wants the mutexes it needs, and holds none
LEMMA WantsAll ==
  ASSUME NEW f \in Frame, f.mutex = None, f.at = "begin", f.op # "delete", f.op # "event",
         \A i, j \in DOMAIN f.want : f.want[i] = f.want[j] => i = j,
         ToSet(f.want) = {MutexOf[f.obj]} \cup
           (IF f.op = "emit" \/ f.other = None THEN {} ELSE {MutexOf[f.other]})
  PROVE  WantOK(f) /\ \A m \in Mutexes : ~Holds(f, m)
<1>1. Own(f)
  BY DEF Own
<1>2. \A m \in Mutexes : Needs(f, m) => m \in ToSet(f.want)
  BY NoneElsewhere, FrameTyped DEF Needs
<1>3. \A i \in DOMAIN f.want : Needs(f, f.want[i])
  <2>1. \A i \in DOMAIN f.want : f.want[i] \in ToSet(f.want)
    BY DEF ToSet
  <2>2. f.op \in {"connect", "disconnect", "emit"}
    BY FrameTyped
  <2> QED
    BY <1>1, <2>1, <2>2 DEF Needs
<1>4. WantOK(f)
  BY <1>1, <1>3 DEF WantOK
<1> QED
  BY <1>2, <1>4 DEF Holds

\* What a new frame n is
Begins(n, op, o) ==
  /\ n \in Frame /\ n.op = op /\ n.at = "begin" /\ n.obj = o /\ n.other = None
  /\ n.sig = None /\ n.conn = None /\ n.last = None /\ n.want = <<>> /\ n.mutex = None
  /\ n.due = <<>> /\ n.called = <<>>

LEMMA NewFrameTyped ==
  ASSUME NEW op \in {"connect", "disconnect", "emit", "event", "delete"}, NEW o \in Objects
  PROVE  \E n : n = NewFrame(op, o) /\ Begins(n, op, o)
<1>1. PICK n : n = NewFrame(op, o)
  OBVIOUS
<1>2. /\ n.op = op /\ n.at = "begin" /\ n.obj = o /\ n.other = None /\ n.sig = None
      /\ n.left = {} /\ n.conn = None /\ n.last = None /\ n.want = <<>> /\ n.mutex = None
      /\ n.due = <<>> /\ n.called = <<>> /\ n.broken = FALSE /\ n.prev = 0
  BY <1>1 DEF NewFrame
<1>3. /\ <<>> \in Seq(Mutexes) /\ <<>> \in Seq(Conns) /\ {} \in SUBSET Signals
  OBVIOUS
<1>4. n \in Frame
  BY <1>1, <1>3 DEF NewFrame, Frame
<1> QED
  BY <1>1, <1>2, <1>4 DEF Begins

LEMMA CallsTyped ==
  ASSUME Basic, NEW t \in Threads, Calls(t)
  PROVE  calls' \in 0 .. MaxCalls /\ InUserCode(t)
<1>1. MaxCalls \in Nat
  BY ConnectionsAssumption, Zenon
<1>2. calls' = calls + 1 /\ calls < MaxCalls
  BY DEF Calls
<1> QED
  BY <1>1, <1>2 DEF Basic, Typed, Calls

LEMMA ConnectCallBasic ==
  ASSUME Basic, NEW t \in Threads, NEW s \in Objects, NEW r \in Objects, NEW g \in Signals,
         ConnectCall(t, s, r, g)
  PROVE  /\ Basic'
         /\ \E f \in Frame, c \in Conns :
              /\ Enters(t, f) /\ Unused(c) /\ f.op = "connect" /\ f.at = "begin"
              /\ f.obj = s /\ f.other = r /\ f.sig = g /\ f.conn = c
<1>0. PICK w : w = Ordered(MutexOf[s], MutexOf[r])
  OBVIOUS
<1>1. PICK c \in Conns :
        /\ Unused(c)
        /\ Enters(t, [NewFrame("connect", s) EXCEPT !.other = r, !.sig = g, !.conn = c, !.want = w])
  BY <1>0 DEF ConnectCall
<1>2. /\ w \in Seq(Mutexes) /\ ToSet(w) = {MutexOf[s], MutexOf[r]}
      /\ \A i, j \in DOMAIN w : w[i] = w[j] => i = j
  BY <1>0, MutexTyped, OrderedTyped
<1>9. PICK n : n = NewFrame("connect", s) /\ Begins(n, "connect", s)
  BY NewFrameTyped
<1>3. PICK f : f = [n EXCEPT !.other = r, !.sig = g, !.conn = c, !.want = w]
  OBVIOUS
<1>4. /\ f \in Frame /\ f.op = "connect" /\ f.at = "begin" /\ f.obj = s /\ f.other = r
      /\ f.sig = g /\ f.conn = c /\ f.want = w /\ f.mutex = None /\ f.last = None
  <2>1. f \in Frame
    BY <1>2, <1>3, <1>9, ZenonT(40) DEF Begins, Frame
  <2>2. /\ f.op = "connect" /\ f.at = "begin" /\ f.obj = s /\ f.other = r
        /\ f.sig = g /\ f.conn = c /\ f.want = w /\ f.mutex = None /\ f.last = None
    BY <1>2, <1>3, <1>9, SMT DEF Begins, Frame
  <2> QED
    BY <2>1, <2>2
<1>5. FrameOK(t, f)
  BY <1>4 DEF FrameOK, ConnectFrame, DisconnectFrame, EmitFrame, EventFrame, DeleteFrame
<1>6. WantOK(f) /\ \A m \in Mutexes : ~Holds(f, m)
  <2>1. f.other # None
    BY <1>4, NoneElsewhere
  <2> QED
    BY <1>2, <1>4, <2>1, WantsAll
<1>7. Enters(t, f) /\ InUserCode(t) /\ UNCHANGED holder
  BY <1>1, <1>3, <1>9 DEF ConnectCall, Calls
<1>8. stack' \in [Threads -> Seq(Frame)] /\ Shape' /\ HeldByTop'
  BY <1>5, <1>6, <1>7, CallStep
<1> QED
  BY <1>1, <1>4, <1>7, <1>8, CallsTyped DEF Basic, Typed, ConnectCall, switchers

LEMMA DisconnectCallBasic ==
  ASSUME Basic, NEW t \in Threads, NEW s \in Objects, NEW r \in Objects \cup {None},
         NEW g \in Scopes, DisconnectCall(t, s, r, g)
  PROVE  /\ Basic'
         /\ \E f \in Frame : /\ Enters(t, f) /\ f.op = "disconnect" /\ f.at = "begin"
                             /\ f.obj = s /\ f.other = r /\ f.conn = None
<1>1. PICK w : w = IF r = None THEN <<MutexOf[s]>> ELSE Ordered(MutexOf[s], MutexOf[r])
  OBVIOUS
<1>2. /\ w \in Seq(Mutexes)
      /\ ToSet(w) = {MutexOf[s]} \cup (IF r = None THEN {} ELSE {MutexOf[r]})
      /\ \A i, j \in DOMAIN w : w[i] = w[j] => i = j
  <2>1. CASE r = None
    BY <1>1, <2>1, MutexTyped DEF ToSet
  <2>2. CASE r # None
    <3>1. r \in Objects
      BY <2>2
    <3>2. w = Ordered(MutexOf[s], MutexOf[r])
      BY <1>1, <2>2
    <3>3. MutexOf[s] \in Mutexes /\ MutexOf[r] \in Mutexes
      BY <3>1, MutexTyped
    <3>4. /\ w \in Seq(Mutexes) /\ ToSet(w) = {MutexOf[s], MutexOf[r]}
          /\ \A i, j \in DOMAIN w : w[i] = w[j] => i = j
      BY <3>2, <3>3, OrderedTyped
    <3> QED
      BY <2>2, <3>4
  <2> QED
    BY <2>1, <2>2
<1>0. PICK n : n = NewFrame("disconnect", s) /\ Begins(n, "disconnect", s)
  BY NewFrameTyped
<1>3. PICK f : f = [n EXCEPT !.other = r, !.sig = g, !.want = w]
  OBVIOUS
<1>4. /\ f \in Frame /\ f.op = "disconnect" /\ f.at = "begin" /\ f.obj = s /\ f.other = r
      /\ f.conn = None /\ f.want = w /\ f.mutex = None /\ f.last = None
  <2>1. g \in Signals \cup {None}
    BY ConnectionsAssumption, Zenon
  <2>8. f \in Frame
    BY <1>2, <1>3, <2>1, <1>0, ZenonT(40) DEF Begins, Frame
  <2>9. /\ f.op = "disconnect" /\ f.at = "begin" /\ f.obj = s /\ f.other = r
        /\ f.conn = None /\ f.want = w /\ f.mutex = None /\ f.last = None
    BY <1>2, <1>3, <2>1, <1>0, SMT DEF Begins, Frame
  <2> QED
    BY <2>8, <2>9
<1>5. FrameOK(t, f)
  BY <1>4 DEF FrameOK, ConnectFrame, DisconnectFrame, EmitFrame, EventFrame, DeleteFrame
<1>6. WantOK(f) /\ \A m \in Mutexes : ~Holds(f, m)
  BY <1>2, <1>4, WantsAll
<1>7. Enters(t, f) /\ InUserCode(t) /\ UNCHANGED holder
  BY <1>1, <1>3, <1>0 DEF DisconnectCall, Calls
<1>8. stack' \in [Threads -> Seq(Frame)] /\ Shape' /\ HeldByTop'
  BY <1>5, <1>6, <1>7, CallStep
<1> QED
  BY <1>4, <1>7, <1>8, CallsTyped DEF Basic, Typed, DisconnectCall, switchers

\* The frame of an emission that is to begin
LEMMA EmitFrameBegins ==
  ASSUME NEW t \in Threads, NEW s \in Objects, Home[s] = t, NEW g \in Signals,
         NEW f, f = Emission(s, g)
  PROVE  /\ FrameOK(t, f) /\ WantOK(f) /\ \A m \in Mutexes : ~Holds(f, m)
         /\ f \in Frame /\ f.op = "emit" /\ f.at = "begin" /\ f.obj = s /\ f.sig = g
         /\ f.conn = None /\ f.due = <<>> /\ f.called = <<>>
<1>0. PICK n : n = NewFrame("emit", s) /\ Begins(n, "emit", s)
  BY NewFrameTyped
<1>1. PICK w : w = <<MutexOf[s]>>
  OBVIOUS
<1>2. /\ w \in Seq(Mutexes) /\ ToSet(w) = {MutexOf[s]}
      /\ \A i, j \in DOMAIN w : w[i] = w[j] => i = j
  BY <1>1, MutexTyped DEF ToSet
<1>3. /\ f \in Frame /\ f.op = "emit" /\ f.at = "begin" /\ f.obj = s /\ f.sig = g
      /\ f.want = w /\ f.mutex = None /\ f.last = None
      /\ f.conn = None /\ f.due = <<>> /\ f.called = <<>>
  <2>1. f = [n EXCEPT !.sig = g, !.want = w]
    BY <1>1, <1>0 DEF Emission
  <2>8. f \in Frame
    BY <1>1, <1>2, <2>1, <1>0, ZenonT(40) DEF Begins, Frame
  <2>9. /\ f.op = "emit" /\ f.at = "begin" /\ f.obj = s /\ f.sig = g
        /\ f.want = w /\ f.mutex = None /\ f.last = None
        /\ f.conn = None /\ f.due = <<>> /\ f.called = <<>>
    BY <1>1, <1>2, <2>1, <1>0, SMT DEF Begins, Frame
  <2> QED
    BY <2>8, <2>9
<1>4. FrameOK(t, f)
  BY <1>3 DEF FrameOK, ConnectFrame, DisconnectFrame, EmitFrame, EventFrame, DeleteFrame
<1>5. WantOK(f) /\ \A m \in Mutexes : ~Holds(f, m)
  BY <1>2, <1>3, WantsAll
<1> QED
  BY <1>3, <1>4, <1>5

LEMMA EmitCallBasic ==
  ASSUME Basic, NEW t \in Threads, NEW s \in Objects, NEW g \in Signals, EmitCall(t, s, g)
  PROVE  /\ Basic'
         /\ \E f \in Frame : /\ Enters(t, f) /\ f.op = "emit" /\ f.at = "begin"
                             /\ f.obj = s /\ f.conn = None /\ f.due = <<>> /\ f.called = <<>>
<1>1. PICK f : f = Emission(s, g)
  OBVIOUS
<1>2. Home[s] = t /\ Enters(t, f) /\ InUserCode(t) /\ UNCHANGED holder
  BY <1>1 DEF EmitCall, Calls
<1>3. /\ FrameOK(t, f) /\ WantOK(f) /\ \A m \in Mutexes : ~Holds(f, m)
      /\ f \in Frame /\ f.op = "emit" /\ f.at = "begin" /\ f.obj = s
      /\ f.conn = None /\ f.due = <<>> /\ f.called = <<>>
  BY <1>1, <1>2, EmitFrameBegins
<1>4. stack' \in [Threads -> Seq(Frame)] /\ Shape' /\ HeldByTop'
  BY <1>2, <1>3, CallStep
<1> QED
  BY <1>2, <1>3, <1>4, CallsTyped DEF Basic, Typed, EmitCall, switchers

\* Frames that neither hold nor want a mutex
LEMMA WantsNone ==
  ASSUME NEW f \in Frame, f.mutex = None, f.want = <<>>, ~Own(f),
         f.op \notin {"connect", "disconnect"}, f.at # "node"
  PROVE  WantOK(f) /\ \A m \in Mutexes : ~Holds(f, m)
BY NoneElsewhere DEF WantOK, Holds, Needs

LEMMA DeliverBasic ==
  ASSUME Basic, NEW t \in Threads, NEW o \in Objects, Deliver(t, o)
  PROVE  /\ Basic' /\ metaCalls[o] # <<>>
         /\ \E f \in Frame : /\ Enters(t, f) /\ f.op = "event" /\ f.at = "slot" /\ f.obj = o
                             /\ f.prev = currentSender[o] /\ f.conn = None /\ f.called = f.due
<1>0. PICK n : n = NewFrame("event", o) /\ Begins(n, "event", o)
  BY NewFrameTyped
<1>1. PICK f : f = [n EXCEPT !.at = "slot", !.other = Head(metaCalls[o]), !.prev = currentSender[o]]
  OBVIOUS
<1>2. metaCalls[o] \in Seq(Objects) /\ metaCalls[o] # <<>> /\ currentSender[o] \in Nat
  BY DEF Deliver, Basic, Typed
<1>3. Head(metaCalls[o]) \in Objects /\ Tail(metaCalls[o]) \in Seq(Objects)
  BY <1>2, HeadAndTail
<1>4. /\ f \in Frame /\ f.op = "event" /\ f.at = "slot" /\ f.obj = o /\ f.want = <<>>
      /\ f.mutex = None /\ f.last = None /\ f.prev = currentSender[o] /\ f.conn = None
      /\ f.called = f.due
  <2>1. f \in Frame
    BY <1>1, <1>2, <1>3, <1>0, ZenonT(40) DEF Begins, Frame
  <2>2. /\ f.op = "event" /\ f.at = "slot" /\ f.obj = o /\ f.want = <<>>
        /\ f.mutex = None /\ f.last = None /\ f.prev = currentSender[o] /\ f.conn = None
        /\ f.called = f.due
    BY <1>1, <1>2, <1>3, <1>0, SMT DEF Begins, Frame
  <2> QED
    BY <2>1, <2>2
<1>5. FrameOK(t, f)
  BY <1>4 DEF Deliver, FrameOK, ConnectFrame, DisconnectFrame, EmitFrame, EventFrame, DeleteFrame
<1>6. WantOK(f) /\ \A m \in Mutexes : ~Holds(f, m)
  <2>1. ~Own(f)
    BY <1>4 DEF Own
  <2> QED
    BY <1>4, <2>1, WantsNone
<1>7. Enters(t, f) /\ InUserCode(t) /\ UNCHANGED holder
  BY <1>1, <1>0 DEF Deliver
<1>8. stack' \in [Threads -> Seq(Frame)] /\ Shape' /\ HeldByTop'
  BY <1>5, <1>6, <1>7, CallStep
<1>9. /\ metaCalls' \in [Objects -> Seq(Objects)]
      /\ currentSender' \in [Objects -> Nat]
  <2>1. Len(stack[t]) + 1 \in Nat
    BY DEF Basic, Typed
  <2> QED
    BY <1>3, <2>1 DEF Deliver, Basic, Typed
<1>10. Typed'
  BY <1>8, <1>9 DEF Basic, Typed, Deliver
<1> QED
  BY <1>2, <1>4, <1>7, <1>8, <1>10 DEF Basic

LEMMA DropHandleBasic ==
  ASSUME Basic, NEW t \in Threads, NEW c \in Conns, DropHandle(t, c)
  PROVE  /\ Basic' /\ conn'[c] = Deref(conn[c])
         /\ \A d \in Conns : d # c => conn'[d] = conn[d]
<1>1. Deref(conn[c]) \in SomeConnection
  BY DerefTyped DEF Basic, Typed
<1>2. /\ conn' \in [Conns -> SomeConnection] /\ conn'[c] = Deref(conn[c])
      /\ \A d \in Conns : d # c => conn'[d] = conn[d]
  BY <1>1 DEF DropHandle, Basic, Typed
<1>3. Typed'
  BY <1>2 DEF Basic, Typed, DropHandle, switchers
<1>4. Shape' /\ HeldByTop'
  BY SMTT(60) DEF Basic, Shape, HeldByTop, DropHandle, Top, FrameOK, WantOK, Below, ConnectFrame,
    DisconnectFrame, EmitFrame, EventFrame, DeleteFrame, Needs, Own, Holds
<1> QED
  BY <1>2, <1>3, <1>4 DEF Basic

LEMMA DisconnectHandleBasic ==
  ASSUME Basic, NEW t \in Threads, NEW c \in Conns, DisconnectHandle(t, c)
  PROVE  Basic'
<1>1. ~Broken(c)
  BY DEF DisconnectHandle
<1>2. senders' \in [Objects -> Seq(Conns)]
  BY <1>1, UnlinkedTyped DEF DisconnectHandle, Basic
<1>3. conn' \in [Conns -> SomeConnection]
  <2>1. conn[c] \in SomeConnection
    BY DEF Basic, Typed
  <2>2. PICK k : k = [conn[c] EXCEPT !.receiver = None]
    OBVIOUS
  <2>3. k \in SomeConnection
    BY <2>1, <2>2 DEF SomeConnection
  <2>4. conn' = [conn EXCEPT ![c] = k]
    BY <2>2 DEF DisconnectHandle
  <2> QED
    BY <2>3, <2>4 DEF Basic, Typed
<1>4. lists' \in [Objects -> SomeLists]
  <2>1. PICK s : s = conn[c].sender
    OBVIOUS
  <2>2. \A o \in Objects : [lists[o] EXCEPT !.dirty = TRUE] \in SomeLists
    BY DEF Basic, Typed, SomeLists
  <2>3. lists' = [lists EXCEPT ![s] = [lists[s] EXCEPT !.dirty = TRUE]]
    BY <2>1 DEF DisconnectHandle
  <2>4. \A o \in Objects : lists[o] \in SomeLists
    BY DEF Basic, Typed
  <2>5. lists' = [o \in Objects |-> IF o = s THEN [lists[o] EXCEPT !.dirty = TRUE] ELSE lists[o]]
    BY <2>3 DEF Basic, Typed
  <2> QED
    BY <2>2, <2>4, <2>5
<1>5. Typed'
  BY <1>2, <1>3, <1>4, CallsTyped DEF Basic, Typed, DisconnectHandle, switchers
<1>6. Shape' /\ HeldByTop'
  BY SMTT(60) DEF Basic, Shape, HeldByTop, DisconnectHandle, Top, FrameOK, WantOK, Below, ConnectFrame,
    DisconnectFrame, EmitFrame, EventFrame, DeleteFrame, Needs, Own, Holds
<1> QED
  BY <1>5, <1>6 DEF Basic

-----------------------------------------------------------------------------
(* The steps of connect and disconnect.                                    *)

LEMMA AtTop ==
  ASSUME Basic, NEW t \in Threads, NEW op, NEW at, At(t, op, at)
  PROVE  /\ stack[t] # <<>> /\ Top(t) \in Frame /\ FrameOK(t, Top(t)) /\ WantOK(Top(t))
         /\ Top(t).op = op /\ Top(t).at = at /\ Top(t).want = <<>>
         /\ \A m \in Mutexes : holder[m] = t <=> Needs(Top(t), m)
         /\ at \notin {"unlink", "node"} => Top(t).mutex = None
<1>1. stack[t] # <<>> /\ Top(t).op = op /\ Top(t).at = at /\ Top(t).want = <<>>
  BY DEF At
<1>2. /\ Top(t) \in Frame /\ FrameOK(t, Top(t)) /\ WantOK(Top(t))
      /\ \A m \in Mutexes : holder[m] = t <=> Holds(Top(t), m)
  BY <1>1, TopOK
<1>3. \A m \in Mutexes : Holds(Top(t), m) <=> Needs(Top(t), m)
  BY <1>1, NoneWanted DEF Holds
<1>4. at \notin {"unlink", "node"} => Top(t).mutex = None
  BY <1>1, <1>2 DEF WantOK
<1> QED
  BY <1>1, <1>2, <1>3, <1>4

LEMMA PlainFrame ==
  ASSUME NEW g \in Frame, g.want = <<>>, g.mutex = None, g.at # "node"
  PROVE  WantOK(g)
BY NoneWanted DEF WantOK

\* A function goes on, without an operation on the mutexes.
LEMMA PlainStep ==
  ASSUME Basic, NEW t \in Threads, stack[t] # <<>>,
         Top(t).want = <<>>, Top(t).mutex = None,
         NEW g, FrameOK(t, g), g.want = <<>>, g.mutex = None, g.at # "node",
         g.op = Top(t).op, g.obj = Top(t).obj,
         g.op \in {"connect", "disconnect"} => g.other = Top(t).other,
         Own(g) <=> Own(Top(t)), Goes(t, g), UNCHANGED holder
  PROVE  stack' \in [Threads -> Seq(Frame)] /\ Shape' /\ HeldByTop'
<1>1. WantOK(g)
  BY PlainFrame DEF FrameOK
<1>2. \A m \in Mutexes : Holds(g, m) <=> Holds(Top(t), m)
  BY DEF Holds, Needs
<1> QED
  BY <1>1, <1>2, GoesStep

\* A function that holds what it needs unlocks all, and returns.
LEMMA UnlocksAndReturns ==
  ASSUME Basic, NEW t \in Threads, stack[t] # <<>>, UnlockAll(t), Returns(t)
  PROVE  /\ stack' \in [Threads -> Seq(Frame)] /\ Shape' /\ HeldByTop'
         /\ holder' \in [Mutexes -> Threads \cup {Free}]
<1>1. /\ holder' \in [Mutexes -> Threads \cup {Free}]
      /\ \A m \in Mutexes : holder'[m] # t
      /\ \A m \in Mutexes, u \in Threads : u # t => (holder'[m] = u <=> holder[m] = u)
  BY UnlockAllFrees DEF Basic
<1> QED
  BY <1>1, ReturnStep

LEMMA ConnectEndBasic ==
  ASSUME Basic, NEW t \in Threads, ConnectEnd(t)
  PROVE  Basic'
<1>1. PICK f : f = Top(t)
  OBVIOUS
<1>2. At(t, "connect", "begin") /\ UnlockAll(t) /\ Returns(t)
  BY DEF ConnectEnd
<1>3. /\ stack[t] # <<>> /\ f \in Frame /\ f.obj \in Objects /\ f.other \in Objects
      /\ f.sig \in Signals /\ f.conn \in Conns
  BY <1>1, <1>2, AtTop, FrameTyped DEF FrameOK, ConnectFrame
<1>4. /\ stack' \in [Threads -> Seq(Frame)] /\ Shape' /\ HeldByTop'
      /\ holder' \in [Mutexes -> Threads \cup {Free}]
  BY <1>2, <1>3, UnlocksAndReturns
<1>5. /\ lists' \in [Objects -> SomeLists] /\ senders' \in [Objects -> Seq(Conns)]
      /\ conn' \in [Conns -> SomeConnection] /\ handles' \subseteq Conns
  <2>1. CASE UNCHANGED <<lists, senders, conn, handles>>
    BY <2>1 DEF Basic, Typed
  <2>2. CASE ~UNCHANGED <<lists, senders, conn, handles>>
    <3>1. PICK v : v = lists[f.obj]
      OBVIOUS
    <3>2. /\ conn' = [c \in Conns |->
               IF c = f.conn THEN NewConnection(c, f.obj, f.other)
               ELSE IF c \in Cleaned(v) THEN Deref(conn[c]) ELSE conn[c]]
          /\ handles' = handles \cup (Kept \cap {f.conn})
          /\ lists' = [lists EXCEPT ![f.obj] =
               [Clean(v) EXCEPT !.at = "used", !.of[f.sig] = Append(@, f.conn)]]
          /\ senders' = [senders EXCEPT ![f.other] = <<f.conn>> \o @]
      BY <1>1, <2>2, <3>1 DEF ConnectEnd
    <3>3. NewConnection(f.conn, f.obj, f.other) \in SomeConnection
      BY <1>3 DEF NewConnection, SomeConnection
    <3>4. \A c \in Conns : conn[c] \in SomeConnection /\ Deref(conn[c]) \in SomeConnection
      BY DerefTyped DEF Basic, Typed
    <3>5. conn' \in [Conns -> SomeConnection]
      BY <3>2, <3>3, <3>4
    <3>6. PICK w : w = Clean(v)
      OBVIOUS
    <3>7. w \in SomeLists /\ w.of \in [Signals -> Seq(Conns)]
      BY <1>3, <3>1, <3>6, CleanTyped, ListTyped DEF Basic
    <3>8. PICK q : q = Append(w.of[f.sig], f.conn)
      OBVIOUS
    <3>9. q \in Seq(Conns)
      BY <1>3, <3>7, <3>8
    <3>10. PICK x : x = [w EXCEPT !.at = "used", !.of[f.sig] = q]
      OBVIOUS
    <3>11. x \in SomeLists
      BY <1>3, <3>7, <3>9, <3>10 DEF SomeLists
    <3>12. lists' = [lists EXCEPT ![f.obj] = x]
      BY <3>2, <3>6, <3>8, <3>10
    <3>13. lists' \in [Objects -> SomeLists]
      BY <1>3, <3>11, <3>12 DEF Basic, Typed
    <3>14. senders' \in [Objects -> Seq(Conns)]
      <4>1. <<f.conn>> \o senders[f.other] \in Seq(Conns)
        BY <1>3 DEF Basic, Typed
      <4> QED
        BY <1>3, <3>2, <4>1 DEF Basic, Typed
    <3>15. handles' \subseteq Conns
      BY <1>3, <3>2 DEF Basic, Typed
    <3> QED
      BY <3>5, <3>13, <3>14, <3>15
  <2> QED
    BY <2>1, <2>2
<1>6. Typed'
  BY <1>4, <1>5 DEF Basic, Typed, ConnectEnd, switchers
<1> QED
  BY <1>4, <1>6 DEF Basic

LEMMA DisconnectBeginBasic ==
  ASSUME Basic, NEW t \in Threads, DisconnectBegin(t)
  PROVE  Basic'
<1>1. PICK f : f = Top(t)
  OBVIOUS
<1>2. At(t, "disconnect", "begin")
  BY DEF DisconnectBegin
<1>3. /\ stack[t] # <<>> /\ f \in Frame /\ f.obj \in Objects /\ f.op = "disconnect"
      /\ f.want = <<>> /\ f.mutex = None /\ FrameOK(t, f) /\ f.at = "begin"
  BY <1>1, <1>2, AtTop, FrameTyped
<1>4. CASE lists[f.obj].at = "none"
  <2>1. UnlockAll(t) /\ Returns(t) /\ UNCHANGED lists
    BY <1>1, <1>4 DEF DisconnectBegin
  <2>2. /\ stack' \in [Threads -> Seq(Frame)] /\ Shape' /\ HeldByTop'
        /\ holder' \in [Mutexes -> Threads \cup {Free}]
    BY <1>3, <2>1, UnlocksAndReturns
  <2> QED
    BY <2>1, <2>2 DEF Basic, Typed, DisconnectBegin, switchers
<1>5. CASE lists[f.obj].at # "none"
  <2>1. PICK l : l = IF f.sig = None THEN Signals ELSE {f.sig}
    OBVIOUS
  <2>2. l \in SUBSET Signals
    BY <1>3, <2>1, FrameTyped
  <2>3. PICK g : g = [f EXCEPT !.at = "scan", !.left = l]
    OBVIOUS
  <2>4. /\ g \in Frame /\ g.op = "disconnect" /\ g.at = "scan" /\ g.obj = f.obj
        /\ g.other = f.other /\ g.sig = f.sig /\ g.conn = f.conn /\ g.last = f.last
        /\ g.want = <<>> /\ g.mutex = None
    <3>1. g \in Frame
      <4>1. f \in Frame
        BY <1>3
      <4> QED
        BY <4>1, <2>2, <2>3, ZenonT(40) DEF Frame
    <3>2. /\ g.op = "disconnect" /\ g.at = "scan" /\ g.obj = f.obj
          /\ g.other = f.other /\ g.sig = f.sig /\ g.conn = f.conn /\ g.last = f.last
          /\ g.want = <<>> /\ g.mutex = None
      BY <1>3, <2>2, <2>3, SMT DEF Frame
    <3> QED
      BY <3>1, <3>2
  <2>5. FrameOK(t, g) /\ Own(g) /\ Own(f)
    BY <1>3, <2>4 DEF FrameOK, ConnectFrame, DisconnectFrame, EmitFrame, EventFrame, DeleteFrame, Own
  <2>6. Goes(t, g) /\ UNCHANGED holder /\ lists' = [lists EXCEPT ![f.obj] = Enter(lists[f.obj])]
    BY <1>1, <1>5, <2>1, <2>3 DEF DisconnectBegin
  <2>7. stack' \in [Threads -> Seq(Frame)] /\ Shape' /\ HeldByTop'
    BY <1>1, <1>3, <2>4, <2>5, <2>6, PlainStep
  <2>8. lists' \in [Objects -> SomeLists]
    BY <1>3, <2>6, EnterTyped, ListTyped, ChangedLists DEF Basic
  <2> QED
    BY <2>6, <2>7, <2>8 DEF Basic, Typed, DisconnectBegin, switchers
<1> QED
  BY <1>4, <1>5

LEMMA DisconnectListBasic ==
  ASSUME Basic, NEW t \in Threads, DisconnectList(t)
  PROVE  Basic'
<1>1. PICK f : f = Top(t)
  OBVIOUS
<1>2. At(t, "disconnect", "scan")
  BY DEF DisconnectList
<1>3. /\ stack[t] # <<>> /\ f \in Frame /\ f.obj \in Objects /\ f.op = "disconnect"
      /\ f.want = <<>> /\ f.mutex = None /\ FrameOK(t, f) /\ f.at = "scan"
      /\ f.left \in SUBSET Signals
  BY <1>1, <1>2, AtTop, FrameTyped
<1>4. PICK s \in f.left : Goes(t, [f EXCEPT !.sig = s, !.left = @ \ {s},
                                            !.conn = First(lists[f.obj].of[s])])
  BY <1>1 DEF DisconnectList
<1>5. PICK c : c = First(lists[f.obj].of[s])
  OBVIOUS
<1>6. c \in Conns \cup {None} /\ s \in Signals
  BY <1>3, <1>4, <1>5, ListTyped, FirstTyped DEF Basic
<1>7. PICK g : g = [f EXCEPT !.sig = s, !.left = @ \ {s}, !.conn = c]
  OBVIOUS
<1>8. /\ g \in Frame /\ g.op = "disconnect" /\ g.at = "scan" /\ g.obj = f.obj
      /\ g.other = f.other /\ g.sig = s /\ g.conn = c /\ g.last = f.last
      /\ g.want = <<>> /\ g.mutex = None
  <2>1. g \in Frame
    <3>1. f \in Frame
      BY <1>3
    <3>2. PICK l : l = f.left \ {s}
      OBVIOUS
    <3>3. l \in SUBSET Signals
      BY <3>1, <3>2, FrameTyped
    <3>4. g = [f EXCEPT !.sig = s, !.left = l, !.conn = c]
      BY <1>7, <3>1, <3>2, Zenon
    <3>5. c \in Conns \cup {None} /\ s \in Signals \cup {None}
      BY <1>6
    <3> QED
      BY <3>1, <3>3, <3>4, <3>5, ZenonT(40) DEF Frame
  <2>2. /\ g.op = "disconnect" /\ g.at = "scan" /\ g.obj = f.obj
        /\ g.other = f.other /\ g.sig = s /\ g.conn = c /\ g.last = f.last
        /\ g.want = <<>> /\ g.mutex = None
    BY <1>3, <1>6, <1>7, SMT DEF Frame
  <2> QED
    BY <2>1, <2>2
<1>9. FrameOK(t, g) /\ Own(g) /\ Own(f)
  BY <1>3, <1>6, <1>8 DEF FrameOK, ConnectFrame, DisconnectFrame, EmitFrame, EventFrame, DeleteFrame, Own
<1>10. Goes(t, g) /\ UNCHANGED holder
  BY <1>4, <1>5, <1>7 DEF DisconnectList
<1>11. stack' \in [Threads -> Seq(Frame)] /\ Shape' /\ HeldByTop'
  BY <1>1, <1>3, <1>8, <1>9, <1>10, PlainStep
<1> QED
  BY <1>11 DEF Basic, Typed, DisconnectList, switchers

\* A function unlocks the mutex that it needed besides that of its object.
LEMMA UnlockOtherStep ==
  ASSUME Basic, NEW t \in Threads, stack[t] # <<>>,
         NEW f, f = Top(t), f.want = <<>>, f.op \in {"disconnect", "delete"}, Own(f),
         NEW g, FrameOK(t, g), g.want = <<>>, g.mutex = None, g.at # "node",
         g.op = f.op, g.obj = f.obj, f.op = "disconnect" => g.other = f.other, Own(g),
         Goes(t, g), UnlockOther(f)
  PROVE  /\ stack' \in [Threads -> Seq(Frame)] /\ Shape' /\ HeldByTop'
         /\ holder' \in [Mutexes -> Threads \cup {Free}]
<1>1. WantOK(g)
  BY PlainFrame DEF FrameOK
<1>2. stack' \in [Threads -> Seq(Frame)] /\ Shape'
  BY <1>1, ShapeGoes
<1>3. /\ FrameOK(t, f) /\ WantOK(f) /\ f \in Frame
      /\ \A m \in Mutexes : holder[m] = t <=> Holds(f, m)
  BY TopOK
<1>4. /\ Top(t)' = g /\ stack'[t] # <<>>
      /\ \A u \in Threads : u # t => stack'[u] = stack[u]
  BY GoesStack DEF Basic, Typed, FrameOK
<1>5. Free \notin Threads /\ holder \in [Mutexes -> Threads \cup {Free}]
  BY ConnectionsAssumption DEF Basic, Typed
<1>6. holder' = [m \in Mutexes |-> IF m = f.mutex THEN Free ELSE holder[m]]
  BY DEF UnlockOther
<1>7. \A m \in Mutexes : Holds(f, m) <=> Needs(f, m)
  BY NoneWanted DEF Holds
<1>8. \A m \in Mutexes : Holds(g, m) <=> Needs(f, m) /\ m # f.mutex
  <2>1. \A m \in Mutexes : Holds(g, m) <=> Needs(g, m)
    BY NoneWanted DEF Holds
  <2>2. CASE f.mutex = None
    <3>1. \A m \in Mutexes : Needs(g, m) <=> Needs(f, m)
      BY <2>2 DEF Needs
    <3> QED
      BY <2>1, <2>2, <3>1, NoneElsewhere
  <2>3. CASE f.mutex # None
    <3>1. f.mutex # MutexOf[f.obj] /\ (f.op = "disconnect" => f.other = None)
      BY <1>3, <2>3 DEF WantOK
    <3>2. \A m \in Mutexes : Needs(f, m) <=> m = MutexOf[f.obj] \/ m = f.mutex
      BY <3>1 DEF Needs
    <3>3. \A m \in Mutexes : Needs(g, m) <=> m = MutexOf[f.obj]
      BY <3>1, NoneElsewhere DEF Needs
    <3> QED
      BY <2>1, <3>1, <3>2, <3>3
  <2> QED
    BY <2>2, <2>3
<1>9. \A m \in Mutexes, u \in Threads : m = f.mutex => (holder[m] = u <=> u = t)
  <2>1. \A m \in Mutexes : m = f.mutex => holder[m] = t
    BY <1>3, <1>7 DEF Needs
  <2> QED
    BY <2>1
<1>10. /\ holder' \in [Mutexes -> Threads \cup {Free}]
       /\ \A m \in Mutexes : holder'[m] = t <=> Holds(g, m)
       /\ \A m \in Mutexes, u \in Threads : u # t => (holder'[m] = u <=> holder[m] = u)
  BY <1>3, <1>5, <1>6, <1>7, <1>8, <1>9
<1>11. HeldByTop'
  BY <1>4, <1>10, HeldMoves
<1> QED
  BY <1>2, <1>10, <1>11

\* The function is the same call, of the same object.
Continues(f, g) ==
  /\ g.op = f.op /\ g.obj = f.obj /\ g.last = f.last /\ g.due = f.due /\ g.called = f.called
  /\ g.prev = f.prev

LEMMA DisconnectScanBasic ==
  ASSUME Basic, NEW t \in Threads, DisconnectScan(t)
  PROVE  /\ Basic'
         /\ \E g \in Frame :
              /\ Goes(t, g) /\ Continues(Top(t), g) /\ g.other = Top(t).other
              /\ g.sig = Top(t).sig /\ g.left = Top(t).left /\ g.broken = Top(t).broken
              /\ \/ g.at = "scan" /\ g.conn = NextOf(Top(t))
                 \/ /\ g.at = "unlink" /\ g.conn = Top(t).conn /\ ~Broken(g.conn)
                    /\ Needs(g, MutexOf[conn[g.conn].receiver])
<1>1. PICK f : f = Top(t)
  OBVIOUS
<1>2. At(t, "disconnect", "scan") /\ f.conn # None
  BY <1>1 DEF DisconnectScan
<1>3. /\ stack[t] # <<>> /\ f \in Frame /\ f.obj \in Objects /\ f.op = "disconnect"
      /\ f.want = <<>> /\ f.mutex = None /\ FrameOK(t, f) /\ f.at = "scan"
      /\ f.conn \in Conns /\ f.sig \in Signals
      /\ \A m \in Mutexes : holder[m] = t <=> Needs(f, m)
  BY <1>1, <1>2, AtTop, FrameTyped DEF FrameOK, DisconnectFrame
<1>4. lists[f.obj].of[f.sig] \in Seq(Conns)
  BY <1>3, ListTyped DEF Basic
<1>5. ASSUME ~Breaks(f, f.conn)
      PROVE  /\ stack' \in [Threads -> Seq(Frame)] /\ Shape' /\ HeldByTop' /\ UNCHANGED holder
             /\ \E g \in Frame :
                  /\ Goes(t, g) /\ Continues(f, g) /\ g.other = f.other
                  /\ g.sig = f.sig /\ g.left = f.left /\ g.broken = f.broken
                  /\ g.at = "scan" /\ g.conn = NextOf(f)
  <2>1. PICK c : c = NextOf(f)
    OBVIOUS
  <2>2. c \in Conns \cup {None}
    BY <1>3, <1>4, <2>1, NextTyped DEF NextOf
  <2>3. PICK g : g = [f EXCEPT !.conn = c]
    OBVIOUS
  <2>4. /\ g \in Frame /\ Continues(f, g) /\ g.op = "disconnect" /\ g.at = "scan"
        /\ g.other = f.other /\ g.sig = f.sig /\ g.left = f.left /\ g.broken = f.broken
        /\ g.want = <<>> /\ g.mutex = None /\ g.conn = c
    <3>1. g \in Frame
      BY <1>3, <2>2, <2>3, ZenonT(40) DEF Frame, Continues
    <3>2. /\ Continues(f, g) /\ g.op = "disconnect" /\ g.at = "scan"
          /\ g.other = f.other /\ g.sig = f.sig /\ g.left = f.left /\ g.broken = f.broken
          /\ g.want = <<>> /\ g.mutex = None /\ g.conn = c
      BY <1>3, <2>2, <2>3, SMT DEF Frame, Continues
    <3> QED
      BY <3>1, <3>2
  <2>5. FrameOK(t, g) /\ Own(g) /\ Own(f)
    BY <1>3, <2>4 DEF FrameOK, ConnectFrame, DisconnectFrame, EmitFrame, EventFrame,
      DeleteFrame, Own, Continues
  <2>6. Goes(t, g) /\ UNCHANGED holder
    BY <1>1, <1>5, <2>1, <2>3 DEF DisconnectScan
  <2>7. stack' \in [Threads -> Seq(Frame)] /\ Shape' /\ HeldByTop'
    BY <1>1, <1>3, <2>4, <2>5, <2>6, PlainStep DEF Continues
  <2> QED
    BY <2>1, <2>4, <2>6, <2>7
<1>6. ASSUME Breaks(f, f.conn)
      PROVE  /\ stack' \in [Threads -> Seq(Frame)] /\ Shape' /\ HeldByTop'
             /\ holder' \in [Mutexes -> Threads \cup {Free}]
             /\ \E g \in Frame :
                  /\ Goes(t, g) /\ Continues(f, g) /\ g.other = f.other
                  /\ g.sig = f.sig /\ g.left = f.left /\ g.broken = f.broken
                  /\ g.at = "unlink" /\ g.conn = f.conn
                  /\ Needs(g, MutexOf[conn[g.conn].receiver])
  <2>1. ~Broken(f.conn) /\ f.other \in {None, conn[f.conn].receiver}
    BY <1>6 DEF Breaks
  <2>2. PICK r \in Objects : r = conn[f.conn].receiver
    BY <1>3, <2>1, ConnTyped DEF Basic
  <2>3. PICK h : h = [f EXCEPT !.at = "unlink"]
    OBVIOUS
  <2>4. /\ h \in Frame /\ Continues(f, h) /\ h.op = "disconnect" /\ h.at = "unlink"
        /\ h.other = f.other /\ h.sig = f.sig /\ h.left = f.left /\ h.broken = f.broken
        /\ h.want = <<>> /\ h.mutex = None /\ h.conn = f.conn /\ h.obj = f.obj
    <3>1. h \in Frame
      BY <1>3, <2>3, ZenonT(40) DEF Frame, Continues
    <3>2. /\ Continues(f, h) /\ h.op = "disconnect" /\ h.at = "unlink"
          /\ h.other = f.other /\ h.sig = f.sig /\ h.left = f.left /\ h.broken = f.broken
          /\ h.want = <<>> /\ h.mutex = None /\ h.conn = f.conn /\ h.obj = f.obj
      BY <1>3, <2>3, SMT DEF Frame, Continues
    <3> QED
      BY <3>1, <3>2
  <2>5. FrameOK(t, h) /\ Own(h) /\ Own(f)
    BY <1>3, <2>4 DEF FrameOK, ConnectFrame, DisconnectFrame, EmitFrame, EventFrame,
      DeleteFrame, Own, Continues
  <2>6. CASE f.other = None
    <3>1. Relocks(t, MutexOf[f.obj], MutexOf[r], h)
      BY <1>1, <1>6, <2>2, <2>3, <2>6 DEF DisconnectScan
    <3>2. \A m \in Mutexes : Holds(f, m) <=> m = MutexOf[f.obj]
      BY <1>3, <2>5, <2>6, NoneElsewhere, NoneWanted DEF Holds, Needs
    <3>3. PICK m, n : m = MutexOf[f.obj] /\ n = MutexOf[r] /\ m \in Mutexes /\ n \in Mutexes
      BY <1>3, <2>2, MutexTyped
    <3>4. /\ stack' \in [Threads -> Seq(Frame)] /\ Shape' /\ HeldByTop'
          /\ holder' \in [Mutexes -> Threads \cup {Free}]
          /\ \E g \in Frame : Goes(t, g) /\ Alike(h, g) /\ Needs(g, n)
      BY <1>1, <1>3, <2>4, <2>5, <2>6, <3>1, <3>2, <3>3, RelockStep
    <3>5. PICK g \in Frame : Goes(t, g) /\ Alike(h, g) /\ Needs(g, n)
      BY <3>4
    <3> QED
      BY <2>2, <2>4, <3>3, <3>4, <3>5 DEF Alike, Continues
  <2>7. CASE f.other # None
    <3>1. Goes(t, h) /\ UNCHANGED holder
      BY <1>1, <1>6, <2>3, <2>7 DEF DisconnectScan
    <3>2. stack' \in [Threads -> Seq(Frame)] /\ Shape' /\ HeldByTop'
      BY <1>1, <1>3, <2>4, <2>5, <3>1, PlainStep DEF Continues
    <3>3. Needs(h, MutexOf[conn[h.conn].receiver])
      BY <2>1, <2>4, <2>7 DEF Needs
    <3> QED
      BY <2>4, <3>1, <3>2, <3>3 DEF Basic, Typed
  <2> QED
    BY <2>6, <2>7
<1>7. stack' \in [Threads -> Seq(Frame)] /\ Shape' /\ HeldByTop'
      /\ holder' \in [Mutexes -> Threads \cup {Free}]
  BY <1>5, <1>6 DEF Basic, Typed
<1>8. Basic'
  BY <1>7 DEF Basic, Typed, DisconnectScan, switchers
<1>9. Breaks(f, f.conn) => ~Broken(f.conn)
  BY DEF Breaks
<1>10. CASE ~Breaks(f, f.conn)
  BY <1>1, <1>5, <1>8, <1>10
<1>11. CASE Breaks(f, f.conn)
  BY <1>1, <1>6, <1>8, <1>9, <1>11
<1> QED
  BY <1>10, <1>11

LEMMA DisconnectUnlinkBasic ==
  ASSUME Basic, NEW t \in Threads, DisconnectUnlink(t)
  PROVE  Basic'
<1>1. PICK f : f = Top(t)
  OBVIOUS
<1>2. At(t, "disconnect", "unlink")
  BY DEF DisconnectUnlink
<1>3. /\ stack[t] # <<>> /\ f \in Frame /\ f.obj \in Objects /\ f.op = "disconnect"
      /\ f.want = <<>> /\ FrameOK(t, f) /\ f.at = "unlink" /\ f.conn \in Conns
  BY <1>1, <1>2, AtTop, FrameTyped DEF FrameOK, DisconnectFrame
<1>4. PICK g : g = [f EXCEPT !.at = "zero", !.mutex = None]
  OBVIOUS
<1>5. /\ g \in Frame /\ g.op = "disconnect" /\ g.at = "zero" /\ g.obj = f.obj
      /\ g.other = f.other /\ g.sig = f.sig /\ g.conn = f.conn /\ g.last = f.last
      /\ g.want = <<>> /\ g.mutex = None
  <2>1. g \in Frame
    BY <1>3, <1>4, ZenonT(40) DEF Frame
  <2>2. /\ g.op = "disconnect" /\ g.at = "zero" /\ g.obj = f.obj
        /\ g.other = f.other /\ g.sig = f.sig /\ g.conn = f.conn /\ g.last = f.last
        /\ g.want = <<>> /\ g.mutex = None
    BY <1>3, <1>4, SMT DEF Frame
  <2> QED
    BY <2>1, <2>2
<1>6. FrameOK(t, g) /\ Own(g) /\ Own(f)
  BY <1>3, <1>5 DEF FrameOK, ConnectFrame, DisconnectFrame, EmitFrame, EventFrame, DeleteFrame, Own
<1>7. Goes(t, g) /\ UnlockOther(f)
  BY <1>1, <1>4 DEF DisconnectUnlink
<1>8. /\ stack' \in [Threads -> Seq(Frame)] /\ Shape' /\ HeldByTop'
      /\ holder' \in [Mutexes -> Threads \cup {Free}]
  BY <1>1, <1>3, <1>5, <1>6, <1>7, UnlockOtherStep
<1>9. senders' \in [Objects -> Seq(Conns)]
  <2>1. senders' = IF Broken(f.conn) THEN senders ELSE Unlinked(f.conn)
    BY <1>1 DEF DisconnectUnlink
  <2> QED
    BY <1>3, <2>1, UnlinkedTyped DEF Basic, Typed
<1> QED
  BY <1>8, <1>9 DEF Basic, Typed, DisconnectUnlink, switchers

LEMMA DisconnectZeroBasic ==
  ASSUME Basic, NEW t \in Threads, DisconnectZero(t)
  PROVE  Basic'
<1>1. PICK f : f = Top(t)
  OBVIOUS
<1>2. At(t, "disconnect", "zero")
  BY DEF DisconnectZero
<1>3. /\ stack[t] # <<>> /\ f \in Frame /\ f.obj \in Objects /\ f.op = "disconnect"
      /\ f.want = <<>> /\ f.mutex = None /\ FrameOK(t, f) /\ f.at = "zero" /\ f.conn \in Conns
      /\ f.sig \in Signals
  BY <1>1, <1>2, AtTop, FrameTyped, NoneElsewhere DEF FrameOK, DisconnectFrame
<1>4. PICK c : c = NextOf(f)
  OBVIOUS
<1>5. c \in Conns \cup {None}
  BY <1>3, <1>4, ListTyped, NextTyped DEF NextOf, Basic
<1>6. PICK g : g = [f EXCEPT !.at = "scan", !.broken = TRUE, !.conn = c]
  OBVIOUS
<1>7. /\ g \in Frame /\ g.op = "disconnect" /\ g.at = "scan" /\ g.obj = f.obj
      /\ g.other = f.other /\ g.sig = f.sig /\ g.conn = c /\ g.last = f.last
      /\ g.want = <<>> /\ g.mutex = None
  <2>1. g \in Frame
    BY <1>3, <1>5, <1>6, ZenonT(40) DEF Frame
  <2>2. /\ g.op = "disconnect" /\ g.at = "scan" /\ g.obj = f.obj
        /\ g.other = f.other /\ g.sig = f.sig /\ g.conn = c /\ g.last = f.last
        /\ g.want = <<>> /\ g.mutex = None
    BY <1>3, <1>5, <1>6, SMT DEF Frame
  <2> QED
    BY <2>1, <2>2
<1>8. FrameOK(t, g) /\ Own(g) /\ Own(f)
  BY <1>3, <1>7 DEF FrameOK, ConnectFrame, DisconnectFrame, EmitFrame, EventFrame, DeleteFrame, Own
<1>9. Goes(t, g) /\ UNCHANGED holder /\ conn' = [conn EXCEPT ![f.conn].receiver = None]
  BY <1>1, <1>4, <1>6 DEF DisconnectZero
<1>10. stack' \in [Threads -> Seq(Frame)] /\ Shape' /\ HeldByTop'
  BY <1>1, <1>3, <1>7, <1>8, <1>9, PlainStep
<1>11. conn' \in [Conns -> SomeConnection]
  <2>1. PICK k : k = [conn[f.conn] EXCEPT !.receiver = None]
    OBVIOUS
  <2>2. k \in SomeConnection
    <3>1. conn[f.conn] \in SomeConnection
      BY <1>3, ConnTyped DEF Basic
    <3> QED
      BY <2>1, <3>1, Zenon DEF SomeConnection
  <2> QED
    BY <1>3, <1>9, <2>1, <2>2, ChangedConn DEF Basic
<1> QED
  BY <1>9, <1>10, <1>11 DEF Basic, Typed, DisconnectZero, switchers

LEMMA DisconnectEndBasic ==
  ASSUME Basic, NEW t \in Threads, DisconnectEnd(t)
  PROVE  Basic'
<1>1. PICK f : f = Top(t)
  OBVIOUS
<1>2. At(t, "disconnect", "scan") /\ UnlockAll(t) /\ Returns(t)
  BY DEF DisconnectEnd
<1>3. stack[t] # <<>> /\ f.obj \in Objects /\ f.broken \in BOOLEAN
  BY <1>1, <1>2, AtTop, FrameTyped
<1>4. /\ stack' \in [Threads -> Seq(Frame)] /\ Shape' /\ HeldByTop'
      /\ holder' \in [Mutexes -> Threads \cup {Free}]
  BY <1>2, <1>3, UnlocksAndReturns
<1>5. lists' \in [Objects -> SomeLists]
  <2>1. PICK v : v = Leave(Dirtied(lists[f.obj], f.broken))
    OBVIOUS
  <2>2. v \in SomeLists
    BY <1>3, <2>1, ListTyped, DirtiedTyped, LeaveTyped DEF Basic
  <2>3. lists' = [lists EXCEPT ![f.obj] = v]
    BY <1>1, <2>1 DEF DisconnectEnd
  <2> QED
    BY <1>3, <2>2, <2>3, ChangedLists DEF Basic
<1> QED
  BY <1>4, <1>5 DEF Basic, Typed, DisconnectEnd, switchers

-----------------------------------------------------------------------------
(* The steps of emissions and of the delivery of queued calls.             *)

LEMMA EmitBeginBasic ==
  ASSUME Basic, NEW t \in Threads, EmitBegin(t)
  PROVE  Basic'
<1>1. PICK f : f = Top(t)
  OBVIOUS
<1>2. At(t, "emit", "begin")
  BY DEF EmitBegin
<1>3. /\ stack[t] # <<>> /\ f \in Frame /\ f.obj \in Objects /\ f.op = "emit"
      /\ f.want = <<>> /\ f.mutex = None /\ FrameOK(t, f) /\ f.at = "begin"
      /\ f.sig \in Signals
  BY <1>1, <1>2, AtTop, FrameTyped DEF FrameOK, EmitFrame
<1>4. CASE lists[f.obj].at = "none"
  <2>1. UnlockAll(t) /\ Returns(t) /\ UNCHANGED lists
    BY <1>1, <1>4 DEF EmitBegin
  <2>2. /\ stack' \in [Threads -> Seq(Frame)] /\ Shape' /\ HeldByTop'
        /\ holder' \in [Mutexes -> Threads \cup {Free}]
    BY <1>3, <2>1, UnlocksAndReturns
  <2> QED
    BY <2>1, <2>2 DEF Basic, Typed, EmitBegin, switchers
<1>5. CASE lists[f.obj].at # "none"
  <2>1. PICK all : all = lists[f.obj].of[f.sig]
    OBVIOUS
  <2>2. all \in Seq(Conns)
    BY <1>3, <2>1, ListTyped DEF Basic
  <2>3. PICK c : c = First(all)
    OBVIOUS
  <2>4. PICK l : l = IF all = <<>> THEN None ELSE Last(all)
    OBVIOUS
  <2>5. PICK d : d = Without(all, {x \in ToSet(all) : Broken(x)})
    OBVIOUS
  <2>6. c \in Conns \cup {None} /\ l \in Conns \cup {None} /\ d \in Seq(Conns)
    BY <2>2, <2>3, <2>4, <2>5, FirstTyped, WithoutElements
  <2>7. PICK g : g = [f EXCEPT !.at = "look", !.conn = c, !.last = l, !.due = d]
    OBVIOUS
  <2>8. /\ g \in Frame /\ g.op = "emit" /\ g.at = "look" /\ g.obj = f.obj
        /\ g.sig = f.sig /\ g.want = <<>> /\ g.mutex = None
    <3>1. g \in Frame
      <4>1. f \in Frame
        BY <1>3
      <4> QED
        BY <4>1, <2>6, <2>7, ZenonT(40) DEF Frame
    <3>2. /\ g.op = "emit" /\ g.at = "look" /\ g.obj = f.obj
          /\ g.sig = f.sig /\ g.want = <<>> /\ g.mutex = None
      BY <1>3, <2>6, <2>7, SMT DEF Frame
    <3> QED
      BY <3>1, <3>2
  <2>9. FrameOK(t, g) /\ Own(g) /\ Own(f)
    BY <1>3, <2>8 DEF FrameOK, ConnectFrame, DisconnectFrame, EmitFrame, EventFrame, DeleteFrame, Own
  <2>10. Goes(t, g) /\ UNCHANGED holder /\ lists' = [lists EXCEPT ![f.obj] = Enter(lists[f.obj])]
    BY <1>1, <1>5, <2>1, <2>3, <2>4, <2>5, <2>7 DEF EmitBegin
  <2>11. stack' \in [Threads -> Seq(Frame)] /\ Shape' /\ HeldByTop'
    BY <1>1, <1>3, <2>8, <2>9, <2>10, PlainStep
  <2>12. lists' \in [Objects -> SomeLists]
    BY <1>3, <2>10, EnterTyped, ListTyped, ChangedLists DEF Basic
  <2> QED
    BY <2>10, <2>11, <2>12 DEF Basic, Typed, EmitBegin, switchers
<1> QED
  BY <1>4, <1>5

\* The frame of an emission that goes on to the next connection
LEMMA AdvancedFrame ==
  ASSUME Basic, NEW t \in Threads, NEW f, FrameOK(t, f), f.op = "emit", f.conn \in Conns,
         f.want = <<>>, f.mutex = None, NEW g, g = Advanced(f)
  PROVE  /\ FrameOK(t, g) /\ g \in Frame /\ Continues(f, g) /\ g.at = "look" /\ g.sig = f.sig
         /\ g.want = <<>> /\ g.mutex = None /\ Own(g)
         /\ g.conn = IF AtLast(f) THEN None ELSE NextOf(f)
<1>1. PICK c : c = IF AtLast(f) THEN None ELSE NextOf(f)
  OBVIOUS
<1>2. f \in Frame /\ f.obj \in Objects /\ f.sig \in Signals
  BY FrameTyped DEF FrameOK, EmitFrame
<1>3. c \in Conns \cup {None}
  BY <1>1, <1>2, ListTyped, NextTyped DEF NextOf, Basic
<1>4. g = [f EXCEPT !.at = "look", !.conn = c]
  BY <1>1 DEF Advanced
<1>5. /\ g \in Frame /\ Continues(f, g) /\ g.at = "look" /\ g.sig = f.sig
      /\ g.want = <<>> /\ g.mutex = None /\ g.conn = c
  <2>1. g \in Frame
    BY <1>2, <1>3, <1>4, ZenonT(40) DEF Frame, Continues
  <2>2. /\ Continues(f, g) /\ g.at = "look" /\ g.sig = f.sig
        /\ g.want = <<>> /\ g.mutex = None /\ g.conn = c
    BY <1>2, <1>3, <1>4, SMT DEF Frame, Continues
  <2> QED
    BY <2>1, <2>2
<1>6. FrameOK(t, g) /\ Own(g)
  BY <1>5 DEF FrameOK, ConnectFrame, DisconnectFrame, EmitFrame, EventFrame, DeleteFrame, Own,
    Continues
<1> QED
  BY <1>1, <1>5, <1>6

LEMMA EmitLookBasic ==
  ASSUME Basic, NEW t \in Threads, EmitLook(t)
  PROVE  Basic'
<1>1. PICK f : f = Top(t)
  OBVIOUS
<1>2. At(t, "emit", "look") /\ f.conn # None
  BY <1>1 DEF EmitLook
<1>3. /\ stack[t] # <<>> /\ f \in Frame /\ f.obj \in Objects /\ f.op = "emit"
      /\ f.want = <<>> /\ f.mutex = None /\ FrameOK(t, f) /\ f.at = "look"
      /\ f.sig \in Signals /\ f.conn \in Conns /\ Own(f) /\ f.called \in Seq(Conns)
  BY <1>1, <1>2, AtTop, FrameTyped DEF FrameOK, EmitFrame, Own
<1>4. PICK r : r = conn[f.conn].receiver
  OBVIOUS
<1>5. ~Broken(f.conn) => r \in Objects
  BY <1>3, <1>4, ConnTyped DEF Basic
<1>6. PICK h : h = Advanced(f)
  OBVIOUS
<1>7. /\ FrameOK(t, h) /\ h \in Frame /\ Continues(f, h) /\ h.at = "look" /\ h.sig = f.sig
      /\ h.want = <<>> /\ h.mutex = None /\ Own(h)
  BY <1>3, <1>6, AdvancedFrame
<1>8. PICK d : d = Append(f.called, f.conn)
  OBVIOUS
<1>9. d \in Seq(Conns)
  BY <1>3, <1>8
<1>10. CASE Broken(f.conn) /\ Goes(t, h) /\ UNCHANGED <<holder, switchers, metaCalls>>
  <2>1. stack' \in [Threads -> Seq(Frame)] /\ Shape' /\ HeldByTop'
    BY <1>1, <1>3, <1>7, <1>10, PlainStep DEF Continues
  <2> QED
    BY <1>10, <2>1 DEF Basic, Typed, EmitLook, switchers
<1>11. CASE /\ ~Broken(f.conn) /\ metaCalls' = [metaCalls EXCEPT ![r] = Append(@, f.obj)]
            /\ Goes(t, [h EXCEPT !.called = Append(@, f.conn)])
            /\ UNCHANGED <<holder, switchers>>
  <2>1. PICK g : g = [h EXCEPT !.called = d]
    OBVIOUS
  <2>2. /\ g \in Frame /\ g.op = "emit" /\ g.obj = f.obj /\ g.at = "look" /\ g.sig = f.sig
        /\ g.want = <<>> /\ g.mutex = None /\ g.conn = h.conn /\ g.last = h.last
    <3>1. g \in Frame
      BY <1>3, <1>7, <1>9, <2>1, ZenonT(40) DEF Frame, Continues
    <3>2. /\ g.op = "emit" /\ g.obj = f.obj /\ g.at = "look" /\ g.sig = f.sig
          /\ g.want = <<>> /\ g.mutex = None /\ g.conn = h.conn /\ g.last = h.last
      BY <1>3, <1>7, <1>9, <2>1, SMT DEF Frame, Continues
    <3> QED
      BY <3>1, <3>2
  <2>3. FrameOK(t, g) /\ Own(g)
    BY <1>3, <1>7, <2>2 DEF FrameOK, ConnectFrame, DisconnectFrame, EmitFrame, EventFrame,
      DeleteFrame, Own
  <2>4. Goes(t, g)
    BY <1>7, <1>8, <1>11, <2>1 DEF Continues
  <2>5. stack' \in [Threads -> Seq(Frame)] /\ Shape' /\ HeldByTop'
    BY <1>1, <1>3, <1>11, <2>2, <2>3, <2>4, PlainStep
  <2>6. metaCalls' \in [Objects -> Seq(Objects)]
    BY <1>3, <1>5, <1>11 DEF Basic, Typed
  <2> QED
    BY <1>11, <2>5, <2>6 DEF Basic, Typed, EmitLook, switchers
<1>12. CASE /\ ~Broken(f.conn) /\ Home[r] = t /\ UnlockAll(t) /\ UNCHANGED metaCalls
            /\ Switch(t, [f EXCEPT !.called = Append(@, f.conn), !.other = r], r)
  <2>1. PICK p : p = currentSender[r]
    OBVIOUS
  <2>2. p \in Nat /\ r \in Objects
    BY <1>5, <1>12, <2>1 DEF Basic, Typed
  <2>3. PICK g : g = [f EXCEPT !.called = d, !.other = r, !.at = "slot", !.prev = p]
    OBVIOUS
  <2>4. /\ g \in Frame /\ g.op = "emit" /\ g.obj = f.obj /\ g.at = "slot" /\ g.sig = f.sig
        /\ g.want = <<>> /\ g.mutex = None /\ g.conn = f.conn /\ g.last = f.last /\ g.other = r
    <3>1. g \in Frame
      BY <1>3, <1>9, <2>2, <2>3, ZenonT(40) DEF Frame
    <3>2. /\ g.op = "emit" /\ g.obj = f.obj /\ g.at = "slot" /\ g.sig = f.sig
          /\ g.want = <<>> /\ g.mutex = None /\ g.conn = f.conn /\ g.last = f.last /\ g.other = r
      BY <1>3, <1>9, <2>2, <2>3, SMT DEF Frame
    <3> QED
      BY <3>1, <3>2
  <2>5. FrameOK(t, g) /\ ~Own(g)
    BY <1>3, <1>12, <2>2, <2>4 DEF FrameOK, ConnectFrame, DisconnectFrame, EmitFrame, EventFrame,
      DeleteFrame, Own
  <2>6. Goes(t, g) /\ currentSender' = [currentSender EXCEPT ![r] = Len(stack[t])]
    BY <1>8, <1>12, <2>1, <2>3 DEF Switch
  <2>7. WantOK(g) /\ \A m \in Mutexes : ~Holds(g, m)
    BY <2>4, <2>5, WantsNone
  <2>8. stack' \in [Threads -> Seq(Frame)] /\ Shape'
    BY <1>3, <2>5, <2>6, <2>7, ShapeGoes
  <2>9. /\ holder' \in [Mutexes -> Threads \cup {Free}]
        /\ \A m \in Mutexes : holder'[m] # t
        /\ \A m \in Mutexes, u \in Threads : u # t => (holder'[m] = u <=> holder[m] = u)
    BY <1>12, UnlockAllFrees DEF Basic
  <2>10. /\ Top(t)' = g
         /\ \A u \in Threads : u # t => stack'[u] = stack[u]
    BY <1>3, <2>4, <2>6, GoesStack DEF Basic, Typed
  <2>11. HeldByTop'
    BY <2>7, <2>9, <2>10, HeldMoves
  <2>12. currentSender' \in [Objects -> Nat]
    <3>1. Len(stack[t]) \in Nat
      BY DEF Basic, Typed
    <3> QED
      BY <2>2, <2>6, <3>1 DEF Basic, Typed
  <2> QED
    BY <1>12, <2>8, <2>9, <2>11, <2>12 DEF Basic, Typed, EmitLook
<1> QED
  BY <1>1, <1>4, <1>6, <1>10, <1>11, <1>12 DEF EmitLook

LEMMA SlotReturnBasic ==
  ASSUME Basic, NEW t \in Threads, SlotReturn(t)
  PROVE  Basic'
<1>1. PICK f : f = Top(t)
  OBVIOUS
<1>2. At(t, "emit", "slot")
  BY DEF SlotReturn
<1>3. /\ stack[t] # <<>> /\ f \in Frame /\ f.obj \in Objects /\ f.op = "emit"
      /\ f.want = <<>> /\ f.mutex = None /\ FrameOK(t, f) /\ f.at = "slot"
  BY <1>1, <1>2, AtTop, FrameTyped
<1>4. PICK w : w = <<MutexOf[f.obj]>>
  OBVIOUS
<1>5. /\ w \in Seq(Mutexes) /\ ToSet(w) = {MutexOf[f.obj]} /\ DOMAIN w = {1}
      /\ w[1] = MutexOf[f.obj]
  BY <1>3, <1>4, MutexTyped DEF ToSet
<1>6. PICK g : g = [f EXCEPT !.at = "relock", !.want = w]
  OBVIOUS
<1>7. /\ g \in Frame /\ g.op = "emit" /\ g.obj = f.obj /\ g.at = "relock" /\ g.sig = f.sig
      /\ g.want = w /\ g.mutex = None /\ g.conn = f.conn /\ g.last = f.last
      /\ g.other = f.other
  <2>1. g \in Frame
    <3>1. f \in Frame
      BY <1>3
    <3>2. w \in Seq(Mutexes)
      BY <1>5
    <3> QED
      BY <3>1, <3>2, <1>6, ZenonT(40) DEF Frame
  <2>2. /\ g.op = "emit" /\ g.obj = f.obj /\ g.at = "relock" /\ g.sig = f.sig
        /\ g.want = w /\ g.mutex = None /\ g.conn = f.conn /\ g.last = f.last
        /\ g.other = f.other
    BY <1>3, <1>5, <1>6, SMT DEF Frame
  <2> QED
    BY <2>1, <2>2
<1>8. FrameOK(t, g) /\ Own(g) /\ ~Own(f)
  BY <1>3, <1>7 DEF FrameOK, ConnectFrame, DisconnectFrame, EmitFrame, EventFrame, DeleteFrame, Own
<1>9. \A m \in Mutexes : Needs(g, m) <=> m = MutexOf[f.obj]
  BY <1>7, <1>8, NoneElsewhere DEF Needs
<1>10. WantOK(g)
  <2>1. Needs(g, MutexOf[f.obj])
    BY <1>7, <1>8 DEF Needs
  <2> QED
    BY <1>5, <1>7, <1>8, <2>1 DEF WantOK
<1>11. \A m \in Mutexes : ~Holds(g, m) /\ ~Holds(f, m)
  BY <1>3, <1>5, <1>7, <1>8, <1>9, NoneElsewhere DEF Holds, Needs
<1>12. Goes(t, g) /\ UNCHANGED holder
  BY <1>1, <1>4, <1>6 DEF SlotReturn
<1>13. stack' \in [Threads -> Seq(Frame)] /\ Shape' /\ HeldByTop'
  BY <1>1, <1>3, <1>8, <1>10, <1>11, <1>12, GoesStep
<1> QED
  BY <1>13 DEF Basic, Typed, SlotReturn, switchers

LEMMA SlotEndTyped ==
  ASSUME Typed, NEW t \in Threads, stack[t] # <<>>, NEW r \in Objects, SlotEnd(t, r)
  PROVE  currentSender' \in [Objects -> Nat] /\ dropped' \in [Threads -> SUBSET Nat]
<1>1. Top(t).prev \in Nat
  BY TopFrame, FrameTyped DEF Typed
<1>2. PICK n, p : n = Len(stack[t]) /\ p = Top(t).prev
  OBVIOUS
<1>3. Told(t, n, p) \subseteq Nat
  BY <1>1, <1>2 DEF Told
<1>4. dropped[t] \subseteq Nat
  BY DEF Typed
<1>5. (dropped[t] \ {n, p}) \cup Told(t, n, p) \in SUBSET Nat
  BY <1>3, <1>4
<1>6. dropped' = [dropped EXCEPT ![t] = (dropped[t] \ {n, p}) \cup Told(t, n, p)]
  BY <1>2 DEF SlotEnd
<1>7. dropped' \in [Threads -> SUBSET Nat]
  BY <1>5, <1>6 DEF Typed
<1>8. currentSender' \in [Objects -> Nat]
  BY <1>1 DEF SlotEnd, Typed
<1> QED
  BY <1>7, <1>8

LEMMA EmitResumeBasic ==
  ASSUME Basic, NEW t \in Threads, EmitResume(t)
  PROVE  Basic'
<1>1. PICK f : f = Top(t)
  OBVIOUS
<1>2. At(t, "emit", "relock")
  BY DEF EmitResume
<1>3. /\ stack[t] # <<>> /\ f \in Frame /\ f.obj \in Objects /\ f.op = "emit"
      /\ f.want = <<>> /\ f.mutex = None /\ FrameOK(t, f) /\ f.at = "relock"
      /\ f.conn \in Conns /\ f.other \in Objects /\ Own(f)
  BY <1>1, <1>2, AtTop, FrameTyped DEF FrameOK, EmitFrame, Own
<1>4. PICK g : g = IF lists[f.obj].at = "orphaned" THEN [f EXCEPT !.at = "look", !.conn = None]
                                                  ELSE Advanced(f)
  OBVIOUS
<1>5. /\ FrameOK(t, g) /\ g \in Frame /\ g.op = "emit" /\ g.obj = f.obj /\ g.at = "look"
      /\ g.want = <<>> /\ g.mutex = None /\ Own(g)
  <2>1. CASE lists[f.obj].at = "orphaned"
    <3>1. g = [f EXCEPT !.at = "look", !.conn = None]
      BY <1>4, <2>1
    <3>2. /\ g \in Frame /\ g.op = "emit" /\ g.obj = f.obj /\ g.at = "look"
          /\ g.want = <<>> /\ g.mutex = None /\ g.sig = f.sig
      <4>1. g \in Frame
        <5>1. f \in Frame
          BY <1>3
        <5>2. None \in Conns \cup {None}
          OBVIOUS
        <5> QED
          BY <5>1, <5>2, <3>1, ZenonT(40) DEF Frame
      <4>2. /\ g.op = "emit" /\ g.obj = f.obj /\ g.at = "look"
            /\ g.want = <<>> /\ g.mutex = None /\ g.sig = f.sig
        BY <1>3, <3>1, SMT DEF Frame
      <4> QED
        BY <4>1, <4>2
    <3> QED
      BY <1>3, <3>2 DEF FrameOK, ConnectFrame, DisconnectFrame, EmitFrame, EventFrame,
        DeleteFrame, Own
  <2>2. CASE lists[f.obj].at # "orphaned"
    <3>1. g = Advanced(f)
      BY <1>4, <2>2
    <3> QED
      BY <1>3, <3>1, AdvancedFrame DEF Continues
  <2> QED
    BY <2>1, <2>2
<1>6. Goes(t, g) /\ UNCHANGED holder /\ SlotEnd(t, f.other)
  BY <1>1, <1>4 DEF EmitResume
<1>7. stack' \in [Threads -> Seq(Frame)] /\ Shape' /\ HeldByTop'
  BY <1>1, <1>3, <1>5, <1>6, PlainStep
<1>8. currentSender' \in [Objects -> Nat] /\ dropped' \in [Threads -> SUBSET Nat]
  BY <1>3, <1>6, SlotEndTyped DEF Basic
<1> QED
  BY <1>7, <1>8 DEF Basic, Typed, EmitResume

LEMMA EmitEndBasic ==
  ASSUME Basic, NEW t \in Threads, EmitEnd(t)
  PROVE  Basic'
<1>1. PICK f : f = Top(t)
  OBVIOUS
<1>2. At(t, "emit", "look") /\ UnlockAll(t) /\ Returns(t)
  BY DEF EmitEnd
<1>3. stack[t] # <<>> /\ f.obj \in Objects
  BY <1>1, <1>2, AtTop, FrameTyped
<1>4. /\ stack' \in [Threads -> Seq(Frame)] /\ Shape' /\ HeldByTop'
      /\ holder' \in [Mutexes -> Threads \cup {Free}]
  BY <1>2, <1>3, UnlocksAndReturns
<1>5. lists' \in [Objects -> SomeLists]
  <2>1. lists' = [lists EXCEPT ![f.obj] = Leave(lists[f.obj])]
    BY <1>1 DEF EmitEnd
  <2> QED
    BY <1>3, <2>1, ListTyped, LeaveTyped, ChangedLists DEF Basic
<1> QED
  BY <1>4, <1>5 DEF Basic, Typed, EmitEnd, switchers

LEMMA DeliverEndBasic ==
  ASSUME Basic, NEW t \in Threads, DeliverEnd(t)
  PROVE  Basic'
<1>1. PICK f : f = Top(t)
  OBVIOUS
<1>2. At(t, "event", "slot") /\ Returns(t) /\ UNCHANGED holder /\ SlotEnd(t, f.obj)
  BY <1>1 DEF DeliverEnd
<1>3. /\ stack[t] # <<>> /\ f \in Frame /\ f.obj \in Objects
      /\ \A m \in Mutexes : holder[m] # t
  <2>1. stack[t] # <<>> /\ FrameOK(t, f) /\ WantOK(f) /\ f.at = "slot" /\ f \in Frame
        /\ \A m \in Mutexes : holder[m] = t <=> Needs(f, m)
    BY <1>1, <1>2, AtTop
  <2> QED
    BY <2>1, BelowHolds, FrameTyped DEF Below
<1>4. stack' \in [Threads -> Seq(Frame)] /\ Shape' /\ HeldByTop'
  BY <1>2, <1>3, ReturnStep
<1>5. currentSender' \in [Objects -> Nat] /\ dropped' \in [Threads -> SUBSET Nat]
  BY <1>2, <1>3, SlotEndTyped DEF Basic
<1> QED
  BY <1>4, <1>5 DEF Basic, Typed, DeliverEnd

-----------------------------------------------------------------------------
(* The steps of the destructor.                                            *)

\* A call and a call nested in it begin at once.
LEMMA EntersTwo ==
  ASSUME stack \in [Threads -> Seq(Frame)], NEW t \in Threads, NEW f \in Frame, NEW g \in Frame,
         stack' = [stack EXCEPT ![t] = @ \o <<f>> \o <<g>>]
  PROVE  /\ stack' \in [Threads -> Seq(Frame)]
         /\ \A u \in Threads : u # t => stack'[u] = stack[u]
         /\ Len(stack[t]) \in Nat /\ DOMAIN stack[t] = 1 .. Len(stack[t])
         /\ Len(stack'[t]) = Len(stack[t]) + 2 /\ stack'[t] # <<>>
         /\ DOMAIN stack'[t] = 1 .. Len(stack[t]) + 2
         /\ stack'[t][Len(stack[t]) + 1] = f /\ stack'[t][Len(stack[t]) + 2] = g
         /\ Top(t)' = g
         /\ \A i \in DOMAIN stack[t] : stack'[t][i] = stack[t][i]
<1>1. PICK s : s = stack[t]
  OBVIOUS
<1>2. s \in Seq(Frame) /\ Len(s) \in Nat /\ DOMAIN s = 1 .. Len(s)
  BY <1>1
<1>3. PICK q : q = s \o <<f>> \o <<g>>
  OBVIOUS
<1>5. PICK r : r = Append(s, f)
  OBVIOUS
<1>4. q = Append(r, g)
  <2>1. s \o <<f>> = r /\ r \in Seq(Frame)
    BY <1>2, <1>5
  <2>2. r \o <<g>> = Append(r, g)
    BY <2>1
  <2> QED
    BY <1>3, <2>1, <2>2
<1>6. /\ r \in Seq(Frame) /\ Len(r) = Len(s) + 1
      /\ r[Len(s) + 1] = f /\ \A i \in 1 .. Len(s) : r[i] = s[i]
  BY <1>2, <1>5, AppendProperties
<1>7. /\ q \in Seq(Frame) /\ Len(q) = Len(r) + 1 /\ DOMAIN q = 1 .. Len(q)
      /\ q[Len(r) + 1] = g /\ \A i \in 1 .. Len(r) : q[i] = r[i]
  BY <1>4, <1>5, <1>6, AppendProperties
<1>8. /\ Len(q) = Len(s) + 2 /\ q[Len(s) + 1] = f /\ q[Len(s) + 2] = g
      /\ \A i \in 1 .. Len(s) : q[i] = s[i]
  <2>1. Len(s) + 1 \in 1 .. Len(r) /\ \A i \in 1 .. Len(s) : i \in 1 .. Len(r)
    BY <1>2, <1>6
  <2>2. Len(r) + 1 = Len(s) + 2
    BY <1>2, <1>6
  <2> QED
    BY <1>6, <1>7, <2>1, <2>2
<1>9. stack' = [stack EXCEPT ![t] = q]
  BY <1>1, <1>3
<1>10. stack'[t] = q /\ \A u \in Threads : u # t => stack'[u] = stack[u]
  BY <1>9
<1>11. stack' \in [Threads -> Seq(Frame)]
  BY <1>7, <1>9
<1>12. Top(t)' = g
  BY <1>7, <1>8, <1>10 DEF Top, Last
<1>13. q # <<>>
  BY <1>2, <1>8
<1> QED
  BY <1>1, <1>2, <1>7, <1>8, <1>10, <1>11, <1>12, <1>13

\* The frame of a destructor that begins
LEMMA DeleteFrameBegins ==
  ASSUME NEW t \in Threads, NEW o \in Objects, Home[o] = t, NEW f, f = NewFrame("delete", o)
  PROVE  /\ FrameOK(t, f) /\ WantOK(f) /\ \A m \in Mutexes : ~Holds(f, m)
         /\ f \in Frame /\ f.op = "delete" /\ f.at = "begin" /\ f.obj = o
<1>1. Begins(f, "delete", o)
  BY NewFrameTyped
<1>2. FrameOK(t, f)
  BY <1>1 DEF Begins, FrameOK, ConnectFrame, DisconnectFrame, EmitFrame, EventFrame, DeleteFrame
<1>3. ~Own(f)
  BY <1>1 DEF Begins, Own
<1>4. WantOK(f) /\ \A m \in Mutexes : ~Holds(f, m)
  BY <1>1, <1>3, WantsNone DEF Begins
<1> QED
  BY <1>1, <1>2, <1>4 DEF Begins

\* The destructor begins, and emits destroyed if that is connected.
LEMMA DeleteCallBasic ==
  ASSUME Basic, NEW t \in Threads, NEW o \in Objects, DeleteCall(t, o)
  PROVE  /\ Basic'
         /\ \E f \in Frame :
              /\ f.op = "delete" /\ f.at = "begin" /\ f.obj = o
              /\ \/ Enters(t, f)
                 \/ /\ Destroyed \in Signals
                    /\ stack' = [stack EXCEPT ![t] = @ \o <<f>> \o <<Emission(o, Destroyed)>>]
<1>1. PICK f : f = NewFrame("delete", o)
  OBVIOUS
<1>2. Home[o] = t /\ InUserCode(t) /\ calls' \in 0 .. MaxCalls /\ UNCHANGED holder
  BY CallsTyped DEF DeleteCall
<1>3. /\ FrameOK(t, f) /\ WantOK(f) /\ \A m \in Mutexes : ~Holds(f, m)
      /\ f \in Frame /\ f.op = "delete" /\ f.at = "begin" /\ f.obj = o
  BY <1>1, <1>2, DeleteFrameBegins
<1>4. (stack[t] # <<>> => Below(Top(t))) /\ \A m \in Mutexes : holder[m] # t
  BY <1>2, UserCodeHolds
<1>5. stack[t] \in Seq(Frame) /\ stack \in [Threads -> Seq(Frame)]
  BY DEF Basic, Typed
<1>6. CASE ~(Destroyed \in Signals /\ lists[o].of[Destroyed] # <<>>)
  <2>1. stack' = [stack EXCEPT ![t] = @ \o <<f>> \o <<>>]
    BY <1>1, <1>6 DEF DeleteCall
  <2>2. stack[t] \o <<f>> \o <<>> = Append(stack[t], f)
    BY <1>3, <1>5
  <2>3. Enters(t, f)
    BY <2>1, <2>2 DEF Enters
  <2>4. stack' \in [Threads -> Seq(Frame)] /\ Shape' /\ HeldByTop'
    BY <1>2, <1>3, <2>3, CallStep
  <2>5. Typed'
    BY <1>2, <2>4 DEF Basic, Typed, DeleteCall, switchers
  <2> QED
    BY <1>3, <2>3, <2>4, <2>5 DEF Basic
<1>7. CASE Destroyed \in Signals /\ lists[o].of[Destroyed] # <<>>
  <2>1. PICK g : g = Emission(o, Destroyed)
    OBVIOUS
  <2>2. stack' = [stack EXCEPT ![t] = @ \o <<f>> \o <<g>>]
    BY <1>1, <1>7, <2>1 DEF DeleteCall
  <2>3. FrameOK(t, g) /\ WantOK(g) /\ g \in Frame /\ \A m \in Mutexes : ~Holds(g, m)
    BY <1>2, <1>7, <2>1, EmitFrameBegins
  <2>4. /\ stack' \in [Threads -> Seq(Frame)]
        /\ \A u \in Threads : u # t => stack'[u] = stack[u]
        /\ Len(stack[t]) \in Nat /\ DOMAIN stack[t] = 1 .. Len(stack[t])
        /\ Len(stack'[t]) = Len(stack[t]) + 2 /\ stack'[t] # <<>>
        /\ DOMAIN stack'[t] = 1 .. Len(stack[t]) + 2
        /\ stack'[t][Len(stack[t]) + 1] = f /\ stack'[t][Len(stack[t]) + 2] = g
        /\ Top(t)' = g
        /\ \A i \in DOMAIN stack[t] : stack'[t][i] = stack[t][i]
    BY <1>3, <1>5, <2>2, <2>3, EntersTwo
  <2>5. ASSUME NEW u \in Threads, NEW i \in DOMAIN stack'[u]
        PROVE  /\ FrameOK(u, stack'[u][i]) /\ WantOK(stack'[u][i])
               /\ i # Len(stack'[u]) => Below(stack'[u][i])
    <3>1. CASE u # t
      <4>1. i \in DOMAIN stack[u] /\ stack'[u] = stack[u]
        BY <2>4, <2>5, <3>1
      <4> QED
        BY <4>1 DEF Basic, Shape
    <3>2. CASE u = t /\ i = Len(stack[t]) + 2
      BY <2>3, <2>4, <3>2
    <3>3. CASE u = t /\ i = Len(stack[t]) + 1
      BY <1>3, <2>4, <3>3 DEF Below
    <3>4. CASE u = t /\ i \in DOMAIN stack[t]
      <4>1. FrameOK(t, stack[t][i]) /\ WantOK(stack[t][i])
            /\ (i # Len(stack[t]) => Below(stack[t][i]))
        BY <3>4 DEF Basic, Shape
      <4>2. i = Len(stack[t]) => Below(stack[t][i])
        <5> SUFFICES ASSUME i = Len(stack[t]) PROVE Below(stack[t][i])
          OBVIOUS
        <5>1. stack[t] # <<>>
          BY <3>4
        <5> QED
          BY <1>4, <1>5, <5>1, TopFrame
      <4> QED
        BY <2>4, <3>4, <4>1, <4>2
    <3>5. u = t => i = Len(stack[t]) + 2 \/ i = Len(stack[t]) + 1 \/ i \in DOMAIN stack[t]
      <4> SUFFICES ASSUME u = t
                   PROVE  i = Len(stack[t]) + 2 \/ i = Len(stack[t]) + 1 \/ i \in DOMAIN stack[t]
        OBVIOUS
      <4>1. PICK n \in Nat : n = Len(stack[t])
        BY <2>4
      <4>2. i \in 1 .. n + 2 /\ DOMAIN stack[t] = 1 .. n
        BY <2>4, <2>5, <4>1
      <4> QED
        BY <4>1, <4>2
    <3> QED
      BY <3>1, <3>2, <3>3, <3>4, <3>5
  <2>6. Shape'
    BY <2>5 DEF Shape, FrameOK, WantOK, Below, ConnectFrame, DisconnectFrame,
      EmitFrame, EventFrame, DeleteFrame, Needs, Own
  <2>7. HeldByTop'
    BY <1>2, <1>4, <2>3, <2>4, HeldMoves
  <2>8. Typed'
    BY <1>2, <2>4 DEF Basic, Typed, DeleteCall, switchers
  <2> QED
    BY <1>3, <1>7, <2>1, <2>2, <2>6, <2>7, <2>8 DEF Basic
<1> QED
  BY <1>6, <1>7

LEMMA DeleteBeginBasic ==
  ASSUME Basic, NEW t \in Threads, DeleteBegin(t)
  PROVE  /\ Basic'
         /\ \E g \in Frame : /\ Goes(t, g) /\ Continues(Top(t), g) /\ g.conn = None
                             /\ \/ g.at = "lists" /\ HasConnections(g.obj)
                                \/ g.at = "free" /\ ~HasConnections(g.obj)
<1>1. PICK f : f = Top(t)
  OBVIOUS
<1>2. At(t, "delete", "begin")
  BY DEF DeleteBegin
<1>3. /\ stack[t] # <<>> /\ f \in Frame /\ f.obj \in Objects /\ f.op = "delete"
      /\ f.want = <<>> /\ f.mutex = None /\ FrameOK(t, f) /\ f.at = "begin" /\ f.conn = None
  BY <1>1, <1>2, AtTop, FrameTyped DEF FrameOK, DeleteFrame
<1>4. PICK w : w = <<MutexOf[f.obj]>>
  OBVIOUS
<1>5. /\ w \in Seq(Mutexes) /\ ToSet(w) = {MutexOf[f.obj]} /\ DOMAIN w = {1}
      /\ w[1] = MutexOf[f.obj]
  BY <1>3, <1>4, MutexTyped DEF ToSet
<1>6. \A m \in Mutexes : ~Holds(f, m)
  <2>1. ~Own(f)
    BY <1>3 DEF Own
  <2> QED
    BY <1>3, <2>1, WantsNone
<1>7. ASSUME HasConnections(f.obj)
      PROVE  /\ stack' \in [Threads -> Seq(Frame)] /\ Shape' /\ HeldByTop'
             /\ \E g \in Frame : /\ Goes(t, g) /\ Continues(f, g) /\ g.conn = None
                                 /\ \/ g.at = "lists" /\ HasConnections(g.obj)
                                    \/ g.at = "free" /\ ~HasConnections(g.obj)
  <2>1. PICK g : g = [f EXCEPT !.at = "lists", !.want = w]
    OBVIOUS
  <2>2. /\ g \in Frame /\ g.op = "delete" /\ g.obj = f.obj /\ g.at = "lists"
        /\ g.want = w /\ g.mutex = None /\ g.conn = None /\ g.last = f.last /\ Continues(f, g)
    <3>1. g \in Frame
      BY <1>3, <1>5, <2>1, ZenonT(40) DEF Frame, Continues
    <3>2. /\ g.op = "delete" /\ g.obj = f.obj /\ g.at = "lists"
          /\ g.want = w /\ g.mutex = None /\ g.conn = None /\ g.last = f.last /\ Continues(f, g)
      BY <1>3, <1>5, <2>1, SMT DEF Frame, Continues
    <3> QED
      BY <3>1, <3>2
  <2>3. FrameOK(t, g) /\ Own(g)
    BY <1>3, <2>2 DEF FrameOK, ConnectFrame, DisconnectFrame, EmitFrame, EventFrame, DeleteFrame, Own
  <2>4. WantOK(g)
    <3>1. Needs(g, MutexOf[f.obj])
      BY <2>2, <2>3 DEF Needs
    <3> QED
      BY <1>5, <2>2, <2>3, <3>1 DEF WantOK
  <2>5. \A m \in Mutexes : ~Holds(g, m)
    BY <1>5, <2>2, NoneElsewhere DEF Holds, Needs
  <2>6. Goes(t, g) /\ UNCHANGED holder
    BY <1>1, <1>4, <1>7, <2>1 DEF DeleteBegin
  <2>7. stack' \in [Threads -> Seq(Frame)] /\ Shape' /\ HeldByTop'
    BY <1>1, <1>3, <1>6, <2>3, <2>4, <2>5, <2>6, GoesStep
  <2>8. g.at = "lists" /\ HasConnections(g.obj)
    BY <1>7, <2>2
  <2> QED
    BY <1>1, <2>2, <2>6, <2>7, <2>8
<1>8. ASSUME ~HasConnections(f.obj)
      PROVE  /\ stack' \in [Threads -> Seq(Frame)] /\ Shape' /\ HeldByTop'
             /\ \E g \in Frame : /\ Goes(t, g) /\ Continues(f, g) /\ g.conn = None
                                 /\ \/ g.at = "lists" /\ HasConnections(g.obj)
                                    \/ g.at = "free" /\ ~HasConnections(g.obj)
  <2>1. PICK g : g = [f EXCEPT !.at = "free"]
    OBVIOUS
  <2>2. /\ g \in Frame /\ g.op = "delete" /\ g.obj = f.obj /\ g.at = "free"
        /\ g.want = <<>> /\ g.mutex = None /\ g.conn = None /\ g.last = f.last /\ Continues(f, g)
    <3>1. g \in Frame
      BY <1>3, <2>1, ZenonT(40) DEF Frame, Continues
    <3>2. /\ g.op = "delete" /\ g.obj = f.obj /\ g.at = "free"
          /\ g.want = <<>> /\ g.mutex = None /\ g.conn = None /\ g.last = f.last /\ Continues(f, g)
      BY <1>3, <2>1, SMT DEF Frame, Continues
    <3> QED
      BY <3>1, <3>2
  <2>3. FrameOK(t, g) /\ ~Own(g) /\ ~Own(f)
    BY <1>3, <2>2 DEF FrameOK, ConnectFrame, DisconnectFrame, EmitFrame, EventFrame, DeleteFrame, Own
  <2>4. Goes(t, g) /\ UNCHANGED holder
    BY <1>1, <1>8, <2>1 DEF DeleteBegin
  <2>5. stack' \in [Threads -> Seq(Frame)] /\ Shape' /\ HeldByTop'
    BY <1>1, <1>3, <2>2, <2>3, <2>4, PlainStep
  <2>6. g.at = "free" /\ ~HasConnections(g.obj)
    BY <1>8, <2>2
  <2> QED
    BY <1>1, <2>2, <2>4, <2>5, <2>6
<1>9. currentSender' \in [Objects -> Nat] /\ dropped' \in [Threads -> SUBSET Nat]
  <2>1. dropped[t] \cup ({currentSender[f.obj]} \ {0}) \in SUBSET Nat
    BY <1>3 DEF Basic, Typed
  <2>2. dropped' = [dropped EXCEPT ![t] = dropped[t] \cup ({currentSender[f.obj]} \ {0})]
        /\ currentSender' = [currentSender EXCEPT ![f.obj] = 0]
    BY <1>1 DEF DeleteBegin
  <2> QED
    BY <1>3, <2>1, <2>2 DEF Basic, Typed
<1>10. stack' \in [Threads -> Seq(Frame)] /\ Shape' /\ HeldByTop'
       /\ \E g \in Frame : /\ Goes(t, g) /\ Continues(Top(t), g) /\ g.conn = None
                           /\ \/ g.at = "lists" /\ HasConnections(g.obj)
                              \/ g.at = "free" /\ ~HasConnections(g.obj)
  BY <1>1, <1>7, <1>8
<1>11. Typed'
  BY <1>9, <1>10 DEF Basic, Typed, DeleteBegin
<1> QED
  BY <1>10, <1>11 DEF Basic

LEMMA DeleteListsBasic ==
  ASSUME Basic, NEW t \in Threads, DeleteLists(t)
  PROVE  Basic'
<1>1. PICK f : f = Top(t)
  OBVIOUS
<1>2. At(t, "delete", "lists")
  BY DEF DeleteLists
<1>3. /\ stack[t] # <<>> /\ f \in Frame /\ f.obj \in Objects /\ f.op = "delete"
      /\ f.want = <<>> /\ f.mutex = None /\ FrameOK(t, f) /\ f.at = "lists" /\ f.conn = None
  BY <1>1, <1>2, AtTop, FrameTyped DEF FrameOK, DeleteFrame
<1>4. PICK at : at = IF lists[f.obj].at = "used" THEN "receivers" ELSE "senders"
  OBVIOUS
<1>5. PICK g : g = [f EXCEPT !.at = at]
  OBVIOUS
<1>6. /\ g \in Frame /\ g.op = "delete" /\ g.obj = f.obj /\ g.at = at
      /\ g.want = <<>> /\ g.mutex = None /\ g.conn = None /\ g.last = f.last
  <2>1. g \in Frame
    BY <1>3, <1>4, <1>5, ZenonT(40) DEF Frame
  <2>2. /\ g.op = "delete" /\ g.obj = f.obj /\ g.at = at
        /\ g.want = <<>> /\ g.mutex = None /\ g.conn = None /\ g.last = f.last
    BY <1>3, <1>4, <1>5, SMT DEF Frame
  <2> QED
    BY <2>1, <2>2
<1>7. FrameOK(t, g) /\ Own(g) /\ Own(f)
  BY <1>3, <1>4, <1>6 DEF FrameOK, ConnectFrame, DisconnectFrame, EmitFrame, EventFrame, DeleteFrame, Own
<1>8. Goes(t, g) /\ UNCHANGED holder
  BY <1>1, <1>4, <1>5 DEF DeleteLists
<1>9. stack' \in [Threads -> Seq(Frame)] /\ Shape' /\ HeldByTop'
  <2>1. g.at # "node"
    BY <1>4, <1>6
  <2> QED
    BY <1>1, <1>3, <1>6, <1>7, <1>8, <2>1, PlainStep
<1>10. lists' \in [Objects -> SomeLists]
  <2>1. lists' = [lists EXCEPT ![f.obj] = Enter(lists[f.obj])] \/ lists' = lists
    BY <1>1 DEF DeleteLists
  <2> QED
    <3>1. PICK v : v = Enter(lists[f.obj])
      OBVIOUS
    <3>2. v \in SomeLists
      BY <1>3, <3>1, EnterTyped, ListTyped DEF Basic
    <3>3. lists' = [lists EXCEPT ![f.obj] = v] \/ lists' = lists
      BY <2>1, <3>1
    <3> QED
      BY <1>3, <3>2, <3>3, ChangedLists DEF Basic, Typed
<1> QED
  BY <1>8, <1>9, <1>10 DEF Basic, Typed, DeleteLists, switchers

\* What DropFirst leaves
LEMMA DropFirstTyped ==
  ASSUME Typed, NEW o \in Objects, NEW g \in Signals, lists[o].of[g] # <<>>,
         NEW c \in Conns, NEW k \in SomeConnection, DropFirst(o, g, c, k)
  PROVE  /\ lists' \in [Objects -> SomeLists] /\ conn' \in [Conns -> SomeConnection]
         /\ conn'[c] = Deref(k) /\ \A d \in Conns : d # c => conn'[d] = conn[d]
         /\ \A p \in Objects : p # o => lists'[p] = lists[p]
         /\ lists'[o].at = lists[o].at /\ lists'[o].inUse = lists[o].inUse
         /\ lists'[o].dirty = lists[o].dirty
         /\ lists'[o].of[g] = Tail(lists[o].of[g])
         /\ \A h \in Signals : h # g => lists'[o].of[h] = lists[o].of[h]
<1>1. PICK v, q : v = lists[o] /\ q = Tail(lists[o].of[g])
  OBVIOUS
<1>2. v \in SomeLists /\ q \in Seq(Conns) /\ v.of \in [Signals -> Seq(Conns)]
  BY <1>1, ListTyped, HeadAndTail
<1>3. PICK w : w = [v EXCEPT !.of[g] = q]
  OBVIOUS
<1>4. /\ w \in SomeLists /\ w.at = v.at /\ w.inUse = v.inUse /\ w.dirty = v.dirty
      /\ w.of[g] = q /\ \A h \in Signals : h # g => w.of[h] = v.of[h]
  BY <1>2, <1>3 DEF SomeLists
<1>5. lists' = [lists EXCEPT ![o] = w]
  BY <1>1, <1>3 DEF DropFirst
<1>6. /\ lists' \in [Objects -> SomeLists] /\ lists'[o] = w
      /\ \A p \in Objects : p # o => lists'[p] = lists[p]
  BY <1>4, <1>5, ChangedLists
<1>7. conn' = [conn EXCEPT ![c] = Deref(k)] /\ Deref(k) \in SomeConnection
  BY DerefTyped DEF DropFirst
<1>8. /\ conn' \in [Conns -> SomeConnection] /\ conn'[c] = Deref(k)
      /\ \A d \in Conns : d # c => conn'[d] = conn[d]
  BY <1>7, ChangedConn
<1> QED
  BY <1>1, <1>4, <1>6, <1>8

LEMMA DeleteReceiversBasic ==
  ASSUME Basic, NEW t \in Threads, DeleteReceivers(t)
  PROVE  /\ Basic'
         /\ \E s \in Signals, c \in Conns :
              /\ lists[Top(t).obj].of[s] # <<>> /\ c = Head(lists[Top(t).obj].of[s])
              /\ \/ /\ Broken(c) /\ DropFirst(Top(t).obj, s, c, conn[c])
                    /\ UNCHANGED <<stack, holder>>
                 \/ /\ ~Broken(c) /\ UNCHANGED <<lists, conn>>
                    /\ \E g \in Frame :
                         /\ Goes(t, g) /\ Continues(Top(t), g) /\ g.at = "unlink"
                         /\ g.sig = s /\ g.conn = c
                         /\ Needs(g, MutexOf[conn[c].receiver])
<1>1. PICK f : f = Top(t)
  OBVIOUS
<1>2. At(t, "delete", "receivers")
  BY DEF DeleteReceivers
<1>3. /\ stack[t] # <<>> /\ f \in Frame /\ f.obj \in Objects /\ f.op = "delete"
      /\ f.want = <<>> /\ f.mutex = None /\ FrameOK(t, f) /\ f.at = "receivers" /\ f.conn = None
      /\ \A m \in Mutexes : holder[m] = t <=> Needs(f, m)
  BY <1>1, <1>2, AtTop, FrameTyped DEF FrameOK, DeleteFrame
<1>4. PICK s \in Signals :
        /\ lists[f.obj].of[s] # <<>>
        /\ IF Broken(Head(lists[f.obj].of[s]))
             THEN /\ DropFirst(f.obj, s, Head(lists[f.obj].of[s]), conn[Head(lists[f.obj].of[s])])
                  /\ UNCHANGED <<stack, holder>>
             ELSE /\ Relocks(t, MutexOf[f.obj], MutexOf[conn[Head(lists[f.obj].of[s])].receiver],
                             [f EXCEPT !.at = "unlink", !.sig = s, !.conn = Head(lists[f.obj].of[s])])
                  /\ UNCHANGED <<lists, conn>>
  BY <1>1 DEF DeleteReceivers
<1>5. PICK c \in Conns : c = Head(lists[f.obj].of[s])
  BY <1>3, <1>4, ListTyped, HeadAndTail DEF Basic
<1>6. UNCHANGED <<life, senders, handles, switchers, metaCalls, calls>>
  BY DEF DeleteReceivers
<1>7. CASE Broken(c)
  <2>1. DropFirst(f.obj, s, c, conn[c]) /\ UNCHANGED <<stack, holder>>
    BY <1>4, <1>5, <1>7
  <2>2. lists' \in [Objects -> SomeLists] /\ conn' \in [Conns -> SomeConnection]
    BY <1>3, <1>4, <2>1, ConnTyped, DropFirstTyped DEF Basic
  <2>3. Typed'
    BY <1>6, <2>1, <2>2 DEF Basic, Typed, switchers
  <2>4. Shape' /\ HeldByTop'
    BY <2>1 DEF Basic, Shape, HeldByTop, Top, FrameOK, WantOK, Below, ConnectFrame,
      DisconnectFrame, EmitFrame, EventFrame, DeleteFrame, Needs, Own, Holds
  <2> QED
    BY <1>1, <1>4, <1>5, <1>7, <2>1, <2>3, <2>4 DEF Basic
<1>8. CASE ~Broken(c)
  <2>1. PICK r \in Objects : r = conn[c].receiver
    BY <1>8, ConnTyped DEF Basic
  <2>2. PICK h : h = [f EXCEPT !.at = "unlink", !.sig = s, !.conn = c]
    OBVIOUS
  <2>3. Relocks(t, MutexOf[f.obj], MutexOf[r], h) /\ UNCHANGED <<lists, conn>>
    BY <1>4, <1>5, <1>8, <2>1, <2>2
  <2>4. /\ h \in Frame /\ h.op = "delete" /\ h.obj = f.obj /\ h.at = "unlink" /\ h.sig = s
        /\ h.want = <<>> /\ h.mutex = None /\ h.conn = c /\ h.last = f.last /\ Continues(f, h)
    <3>1. h \in Frame
      BY <1>3, <2>2, ZenonT(40) DEF Frame, Continues
    <3>2. /\ h.op = "delete" /\ h.obj = f.obj /\ h.at = "unlink" /\ h.sig = s
          /\ h.want = <<>> /\ h.mutex = None /\ h.conn = c /\ h.last = f.last /\ Continues(f, h)
      BY <1>3, <2>2, SMT DEF Frame, Continues
    <3> QED
      BY <3>1, <3>2
  <2>5. FrameOK(t, h) /\ Own(f)
    BY <1>3, <2>4 DEF FrameOK, ConnectFrame, DisconnectFrame, EmitFrame, EventFrame, DeleteFrame, Own
  <2>6. \A m \in Mutexes : Holds(f, m) <=> m = MutexOf[f.obj]
    BY <1>3, <2>5, NoneElsewhere, NoneWanted DEF Holds, Needs
  <2>7. PICK m, n : m = MutexOf[f.obj] /\ n = MutexOf[r] /\ m \in Mutexes /\ n \in Mutexes
    BY <1>3, <2>1, MutexTyped
  <2>8. /\ stack' \in [Threads -> Seq(Frame)] /\ Shape' /\ HeldByTop'
        /\ holder' \in [Mutexes -> Threads \cup {Free}]
        /\ \E g \in Frame : Goes(t, g) /\ Alike(h, g) /\ Needs(g, n)
    BY <1>1, <1>3, <2>3, <2>4, <2>5, <2>6, <2>7, RelockStep
  <2>9. PICK g \in Frame : Goes(t, g) /\ Alike(h, g) /\ Needs(g, n)
    BY <2>8
  <2>10. /\ Continues(f, g) /\ g.at = "unlink" /\ g.sig = s /\ g.conn = c
         /\ Needs(g, MutexOf[conn[c].receiver])
    BY <2>1, <2>4, <2>7, <2>9 DEF Alike, Continues
  <2>11. Basic'
    BY <1>6, <2>3, <2>8 DEF Basic, Typed, switchers
  <2> QED
    BY <1>1, <1>4, <1>5, <1>8, <2>3, <2>9, <2>10, <2>11
<1> QED
  BY <1>7, <1>8

LEMMA DeleteUnlinkBasic ==
  ASSUME Basic, NEW t \in Threads, DeleteUnlink(t),
         lists[Top(t).obj].of[Top(t).sig] # <<>>
  PROVE  Basic'
<1>1. PICK f : f = Top(t)
  OBVIOUS
<1>2. At(t, "delete", "unlink")
  BY DEF DeleteUnlink
<1>3. /\ stack[t] # <<>> /\ f \in Frame /\ f.obj \in Objects /\ f.op = "delete"
      /\ f.want = <<>> /\ FrameOK(t, f) /\ f.at = "unlink" /\ f.conn \in Conns /\ f.sig \in Signals
  BY <1>1, <1>2, AtTop, FrameTyped DEF FrameOK, DeleteFrame
<1>4. PICK g : g = [f EXCEPT !.at = "receivers", !.sig = None, !.conn = None, !.mutex = None]
  OBVIOUS
<1>5. /\ g \in Frame /\ g.op = "delete" /\ g.at = "receivers" /\ g.obj = f.obj
      /\ g.conn = None /\ g.last = f.last /\ g.want = <<>> /\ g.mutex = None
  <2>1. g \in Frame
    BY <1>3, <1>4, ZenonT(40) DEF Frame
  <2>2. /\ g.op = "delete" /\ g.at = "receivers" /\ g.obj = f.obj
        /\ g.conn = None /\ g.last = f.last /\ g.want = <<>> /\ g.mutex = None
    BY <1>3, <1>4, SMT DEF Frame
  <2> QED
    BY <2>1, <2>2
<1>6. FrameOK(t, g) /\ Own(g) /\ Own(f)
  BY <1>3, <1>5 DEF FrameOK, ConnectFrame, DisconnectFrame, EmitFrame, EventFrame, DeleteFrame, Own
<1>7. Goes(t, g) /\ UnlockOther(f)
  BY <1>1, <1>4 DEF DeleteUnlink
<1>8. /\ stack' \in [Threads -> Seq(Frame)] /\ Shape' /\ HeldByTop'
      /\ holder' \in [Mutexes -> Threads \cup {Free}]
  BY <1>1, <1>3, <1>5, <1>6, <1>7, UnlockOtherStep
<1>9. senders' \in [Objects -> Seq(Conns)]
  <2>1. senders' = IF Broken(f.conn) THEN senders ELSE Unlinked(f.conn)
    BY <1>1 DEF DeleteUnlink
  <2> QED
    BY <1>3, <2>1, UnlinkedTyped DEF Basic, Typed
<1>10. lists' \in [Objects -> SomeLists] /\ conn' \in [Conns -> SomeConnection]
  <2>1. PICK k : k = [conn[f.conn] EXCEPT !.receiver = None]
    OBVIOUS
  <2>2. k \in SomeConnection
    BY <1>3, <2>1 DEF Basic, Typed, SomeConnection
  <2>3. DropFirst(f.obj, f.sig, f.conn, k)
    BY <1>1, <2>1 DEF DeleteUnlink
  <2> QED
    BY <1>1, <1>3, <2>2, <2>3, DropFirstTyped DEF Basic
<1> QED
  BY <1>8, <1>9, <1>10 DEF Basic, Typed, DeleteUnlink, switchers

LEMMA DeleteListsEndBasic ==
  ASSUME Basic, NEW t \in Threads, DeleteListsEnd(t)
  PROVE  Basic'
<1>1. PICK f : f = Top(t)
  OBVIOUS
<1>2. At(t, "delete", "receivers")
  BY DEF DeleteListsEnd
<1>3. /\ stack[t] # <<>> /\ f \in Frame /\ f.obj \in Objects /\ f.op = "delete"
      /\ f.want = <<>> /\ f.mutex = None /\ FrameOK(t, f) /\ f.at = "receivers" /\ f.conn = None
  BY <1>1, <1>2, AtTop, FrameTyped DEF FrameOK, DeleteFrame
<1>4. PICK g : g = [f EXCEPT !.at = "senders"]
  OBVIOUS
<1>5. /\ g \in Frame /\ g.op = "delete" /\ g.at = "senders" /\ g.obj = f.obj
      /\ g.conn = None /\ g.last = f.last /\ g.want = <<>> /\ g.mutex = None
  <2>1. g \in Frame
    BY <1>3, <1>4, ZenonT(40) DEF Frame
  <2>2. /\ g.op = "delete" /\ g.at = "senders" /\ g.obj = f.obj
        /\ g.conn = None /\ g.last = f.last /\ g.want = <<>> /\ g.mutex = None
    BY <1>3, <1>4, SMT DEF Frame
  <2> QED
    BY <2>1, <2>2
<1>6. FrameOK(t, g) /\ Own(g) /\ Own(f)
  BY <1>3, <1>5 DEF FrameOK, ConnectFrame, DisconnectFrame, EmitFrame, EventFrame, DeleteFrame, Own
<1>7. Goes(t, g) /\ UNCHANGED holder
  BY <1>1, <1>4 DEF DeleteListsEnd
<1>8. stack' \in [Threads -> Seq(Frame)] /\ Shape' /\ HeldByTop'
  BY <1>1, <1>3, <1>5, <1>6, <1>7, PlainStep
<1>9. lists' \in [Objects -> SomeLists]
  <2>1. PICK v : v = [lists[f.obj] EXCEPT !.at = "orphaned"]
    OBVIOUS
  <2>2. v \in SomeLists
    <3>1. lists[f.obj] \in SomeLists
      BY <1>3, ListTyped DEF Basic
    <3> QED
      BY <2>1, <3>1, Zenon DEF SomeLists
  <2>3. lists' = [lists EXCEPT ![f.obj] = Leave(v)]
    BY <1>1, <2>1 DEF DeleteListsEnd
  <2> QED
    BY <1>3, <2>2, <2>3, LeaveTyped, ChangedLists DEF Basic
<1> QED
  BY <1>7, <1>8, <1>9 DEF Basic, Typed, DeleteListsEnd, switchers

LEMMA DeleteSendersBasic ==
  ASSUME Basic, NEW t \in Threads, DeleteSenders(t),
         senders[Top(t).obj] # <<>> => conn[Head(senders[Top(t).obj])].sender \in Objects
  PROVE  /\ Basic'
         /\ \E g \in Frame :
              /\ Goes(t, g) /\ Continues(Top(t), g) /\ g.conn = None
              /\ \/ g.at = "free" /\ senders[g.obj] = <<>>
                 \/ g.at = "node"
<1>1. PICK f : f = Top(t)
  OBVIOUS
<1>2. At(t, "delete", "senders")
  BY DEF DeleteSenders
<1>3. /\ stack[t] # <<>> /\ f \in Frame /\ f.obj \in Objects /\ f.op = "delete"
      /\ f.want = <<>> /\ f.mutex = None /\ FrameOK(t, f) /\ f.at = "senders" /\ f.conn = None
      /\ \A m \in Mutexes : holder[m] = t <=> Needs(f, m)
  BY <1>1, <1>2, AtTop, FrameTyped DEF FrameOK, DeleteFrame
<1>4. UNCHANGED <<life, lists, senders, conn, handles, switchers, metaCalls, calls>>
  BY DEF DeleteSenders
<1>5. CASE senders[f.obj] = <<>>
  <2>1. PICK g : g = [f EXCEPT !.at = "free"]
    OBVIOUS
  <2>2. /\ g \in Frame /\ g.op = "delete" /\ g.at = "free" /\ g.obj = f.obj /\ Continues(f, g)
        /\ g.conn = None /\ g.last = f.last /\ g.want = <<>> /\ g.mutex = None
    <3>1. g \in Frame
      BY <1>3, <2>1, ZenonT(40) DEF Frame, Continues
    <3>2. /\ g.op = "delete" /\ g.at = "free" /\ g.obj = f.obj /\ Continues(f, g)
          /\ g.conn = None /\ g.last = f.last /\ g.want = <<>> /\ g.mutex = None
      BY <1>3, <2>1, SMT DEF Frame, Continues
    <3> QED
      BY <3>1, <3>2
  <2>3. FrameOK(t, g) /\ ~Own(g)
    BY <1>3, <2>2 DEF FrameOK, ConnectFrame, DisconnectFrame, EmitFrame, EventFrame, DeleteFrame, Own
  <2>4. WantOK(g) /\ \A m \in Mutexes : ~Holds(g, m)
    BY <2>2, <2>3, WantsNone
  <2>5. Goes(t, g) /\ UnlockAll(t)
    BY <1>1, <1>5, <2>1 DEF DeleteSenders
  <2>6. stack' \in [Threads -> Seq(Frame)] /\ Shape'
    BY <1>3, <2>3, <2>4, <2>5, ShapeGoes
  <2>7. /\ holder' \in [Mutexes -> Threads \cup {Free}]
        /\ \A m \in Mutexes : holder'[m] # t
        /\ \A m \in Mutexes, u \in Threads : u # t => (holder'[m] = u <=> holder[m] = u)
    BY <2>5, UnlockAllFrees DEF Basic
  <2>8. /\ Top(t)' = g
        /\ \A u \in Threads : u # t => stack'[u] = stack[u]
    BY <1>3, <2>2, <2>5, GoesStack DEF Basic, Typed
  <2>9. HeldByTop'
    BY <2>4, <2>7, <2>8, HeldMoves
  <2>10. Basic'
    BY <1>4, <2>6, <2>7, <2>9 DEF Basic, Typed, switchers
  <2>11. senders[g.obj] = <<>>
    BY <1>5, <2>2
  <2> QED
    BY <1>1, <2>2, <2>5, <2>10, <2>11
<1>6. CASE senders[f.obj] # <<>>
  <2>1. PICK s \in Objects : s = conn[Head(senders[f.obj])].sender
    BY <1>1, <1>6
  <2>2. PICK h : h = [f EXCEPT !.at = "node", !.other = s]
    OBVIOUS
  <2>3. Relocks(t, MutexOf[f.obj], MutexOf[s], h)
    BY <1>1, <1>6, <2>1, <2>2 DEF DeleteSenders
  <2>4. /\ h \in Frame /\ h.op = "delete" /\ h.obj = f.obj /\ h.at = "node" /\ h.other = s
        /\ h.want = <<>> /\ h.mutex = None /\ h.conn = None /\ h.last = f.last /\ Continues(f, h)
    <3>1. h \in Frame
      BY <1>3, <2>2, ZenonT(40) DEF Frame, Continues
    <3>2. /\ h.op = "delete" /\ h.obj = f.obj /\ h.at = "node" /\ h.other = s
          /\ h.want = <<>> /\ h.mutex = None /\ h.conn = None /\ h.last = f.last /\ Continues(f, h)
      BY <1>3, <2>2, SMT DEF Frame, Continues
    <3> QED
      BY <3>1, <3>2
  <2>5. FrameOK(t, h) /\ Own(f)
    BY <1>3, <2>4 DEF FrameOK, ConnectFrame, DisconnectFrame, EmitFrame, EventFrame, DeleteFrame, Own
  <2>6. \A m \in Mutexes : Holds(f, m) <=> m = MutexOf[f.obj]
    BY <1>3, <2>5, NoneElsewhere, NoneWanted DEF Holds, Needs
  <2>7. PICK m, n : m = MutexOf[f.obj] /\ n = MutexOf[s] /\ m \in Mutexes /\ n \in Mutexes
    BY <1>3, <2>1, MutexTyped
  <2>8. /\ stack' \in [Threads -> Seq(Frame)] /\ Shape' /\ HeldByTop'
        /\ holder' \in [Mutexes -> Threads \cup {Free}]
        /\ \E g \in Frame : Goes(t, g) /\ Alike(h, g) /\ Needs(g, n)
    BY <1>1, <1>3, <2>3, <2>4, <2>5, <2>6, <2>7, RelockStep
  <2>9. PICK g \in Frame : Goes(t, g) /\ Alike(h, g)
    BY <2>8
  <2>10. Continues(f, g) /\ g.at = "node" /\ g.conn = None
    BY <2>4, <2>9 DEF Alike, Continues
  <2>11. Basic'
    BY <1>4, <2>8 DEF Basic, Typed, switchers
  <2> QED
    BY <1>1, <2>9, <2>10, <2>11
<1> QED
  BY <1>5, <1>6

LEMMA DeleteNodeBasic ==
  ASSUME Basic, NEW t \in Threads, DeleteNode(t)
  PROVE  Basic'
<1>1. PICK f : f = Top(t)
  OBVIOUS
<1>2. At(t, "delete", "node")
  BY DEF DeleteNode
<1>3. /\ stack[t] # <<>> /\ f \in Frame /\ f.obj \in Objects /\ f.op = "delete"
      /\ f.want = <<>> /\ FrameOK(t, f) /\ f.at = "node" /\ f.other \in Objects /\ f.conn = None
  BY <1>1, <1>2, AtTop, FrameTyped DEF FrameOK, DeleteFrame
<1>4. PICK g : g = [f EXCEPT !.at = "senders", !.other = None, !.mutex = None]
  OBVIOUS
<1>5. /\ g \in Frame /\ g.op = "delete" /\ g.at = "senders" /\ g.obj = f.obj
      /\ g.conn = None /\ g.last = f.last /\ g.want = <<>> /\ g.mutex = None
  <2>1. PICK a : a = [f EXCEPT !.at = "senders", !.other = None]
    OBVIOUS
  <2>2. /\ a \in Frame /\ a.op = "delete" /\ a.at = "senders" /\ a.obj = f.obj
        /\ a.conn = None /\ a.last = f.last /\ a.want = <<>>
    <3>1. a \in Frame
      <4>1. f \in Frame
        BY <1>3
      <4>2. None \in Objects \cup {None}
        OBVIOUS
      <4> QED
        BY <4>1, <4>2, <2>1, ZenonT(40) DEF Frame
    <3>2. /\ a.op = "delete" /\ a.at = "senders" /\ a.obj = f.obj
          /\ a.conn = None /\ a.last = f.last /\ a.want = <<>>
      BY <1>3, <2>1, SMT DEF Frame
    <3> QED
      BY <3>1, <3>2
  <2>3. g = [a EXCEPT !.mutex = None]
    BY <1>4, <2>1, Zenon
  <2>8. g \in Frame
    <3>1. a \in Frame
      BY <2>2
    <3>2. None \in Mutexes \cup {None}
      OBVIOUS
    <3> QED
      BY <2>3, <3>1, <3>2, ZenonT(40) DEF Frame
  <2>9. /\ g.op = "delete" /\ g.at = "senders" /\ g.obj = f.obj
        /\ g.conn = None /\ g.last = f.last /\ g.want = <<>> /\ g.mutex = None
    BY <2>2, <2>3, SMT DEF Frame
  <2> QED
    BY <2>8, <2>9
<1>6. FrameOK(t, g) /\ Own(g) /\ Own(f)
  BY <1>3, <1>5 DEF FrameOK, ConnectFrame, DisconnectFrame, EmitFrame, EventFrame, DeleteFrame, Own
<1>7. Goes(t, g) /\ UnlockOther(f)
  BY <1>1, <1>4 DEF DeleteNode
<1>8. /\ stack' \in [Threads -> Seq(Frame)] /\ Shape' /\ HeldByTop'
      /\ holder' \in [Mutexes -> Threads \cup {Free}]
  BY <1>1, <1>3, <1>5, <1>6, <1>7, UnlockOtherStep
<1>9. /\ senders' \in [Objects -> Seq(Conns)] /\ conn' \in [Conns -> SomeConnection]
      /\ lists' \in [Objects -> SomeLists]
  <2>1. CASE NodeGone(f.obj, f.other)
    BY <1>1, <2>1 DEF DeleteNode, Basic, Typed
  <2>2. CASE ~NodeGone(f.obj, f.other)
    <3>1. PICK s : s = senders[f.obj]
      OBVIOUS
    <3>2. s # <<>> /\ s \in Seq(Conns)
      BY <1>3, <2>2, <3>1, ListTyped DEF NodeGone, Basic
    <3>3. Head(s) \in Conns /\ Tail(s) \in Seq(Conns)
      BY <3>2, HeadAndTail
    <3>4. PICK k, v : /\ k = [conn[Head(s)] EXCEPT !.receiver = None]
                      /\ v = Dirtied(lists[f.other], lists[f.other].at = "used")
      OBVIOUS
    <3>5. k \in SomeConnection
      BY <3>3, <3>4 DEF Basic, Typed, SomeConnection
    <3>6. v \in SomeLists
      BY <1>3, <3>4, ListTyped, DirtiedTyped DEF Basic
    <3>7. /\ conn' = [conn EXCEPT ![Head(s)] = k]
          /\ lists' = [lists EXCEPT ![f.other] = v]
          /\ senders' = [senders EXCEPT ![f.obj] = Tail(s)]
      BY <1>1, <2>2, <3>1, <3>4 DEF DeleteNode, Dirtied
    <3> QED
      BY <1>3, <3>3, <3>5, <3>6, <3>7 DEF Basic, Typed
  <2> QED
    BY <2>1, <2>2
<1> QED
  BY <1>8, <1>9 DEF Basic, Typed, DeleteNode, switchers

LEMMA DeleteEndBasic ==
  ASSUME Basic, NEW t \in Threads, DeleteEnd(t)
  PROVE  Basic'
<1>1. PICK f : f = Top(t)
  OBVIOUS
<1>2. At(t, "delete", "free") /\ Returns(t) /\ UNCHANGED holder
  BY DEF DeleteEnd
<1>3. /\ stack[t] # <<>> /\ f \in Frame /\ f.obj \in Objects
      /\ \A m \in Mutexes : holder[m] # t
  <2>1. /\ stack[t] # <<>> /\ f \in Frame /\ f.op = "delete" /\ f.at = "free"
        /\ f.want = <<>> /\ f.mutex = None /\ \A m \in Mutexes : holder[m] = t <=> Needs(f, m)
    BY <1>1, <1>2, AtTop
  <2>2. ~Own(f)
    BY <2>1 DEF Own
  <2>3. \A m \in Mutexes : ~Needs(f, m)
    BY <2>1, <2>2, NoneElsewhere DEF Needs
  <2> QED
    BY <2>1, <2>3, FrameTyped
<1>4. stack' \in [Threads -> Seq(Frame)] /\ Shape' /\ HeldByTop'
  BY <1>2, <1>3, ReturnStep
<1>5. <<>> \in Seq(Objects)
  OBVIOUS
<1> QED
  BY <1>1, <1>3, <1>4, <1>5 DEF Basic, Typed, DeleteEnd, switchers

-----------------------------------------------------------------------------
(* What each step makes of the frame on top of the stack.                  *)

\* f is what the thread executes, and g what the step leaves of it.
Becomes(t, f, g) ==
  /\ stack[t] # <<>> /\ f = Top(t) /\ f \in Frame /\ g \in Frame /\ Goes(t, g)
  /\ g.op = f.op /\ g.obj = f.obj
  /\ g.op \in {"connect", "disconnect"} => g.other = f.other
  /\ g.op = "connect" => g.conn = f.conn
  /\ g.op = "disconnect" => (f.broken => g.broken)
  /\ g.at = "begin" => f.at = "begin"

\* The emission f has gone on to the next connection, and looks at it.
GoneOn(f, g) ==
  /\ g.at = "look" /\ g.sig = f.sig /\ g.last = f.last /\ g.due = f.due
  /\ g.conn = IF AtLast(f) THEN None ELSE NextOf(f)

LEMMA ReturnsFrame ==
  ASSUME Basic, NEW t \in Threads, NEW op, NEW at, At(t, op, at)
  PROVE  /\ stack[t] # <<>> /\ Top(t) \in Frame /\ Top(t).op = op /\ Top(t).at = at
         /\ Top(t).obj \in Objects /\ FrameOK(t, Top(t))
BY AtTop, FrameTyped

LEMMA LockFrame ==
  ASSUME Basic, NEW t \in Threads, Lock(t)
  PROVE  \E g \in Frame : Becomes(t, Top(t), g) /\ Alike(Top(t), g)
<1>1. stack[t] # <<>>
  BY DEF Lock
<1>2. PICK g \in Frame : Goes(t, g) /\ Alike(Top(t), g)
  BY LockStep
<1> QED
  BY <1>1, <1>2, TopOK DEF Becomes, Alike

LEMMA DisconnectBeginFrame ==
  ASSUME Basic, NEW t \in Threads, DisconnectBegin(t), lists[Top(t).obj].at # "none"
  PROVE  \E g \in Frame :
           /\ Becomes(t, Top(t), g) /\ Top(t).op = "disconnect" /\ Top(t).at = "begin"
           /\ g.at = "scan" /\ g.conn = Top(t).conn /\ g.sig = Top(t).sig
<1>1. PICK f : f = Top(t)
  OBVIOUS
<1>2. At(t, "disconnect", "begin")
  BY DEF DisconnectBegin
<1>3. /\ stack[t] # <<>> /\ f \in Frame /\ FrameOK(t, f) /\ f.op = "disconnect" /\ f.at = "begin"
      /\ f.obj \in Objects
  BY <1>1, <1>2, AtTop, FrameTyped
<1>4. PICK l : l = IF f.sig = None THEN Signals ELSE {f.sig}
  OBVIOUS
<1>5. l \in SUBSET Signals
  BY <1>3, <1>4, FrameTyped
<1>6. PICK g : g = [f EXCEPT !.at = "scan", !.left = l]
  OBVIOUS
<1>7. /\ g \in Frame /\ g.op = f.op /\ g.obj = f.obj
      /\ g.at = "scan" /\ g.conn = f.conn /\ g.sig = f.sig
      /\ g.op \in {"connect", "disconnect"} => g.other = f.other
      /\ f.broken => g.broken
  <2>1. g \in Frame
    BY <1>3, <1>5, <1>6, ZenonT(40) DEF Frame
  <2>2. /\ g.op = f.op /\ g.obj = f.obj
        /\ g.at = "scan" /\ g.conn = f.conn /\ g.sig = f.sig
        /\ g.op \in {"connect", "disconnect"} => g.other = f.other
        /\ f.broken => g.broken
    BY <1>3, <1>5, <1>6, SMT DEF Frame
  <2> QED
    BY <2>1, <2>2
<1>8. Goes(t, g)
  BY <1>1, <1>4, <1>6 DEF DisconnectBegin
<1> QED
  BY <1>1, <1>3, <1>7, <1>8, <1>4, <1>5 DEF Becomes

LEMMA DisconnectListFrame ==
  ASSUME Basic, NEW t \in Threads, DisconnectList(t)
  PROVE  \E g \in Frame, s \in Signals :
           /\ Becomes(t, Top(t), g) /\ Top(t).op = "disconnect" /\ Top(t).at = "scan"
           /\ g.at = "scan" /\ g.sig = s /\ g.conn = First(lists[g.obj].of[s])
<1>1. PICK f : f = Top(t)
  OBVIOUS
<1>2. At(t, "disconnect", "scan")
  BY DEF DisconnectList
<1>3. /\ stack[t] # <<>> /\ f \in Frame /\ FrameOK(t, f) /\ f.op = "disconnect" /\ f.at = "scan"
      /\ f.obj \in Objects /\ f.left \in SUBSET Signals
  BY <1>1, <1>2, AtTop, FrameTyped
<1>4. PICK s \in f.left : Goes(t, [f EXCEPT !.sig = s, !.left = @ \ {s},
                                            !.conn = First(lists[f.obj].of[s])])
  BY <1>1 DEF DisconnectList
<1>5. s \in Signals
  BY <1>3, <1>4
<1>6. PICK c : c = First(lists[f.obj].of[s])
  OBVIOUS
<1>7. c \in Conns \cup {None}
  BY <1>3, <1>5, <1>6, ListTyped, FirstTyped DEF Basic
<1>8. PICK l : l = f.left \ {s}
  OBVIOUS
<1>9. l \in SUBSET Signals
  BY <1>3, <1>8
<1>10. PICK g : g = [f EXCEPT !.sig = s, !.left = l, !.conn = c]
  OBVIOUS
<1>11. /\ g \in Frame /\ g.op = f.op /\ g.obj = f.obj /\ g.other = f.other
       /\ g.at = "scan" /\ g.sig = s /\ g.conn = c /\ (f.broken => g.broken)
  <2>1. g \in Frame
    BY <1>3, <1>5, <1>7, <1>9, <1>10, ZenonT(40) DEF Frame
  <2>2. /\ g.op = f.op /\ g.obj = f.obj /\ g.other = f.other
        /\ g.at = "scan" /\ g.sig = s /\ g.conn = c /\ (f.broken => g.broken)
    BY <1>3, <1>5, <1>7, <1>9, <1>10, SMT DEF Frame
  <2> QED
    BY <2>1, <2>2
<1>12. Goes(t, g)
  BY <1>3, <1>4, <1>6, <1>8, <1>10 DEF Frame
<1> QED
  BY <1>1, <1>3, <1>5, <1>6, <1>11, <1>12 DEF Becomes

LEMMA DisconnectScanFrame ==
  ASSUME Basic, NEW t \in Threads, DisconnectScan(t)
  PROVE  \E g \in Frame :
           /\ Becomes(t, Top(t), g) /\ Top(t).op = "disconnect" /\ Top(t).at = "scan"
           /\ g.sig = Top(t).sig /\ Top(t).conn \in Conns
           /\ \/ g.at = "scan" /\ g.conn = NextOf(Top(t))
              \/ /\ g.at = "unlink" /\ g.conn = Top(t).conn
                 /\ Needs(g, MutexOf[conn[g.conn].receiver])
<1>1. At(t, "disconnect", "scan") /\ Top(t).conn # None
  BY DEF DisconnectScan
<1>2. stack[t] # <<>> /\ Top(t) \in Frame /\ Top(t).op = "disconnect" /\ Top(t).at = "scan"
      /\ Top(t).conn \in Conns
  BY <1>1, AtTop, FrameTyped
<1>3. PICK g \in Frame :
        /\ Goes(t, g) /\ Continues(Top(t), g) /\ g.other = Top(t).other
        /\ g.sig = Top(t).sig /\ g.left = Top(t).left /\ g.broken = Top(t).broken
        /\ \/ g.at = "scan" /\ g.conn = NextOf(Top(t))
           \/ /\ g.at = "unlink" /\ g.conn = Top(t).conn /\ ~Broken(g.conn)
              /\ Needs(g, MutexOf[conn[g.conn].receiver])
  BY DisconnectScanBasic
<1> QED
  BY <1>2, <1>3 DEF Becomes, Continues

LEMMA DisconnectUnlinkFrame ==
  ASSUME Basic, NEW t \in Threads, DisconnectUnlink(t)
  PROVE  \E g \in Frame :
           /\ Becomes(t, Top(t), g) /\ Top(t).op = "disconnect" /\ Top(t).at = "unlink"
           /\ g.at = "zero" /\ g.conn = Top(t).conn /\ g.sig = Top(t).sig /\ Top(t).conn \in Conns
<1>1. PICK f : f = Top(t)
  OBVIOUS
<1>2. At(t, "disconnect", "unlink")
  BY DEF DisconnectUnlink
<1>3. /\ stack[t] # <<>> /\ f \in Frame /\ FrameOK(t, f) /\ f.op = "disconnect" /\ f.at = "unlink"
      /\ f.obj \in Objects
  BY <1>1, <1>2, AtTop, FrameTyped
<1>7. f.conn \in Conns
  BY <1>3 DEF FrameOK, DisconnectFrame
<1>4. PICK g : g = [f EXCEPT !.at = "zero", !.mutex = None]
  OBVIOUS
<1>5. /\ g \in Frame /\ g.op = f.op /\ g.obj = f.obj
      /\ g.at = "zero" /\ g.conn = f.conn /\ g.sig = f.sig
      /\ g.op \in {"connect", "disconnect"} => g.other = f.other
      /\ f.broken => g.broken
  <2>1. g \in Frame
    BY <1>3, <1>4, ZenonT(40) DEF Frame
  <2>2. /\ g.op = f.op /\ g.obj = f.obj
        /\ g.at = "zero" /\ g.conn = f.conn /\ g.sig = f.sig
        /\ g.op \in {"connect", "disconnect"} => g.other = f.other
        /\ f.broken => g.broken
    BY <1>3, <1>4, SMT DEF Frame
  <2> QED
    BY <2>1, <2>2
<1>6. Goes(t, g)
  BY <1>1, <1>4 DEF DisconnectUnlink
<1> QED
  BY <1>1, <1>3, <1>5, <1>6, <1>7 DEF Becomes

LEMMA DisconnectZeroFrame ==
  ASSUME Basic, NEW t \in Threads, DisconnectZero(t)
  PROVE  \E g \in Frame :
           /\ Becomes(t, Top(t), g) /\ Top(t).op = "disconnect" /\ Top(t).at = "zero"
           /\ g.at = "scan" /\ g.broken /\ g.sig = Top(t).sig /\ g.conn = NextOf(Top(t))
<1>1. PICK f : f = Top(t)
  OBVIOUS
<1>2. At(t, "disconnect", "zero")
  BY DEF DisconnectZero
<1>3. /\ stack[t] # <<>> /\ f \in Frame /\ FrameOK(t, f) /\ f.op = "disconnect" /\ f.at = "zero"
      /\ f.obj \in Objects
  BY <1>1, <1>2, AtTop, FrameTyped
<1>4. PICK c : c = NextOf(f)
  OBVIOUS
<1>5. c \in Conns \cup {None} /\ f.conn \in Conns
  BY <1>3, <1>4, FrameTyped, ListTyped, NextTyped, NoneElsewhere DEF NextOf, Basic, FrameOK, DisconnectFrame
<1>6. PICK g : g = [f EXCEPT !.at = "scan", !.broken = TRUE, !.conn = c]
  OBVIOUS
<1>7. /\ g \in Frame /\ g.op = f.op /\ g.obj = f.obj
      /\ g.at = "scan" /\ g.broken /\ g.sig = f.sig /\ g.conn = c
      /\ g.op \in {"connect", "disconnect"} => g.other = f.other
      /\ f.broken => g.broken
  <2>1. g \in Frame
    BY <1>3, <1>5, <1>6, ZenonT(40) DEF Frame
  <2>2. /\ g.op = f.op /\ g.obj = f.obj
        /\ g.at = "scan" /\ g.broken /\ g.sig = f.sig /\ g.conn = c
        /\ g.op \in {"connect", "disconnect"} => g.other = f.other
        /\ f.broken => g.broken
    BY <1>3, <1>5, <1>6, SMT DEF Frame
  <2> QED
    BY <2>1, <2>2
<1>8. Goes(t, g)
  BY <1>1, <1>4, <1>6 DEF DisconnectZero
<1> QED
  BY <1>1, <1>3, <1>7, <1>8, <1>4, <1>5 DEF Becomes

LEMMA EmitBeginFrame ==
  ASSUME Basic, NEW t \in Threads, EmitBegin(t), lists[Top(t).obj].at # "none"
  PROVE  \E g \in Frame :
           /\ Becomes(t, Top(t), g) /\ Top(t).op = "emit" /\ Top(t).at = "begin"
           /\ g.at = "look" /\ g.sig = Top(t).sig /\ g.called = Top(t).called
           /\ LET all == lists[g.obj].of[g.sig] IN
                /\ g.conn = First(all) /\ g.last = (IF all = <<>> THEN None ELSE Last(all))
                /\ g.due = Without(all, {x \in ToSet(all) : Broken(x)})
<1>1. PICK f : f = Top(t)
  OBVIOUS
<1>2. At(t, "emit", "begin")
  BY DEF EmitBegin
<1>3. /\ stack[t] # <<>> /\ f \in Frame /\ FrameOK(t, f) /\ f.op = "emit" /\ f.at = "begin"
      /\ f.obj \in Objects
  BY <1>1, <1>2, AtTop, FrameTyped
<1>4. PICK all : all = lists[f.obj].of[f.sig]
  OBVIOUS
<1>5. all \in Seq(Conns)
  BY <1>3, <1>4, ListTyped DEF Basic, FrameOK, EmitFrame
<1>6. PICK c : c = First(all)
  OBVIOUS
<1>7. c \in Conns \cup {None}
  BY <1>5, <1>6, FirstTyped
<1>8. PICK l : l = IF all = <<>> THEN None ELSE Last(all)
  OBVIOUS
<1>9. l \in Conns \cup {None}
  BY <1>5, <1>8, FirstTyped
<1>10. PICK d : d = Without(all, {x \in ToSet(all) : Broken(x)})
  OBVIOUS
<1>11. d \in Seq(Conns)
  BY <1>5, <1>10, WithoutElements
<1>12. PICK g : g = [f EXCEPT !.at = "look", !.conn = c, !.last = l, !.due = d]
  OBVIOUS
<1>13. /\ g \in Frame /\ g.op = f.op /\ g.obj = f.obj
       /\ g.at = "look" /\ g.sig = f.sig /\ g.conn = c /\ g.last = l /\ g.due = d /\ g.called = f.called
       /\ g.op \in {"connect", "disconnect"} => g.other = f.other
       /\ f.broken => g.broken
  <2>1. g \in Frame
    BY <1>3, <1>5, <1>7, <1>9, <1>11, <1>12, ZenonT(40) DEF Frame
  <2>2. /\ g.op = f.op /\ g.obj = f.obj
        /\ g.at = "look" /\ g.sig = f.sig /\ g.conn = c /\ g.last = l /\ g.due = d /\ g.called = f.called
        /\ g.op \in {"connect", "disconnect"} => g.other = f.other
        /\ f.broken => g.broken
    BY <1>3, <1>5, <1>7, <1>9, <1>11, <1>12, SMT DEF Frame
  <2> QED
    BY <2>1, <2>2
<1>14. Goes(t, g)
  BY <1>1, <1>4, <1>6, <1>8, <1>10, <1>12 DEF EmitBegin
<1> QED
  BY <1>1, <1>3, <1>13, <1>14, <1>4, <1>5, <1>6, <1>7, <1>8, <1>9, <1>10, <1>11 DEF Becomes

LEMMA EmitLookFrame ==
  ASSUME Basic, NEW t \in Threads, EmitLook(t)
  PROVE  \E g \in Frame :
           /\ Becomes(t, Top(t), g) /\ Top(t).op = "emit" /\ Top(t).at = "look"
           /\ Top(t).conn \in Conns
           /\ \/ /\ GoneOn(Top(t), g) /\ UNCHANGED switchers
                 /\ \/ Broken(Top(t).conn) /\ g.called = Top(t).called
                    \/ ~Broken(Top(t).conn) /\ g.called = Append(Top(t).called, Top(t).conn)
              \/ /\ g.at = "slot" /\ g.sig = Top(t).sig /\ g.conn = Top(t).conn
                 /\ g.last = Top(t).last /\ g.due = Top(t).due
                 /\ g.called = Append(Top(t).called, Top(t).conn)
                 /\ ~Broken(g.conn) /\ g.other = conn[g.conn].receiver /\ g.other \in Objects
                 /\ Home[g.other] = t /\ g.prev = currentSender[g.other] /\ UNCHANGED dropped
                 /\ currentSender' = [currentSender EXCEPT ![g.other] = Len(stack[t])]
<1>1. PICK f : f = Top(t)
  OBVIOUS
<1>2. At(t, "emit", "look") /\ f.conn # None
  BY <1>1 DEF EmitLook
<1>3. /\ stack[t] # <<>> /\ f \in Frame /\ f.op = "emit" /\ f.want = <<>> /\ f.mutex = None
      /\ FrameOK(t, f) /\ f.at = "look" /\ f.conn \in Conns /\ f.called \in Seq(Conns)
  BY <1>1, <1>2, AtTop, FrameTyped
<1>4. PICK r : r = conn[f.conn].receiver
  OBVIOUS
<1>5. ~Broken(f.conn) => r \in Objects
  BY <1>3, <1>4, ConnTyped DEF Basic
<1>6. PICK h : h = Advanced(f)
  OBVIOUS
<1>7. /\ h \in Frame /\ Continues(f, h) /\ h.at = "look" /\ h.sig = f.sig
      /\ h.conn = IF AtLast(f) THEN None ELSE NextOf(f)
  BY <1>3, <1>6, AdvancedFrame
<1>8. PICK d : d = Append(f.called, f.conn)
  OBVIOUS
<1>9. d \in Seq(Conns)
  BY <1>3, <1>8
<1>10. CASE Broken(f.conn) /\ Goes(t, h) /\ UNCHANGED <<holder, switchers, metaCalls>>
  BY <1>1, <1>3, <1>7, <1>10 DEF Becomes, Continues, GoneOn
<1>11. CASE /\ ~Broken(f.conn) /\ Goes(t, [h EXCEPT !.called = Append(@, f.conn)])
            /\ UNCHANGED <<holder, switchers>>
  <2>1. PICK g : g = [h EXCEPT !.called = d]
    OBVIOUS
  <2>2. /\ g \in Frame /\ g.op = h.op /\ g.obj = h.obj /\ g.at = "look" /\ g.sig = h.sig
        /\ g.conn = h.conn /\ g.last = h.last /\ g.due = h.due /\ g.called = d
    <3>1. g \in Frame
      BY <1>7, <1>9, <2>1, ZenonT(40) DEF Frame
    <3>2. /\ g.op = h.op /\ g.obj = h.obj /\ g.at = "look" /\ g.sig = h.sig
          /\ g.conn = h.conn /\ g.last = h.last /\ g.due = h.due /\ g.called = d
      BY <1>7, <1>9, <2>1, SMT DEF Frame
    <3> QED
      BY <3>1, <3>2
  <2>3. Goes(t, g)
    BY <1>7, <1>8, <1>11, <2>1 DEF Continues
  <2> QED
    BY <1>1, <1>3, <1>7, <1>8, <1>11, <2>2, <2>3 DEF Becomes, Continues, GoneOn
<1>12. CASE /\ ~Broken(f.conn) /\ Home[r] = t
            /\ Switch(t, [f EXCEPT !.called = Append(@, f.conn), !.other = r], r)
            /\ UNCHANGED dropped
  <2>1. PICK p : p = currentSender[r]
    OBVIOUS
  <2>2. p \in Nat /\ r \in Objects
    BY <1>5, <1>12, <2>1 DEF Basic, Typed
  <2>3. PICK g : g = [f EXCEPT !.called = d, !.other = r, !.at = "slot", !.prev = p]
    OBVIOUS
  <2>4. /\ g \in Frame /\ g.op = f.op /\ g.obj = f.obj /\ g.at = "slot" /\ g.sig = f.sig
        /\ g.conn = f.conn /\ g.last = f.last /\ g.other = r /\ g.prev = p
        /\ g.due = f.due /\ g.called = d
    <3>1. g \in Frame
      BY <1>3, <1>9, <2>2, <2>3, ZenonT(40) DEF Frame
    <3>2. /\ g.op = f.op /\ g.obj = f.obj /\ g.at = "slot" /\ g.sig = f.sig
          /\ g.conn = f.conn /\ g.last = f.last /\ g.other = r /\ g.prev = p
          /\ g.due = f.due /\ g.called = d
      BY <1>3, <1>9, <2>2, <2>3, SMT DEF Frame
    <3> QED
      BY <3>1, <3>2
  <2>5. Goes(t, g) /\ currentSender' = [currentSender EXCEPT ![r] = Len(stack[t])]
    BY <1>8, <1>12, <2>1, <2>3 DEF Switch
  <2> QED
    BY <1>1, <1>3, <1>4, <1>8, <1>12, <2>1, <2>2, <2>4, <2>5 DEF Becomes
<1> QED
  BY <1>1, <1>4, <1>6, <1>10, <1>11, <1>12 DEF EmitLook

LEMMA SlotReturnFrame ==
  ASSUME Basic, NEW t \in Threads, SlotReturn(t)
  PROVE  \E g \in Frame :
           /\ Becomes(t, Top(t), g) /\ Top(t).op = "emit" /\ Top(t).at = "slot"
           /\ g.at = "relock" /\ g.sig = Top(t).sig /\ g.conn = Top(t).conn /\ g.last = Top(t).last
           /\ g.other = Top(t).other /\ g.prev = Top(t).prev /\ g.due = Top(t).due /\ g.called = Top(t).called
<1>1. PICK f : f = Top(t)
  OBVIOUS
<1>2. At(t, "emit", "slot")
  BY DEF SlotReturn
<1>3. /\ stack[t] # <<>> /\ f \in Frame /\ FrameOK(t, f) /\ f.op = "emit" /\ f.at = "slot"
      /\ f.obj \in Objects
  BY <1>1, <1>2, AtTop, FrameTyped
<1>4. PICK w : w = <<MutexOf[f.obj]>>
  OBVIOUS
<1>5. w \in Seq(Mutexes)
  BY <1>3, <1>4, MutexTyped
<1>6. PICK g : g = [f EXCEPT !.at = "relock", !.want = w]
  OBVIOUS
<1>7. /\ g \in Frame /\ g.op = f.op /\ g.obj = f.obj
      /\ g.at = "relock" /\ g.sig = f.sig /\ g.conn = f.conn /\ g.last = f.last
      /\ g.other = f.other /\ g.prev = f.prev /\ g.due = f.due /\ g.called = f.called
      /\ g.op \in {"connect", "disconnect"} => g.other = f.other
      /\ f.broken => g.broken
  <2>1. g \in Frame
    BY <1>3, <1>5, <1>6, ZenonT(40) DEF Frame
  <2>2. /\ g.op = f.op /\ g.obj = f.obj
        /\ g.at = "relock" /\ g.sig = f.sig /\ g.conn = f.conn /\ g.last = f.last
        /\ g.other = f.other /\ g.prev = f.prev /\ g.due = f.due /\ g.called = f.called
        /\ g.op \in {"connect", "disconnect"} => g.other = f.other
        /\ f.broken => g.broken
    BY <1>3, <1>5, <1>6, SMT DEF Frame
  <2> QED
    BY <2>1, <2>2
<1>8. Goes(t, g)
  BY <1>1, <1>4, <1>6 DEF SlotReturn
<1> QED
  BY <1>1, <1>3, <1>7, <1>8, <1>4, <1>5 DEF Becomes

LEMMA EmitResumeFrame ==
  ASSUME Basic, NEW t \in Threads, EmitResume(t)
  PROVE  \E g \in Frame :
           /\ Becomes(t, Top(t), g) /\ Top(t).op = "emit" /\ Top(t).at = "relock"
           /\ Top(t).conn \in Conns /\ Top(t).other \in Objects
           /\ g.at = "look" /\ g.called = Top(t).called /\ g.due = Top(t).due
           /\ IF lists[g.obj].at = "orphaned" THEN g.conn = None ELSE GoneOn(Top(t), g)
<1>1. PICK f : f = Top(t)
  OBVIOUS
<1>2. At(t, "emit", "relock")
  BY DEF EmitResume
<1>3. /\ stack[t] # <<>> /\ f \in Frame /\ FrameOK(t, f) /\ f.op = "emit" /\ f.at = "relock"
      /\ f.obj \in Objects /\ f.conn \in Conns /\ f.other \in Objects
      /\ f.want = <<>> /\ f.mutex = None
  BY <1>1, <1>2, AtTop, FrameTyped DEF FrameOK, EmitFrame
<1>4. CASE lists[f.obj].at = "orphaned"
  <2>1. PICK g : g = [f EXCEPT !.at = "look", !.conn = None]
    OBVIOUS
  <2>2. /\ g \in Frame /\ g.op = f.op /\ g.obj = f.obj /\ g.at = "look" /\ g.conn = None
        /\ g.called = f.called /\ g.due = f.due
    <3>1. g \in Frame
      <4>1. f \in Frame
        BY <1>3
      <4>2. None \in Conns \cup {None}
        OBVIOUS
      <4> QED
        BY <4>1, <4>2, <2>1, ZenonT(40) DEF Frame
    <3>2. /\ g.op = f.op /\ g.obj = f.obj /\ g.at = "look" /\ g.conn = None
          /\ g.called = f.called /\ g.due = f.due
      BY <1>3, <2>1, SMT DEF Frame
    <3> QED
      BY <3>1, <3>2
  <2>3. Goes(t, g)
    BY <1>1, <1>4, <2>1 DEF EmitResume
  <2> QED
    BY <1>1, <1>3, <1>4, <2>2, <2>3 DEF Becomes
<1>5. CASE lists[f.obj].at # "orphaned"
  <2>1. PICK g : g = Advanced(f)
    OBVIOUS
  <2>2. /\ g \in Frame /\ Continues(f, g) /\ g.at = "look" /\ g.sig = f.sig
        /\ g.conn = IF AtLast(f) THEN None ELSE NextOf(f)
    BY <1>3, <2>1, AdvancedFrame
  <2>3. Goes(t, g)
    BY <1>1, <1>5, <2>1 DEF EmitResume
  <2> QED
    BY <1>1, <1>3, <1>5, <2>2, <2>3 DEF Becomes, Continues, GoneOn
<1> QED
  BY <1>4, <1>5

LEMMA DeleteBeginFrame ==
  ASSUME Basic, NEW t \in Threads, DeleteBegin(t)
  PROVE  \E g \in Frame :
           /\ Becomes(t, Top(t), g) /\ Top(t).op = "delete" /\ Top(t).at = "begin"
           /\ g.conn = None
           /\ g.at = "lists" \/ (g.at = "free" /\ ~HasConnections(g.obj))
<1>1. At(t, "delete", "begin")
  BY DEF DeleteBegin
<1>2. stack[t] # <<>> /\ Top(t) \in Frame /\ Top(t).op = "delete" /\ Top(t).at = "begin"
  BY <1>1, AtTop
<1>3. PICK g \in Frame : /\ Goes(t, g) /\ Continues(Top(t), g) /\ g.conn = None
                         /\ \/ g.at = "lists" /\ HasConnections(g.obj)
                            \/ g.at = "free" /\ ~HasConnections(g.obj)
  BY DeleteBeginBasic
<1> QED
  BY <1>2, <1>3 DEF Becomes, Continues

LEMMA DeleteListsFrame ==
  ASSUME Basic, NEW t \in Threads, DeleteLists(t)
  PROVE  \E g \in Frame :
           /\ Becomes(t, Top(t), g) /\ Top(t).op = "delete" /\ Top(t).at = "lists"
           /\ g.conn = None
           /\ g.at = IF lists[g.obj].at = "used" THEN "receivers" ELSE "senders"
<1>1. PICK f : f = Top(t)
  OBVIOUS
<1>2. At(t, "delete", "lists")
  BY DEF DeleteLists
<1>3. /\ stack[t] # <<>> /\ f \in Frame /\ f.obj \in Objects /\ f.op = "delete"
      /\ f.want = <<>> /\ f.mutex = None /\ FrameOK(t, f) /\ f.at = "lists" /\ f.conn = None
  BY <1>1, <1>2, AtTop, FrameTyped DEF FrameOK, DeleteFrame
<1>4. PICK a : a = IF lists[f.obj].at = "used" THEN "receivers" ELSE "senders"
  OBVIOUS
<1>5. PICK g : g = [f EXCEPT !.at = a]
  OBVIOUS
<1>6. /\ g \in Frame /\ g.op = f.op /\ g.obj = f.obj /\ g.at = a
      /\ g.want = <<>> /\ g.mutex = None /\ g.conn = None /\ g.last = f.last
  <2>1. g \in Frame
    BY <1>3, <1>4, <1>5, ZenonT(40) DEF Frame
  <2>2. /\ g.op = f.op /\ g.obj = f.obj /\ g.at = a
        /\ g.want = <<>> /\ g.mutex = None /\ g.conn = None /\ g.last = f.last
    BY <1>3, <1>4, <1>5, SMT DEF Frame
  <2> QED
    BY <2>1, <2>2
<1>7. Goes(t, g)
  BY <1>1, <1>4, <1>5 DEF DeleteLists
<1> QED
  BY <1>1, <1>3, <1>4, <1>6, <1>7 DEF Becomes

LEMMA DeleteReceiversFrame ==
  ASSUME Basic, NEW t \in Threads, DeleteReceivers(t)
  PROVE  /\ stack[t] # <<>> /\ Top(t) \in Frame /\ Top(t).op = "delete" /\ Top(t).at = "receivers"
         /\ \E s \in Signals, c \in Conns :
              /\ lists[Top(t).obj].of[s] # <<>> /\ c = Head(lists[Top(t).obj].of[s])
              /\ \/ /\ Broken(c) /\ DropFirst(Top(t).obj, s, c, conn[c])
                    /\ UNCHANGED stack
                 \/ /\ ~Broken(c) /\ UNCHANGED <<lists, conn>>
                    /\ \E g \in Frame :
                         /\ Becomes(t, Top(t), g) /\ g.at = "unlink" /\ g.sig = s /\ g.conn = c
                         /\ Needs(g, MutexOf[conn[c].receiver])
<1>1. At(t, "delete", "receivers")
  BY DEF DeleteReceivers
<1>2. stack[t] # <<>> /\ Top(t) \in Frame /\ Top(t).op = "delete" /\ Top(t).at = "receivers"
  BY <1>1, AtTop
<1>3. PICK s \in Signals, c \in Conns :
        /\ lists[Top(t).obj].of[s] # <<>> /\ c = Head(lists[Top(t).obj].of[s])
        /\ \/ /\ Broken(c) /\ DropFirst(Top(t).obj, s, c, conn[c])
              /\ UNCHANGED <<stack, holder>>
           \/ /\ ~Broken(c) /\ UNCHANGED <<lists, conn>>
              /\ \E g \in Frame :
                   /\ Goes(t, g) /\ Continues(Top(t), g) /\ g.at = "unlink"
                   /\ g.sig = s /\ g.conn = c
                   /\ Needs(g, MutexOf[conn[c].receiver])
  BY DeleteReceiversBasic
<1> QED
  BY <1>2, <1>3 DEF Becomes, Continues

LEMMA DeleteUnlinkFrame ==
  ASSUME Basic, NEW t \in Threads, DeleteUnlink(t)
  PROVE  \E g \in Frame :
           /\ Becomes(t, Top(t), g) /\ Top(t).op = "delete" /\ Top(t).at = "unlink"
           /\ g.at = "receivers" /\ g.conn = None
<1>1. PICK f : f = Top(t)
  OBVIOUS
<1>2. At(t, "delete", "unlink")
  BY DEF DeleteUnlink
<1>3. /\ stack[t] # <<>> /\ f \in Frame /\ FrameOK(t, f) /\ f.op = "delete" /\ f.at = "unlink"
      /\ f.obj \in Objects
  BY <1>1, <1>2, AtTop, FrameTyped
<1>4. PICK g : g = [f EXCEPT !.at = "receivers", !.sig = None, !.conn = None, !.mutex = None]
  OBVIOUS
<1>5. /\ g \in Frame /\ g.op = f.op /\ g.obj = f.obj
      /\ g.at = "receivers" /\ g.conn = None
      /\ g.op \in {"connect", "disconnect"} => g.other = f.other
      /\ f.broken => g.broken
  <2>1. g \in Frame
    BY <1>3, <1>4, ZenonT(40) DEF Frame
  <2>2. /\ g.op = f.op /\ g.obj = f.obj
        /\ g.at = "receivers" /\ g.conn = None
        /\ g.op \in {"connect", "disconnect"} => g.other = f.other
        /\ f.broken => g.broken
    BY <1>3, <1>4, SMT DEF Frame
  <2> QED
    BY <2>1, <2>2
<1>6. Goes(t, g)
  BY <1>1, <1>4 DEF DeleteUnlink
<1> QED
  BY <1>1, <1>3, <1>5, <1>6 DEF Becomes

LEMMA DeleteListsEndFrame ==
  ASSUME Basic, NEW t \in Threads, DeleteListsEnd(t)
  PROVE  \E g \in Frame :
           /\ Becomes(t, Top(t), g) /\ Top(t).op = "delete" /\ Top(t).at = "receivers"
           /\ g.at = "senders"
<1>1. PICK f : f = Top(t)
  OBVIOUS
<1>2. At(t, "delete", "receivers")
  BY DEF DeleteListsEnd
<1>3. /\ stack[t] # <<>> /\ f \in Frame /\ FrameOK(t, f) /\ f.op = "delete" /\ f.at = "receivers"
      /\ f.obj \in Objects
  BY <1>1, <1>2, AtTop, FrameTyped
<1>4. PICK g : g = [f EXCEPT !.at = "senders"]
  OBVIOUS
<1>5. /\ g \in Frame /\ g.op = f.op /\ g.obj = f.obj
      /\ g.at = "senders"
      /\ g.op \in {"connect", "disconnect"} => g.other = f.other
      /\ f.broken => g.broken
  <2>1. g \in Frame
    BY <1>3, <1>4, ZenonT(40) DEF Frame
  <2>2. /\ g.op = f.op /\ g.obj = f.obj
        /\ g.at = "senders"
        /\ g.op \in {"connect", "disconnect"} => g.other = f.other
        /\ f.broken => g.broken
    BY <1>3, <1>4, SMT DEF Frame
  <2> QED
    BY <2>1, <2>2
<1>6. Goes(t, g)
  BY <1>1, <1>4 DEF DeleteListsEnd
<1> QED
  BY <1>1, <1>3, <1>5, <1>6 DEF Becomes

LEMMA DeleteSendersFrame ==
  ASSUME Basic, NEW t \in Threads, DeleteSenders(t),
         senders[Top(t).obj] # <<>> => conn[Head(senders[Top(t).obj])].sender \in Objects
  PROVE  \E g \in Frame :
           /\ Becomes(t, Top(t), g) /\ Top(t).op = "delete" /\ Top(t).at = "senders"
           /\ g.at = "node" \/ (g.at = "free" /\ senders[g.obj] = <<>>)
<1>1. At(t, "delete", "senders")
  BY DEF DeleteSenders
<1>2. stack[t] # <<>> /\ Top(t) \in Frame /\ Top(t).op = "delete" /\ Top(t).at = "senders"
  BY <1>1, AtTop
<1>3. PICK g \in Frame :
              /\ Goes(t, g) /\ Continues(Top(t), g) /\ g.conn = None
              /\ \/ g.at = "free" /\ senders[g.obj] = <<>>
                 \/ g.at = "node"
  BY DeleteSendersBasic
<1> QED
  BY <1>2, <1>3 DEF Becomes, Continues

LEMMA DeleteNodeFrame ==
  ASSUME Basic, NEW t \in Threads, DeleteNode(t)
  PROVE  \E g \in Frame :
           /\ Becomes(t, Top(t), g) /\ Top(t).op = "delete" /\ Top(t).at = "node"
           /\ g.at = "senders"
<1>1. PICK f : f = Top(t)
  OBVIOUS
<1>2. At(t, "delete", "node")
  BY DEF DeleteNode
<1>3. /\ stack[t] # <<>> /\ f \in Frame /\ FrameOK(t, f) /\ f.op = "delete" /\ f.at = "node"
      /\ f.obj \in Objects
  BY <1>1, <1>2, AtTop, FrameTyped
<1>4. PICK g : g = [f EXCEPT !.at = "senders", !.other = None, !.mutex = None]
  OBVIOUS
<1>5. /\ g \in Frame /\ g.op = f.op /\ g.obj = f.obj
      /\ g.at = "senders"
      /\ g.op \in {"connect", "disconnect"} => g.other = f.other
      /\ f.broken => g.broken
  <2>1. g \in Frame
    BY <1>3, <1>4, ZenonT(40) DEF Frame
  <2>2. /\ g.op = f.op /\ g.obj = f.obj
        /\ g.at = "senders"
        /\ g.op \in {"connect", "disconnect"} => g.other = f.other
        /\ f.broken => g.broken
    BY <1>3, <1>4, SMT DEF Frame
  <2> QED
    BY <2>1, <2>2
<1>6. Goes(t, g)
  BY <1>1, <1>4 DEF DeleteNode
<1> QED
  BY <1>1, <1>3, <1>5, <1>6 DEF Becomes

-----------------------------------------------------------------------------
(* The frames after a step, one by one.                                    *)

LEMMA BecomesFrames ==
  ASSUME Basic, NEW t \in Threads, NEW f, NEW g, Becomes(t, f, g)
  PROVE  /\ Len(stack[t]) \in Nat \ {0} /\ DOMAIN stack[t] = 1 .. Len(stack[t])
         /\ Len(stack[t]) \in DOMAIN stack[t] /\ f = stack[t][Len(stack[t])]
         /\ \A u \in Threads : /\ DOMAIN stack'[u] = DOMAIN stack[u]
                               /\ Len(stack'[u]) = Len(stack[u])
                               /\ \A i \in DOMAIN stack[u] : stack'[u][i] =
                                    IF u = t /\ i = Len(stack[t]) THEN g ELSE stack[u][i]
<1>1. stack \in [Threads -> Seq(Frame)] /\ stack[t] # <<>> /\ g \in Frame /\ Goes(t, g)
      /\ f = Top(t)
  BY DEF Basic, Typed, Becomes
<1>2. /\ Len(stack[t]) \in Nat \ {0} /\ DOMAIN stack[t] = 1 .. Len(stack[t])
      /\ Len(stack[t]) \in DOMAIN stack[t] /\ f = stack[t][Len(stack[t])]
  BY <1>1, TopFrame
<1>3. /\ \A u \in Threads : u # t => stack'[u] = stack[u]
      /\ Len(stack'[t]) = Len(stack[t])
      /\ DOMAIN stack'[t] = DOMAIN stack[t]
      /\ stack'[t][Len(stack[t])] = g
      /\ \A i \in DOMAIN stack[t] : i # Len(stack[t]) => stack'[t][i] = stack[t][i]
  BY <1>1, GoesStack
<1> QED
  BY <1>2, <1>3

LEMMA EntersFrames ==
  ASSUME Basic, NEW t \in Threads, NEW g \in Frame, Enters(t, g)
  PROVE  /\ Len(stack[t]) \in Nat
         /\ \A u \in Threads :
              /\ DOMAIN stack[u] \subseteq DOMAIN stack'[u]
              /\ \A i \in DOMAIN stack[u] : stack'[u][i] = stack[u][i] /\ i <= Len(stack[u])
              /\ \A i \in DOMAIN stack'[u] :
                   i \in DOMAIN stack[u] \/ (u = t /\ i = Len(stack[t]) + 1 /\ stack'[u][i] = g)
         /\ Len(stack[t]) + 1 \in DOMAIN stack'[t] /\ stack'[t][Len(stack[t]) + 1] = g
         /\ Len(stack[t]) + 1 \notin DOMAIN stack[t]
<1>1. stack \in [Threads -> Seq(Frame)]
  BY DEF Basic, Typed
<1>2. /\ \A u \in Threads : u # t => stack'[u] = stack[u]
      /\ Len(stack[t]) \in Nat /\ DOMAIN stack[t] = 1 .. Len(stack[t])
      /\ DOMAIN stack'[t] = 1 .. Len(stack[t]) + 1
      /\ stack'[t][Len(stack[t]) + 1] = g
      /\ \A i \in DOMAIN stack[t] : stack'[t][i] = stack[t][i]
  BY <1>1, EntersStack
<1>3. \A u \in Threads : DOMAIN stack[u] = 1 .. Len(stack[u]) /\ Len(stack[u]) \in Nat
  BY <1>1
<1> QED
  BY <1>2, <1>3

LEMMA ReturnsFrames ==
  ASSUME Basic, NEW t \in Threads, stack[t] # <<>>, Returns(t)
  PROVE  /\ Len(stack[t]) \in DOMAIN stack[t] /\ Top(t) = stack[t][Len(stack[t])]
         /\ \A u \in Threads :
              /\ DOMAIN stack'[u] \subseteq DOMAIN stack[u]
              /\ \A i \in DOMAIN stack'[u] : stack'[u][i] = stack[u][i] /\ i \in DOMAIN stack[u]
              /\ \A i \in DOMAIN stack[u] :
                   i \in DOMAIN stack'[u] \/ (u = t /\ i = Len(stack[t]))
         /\ Len(stack[t]) \notin DOMAIN stack'[t]
<1>1. stack \in [Threads -> Seq(Frame)]
  BY DEF Basic, Typed
<1>2. /\ \A u \in Threads : u # t => stack'[u] = stack[u]
      /\ DOMAIN stack'[t] = 1 .. Len(stack[t]) - 1
      /\ \A i \in DOMAIN stack'[t] : i \in DOMAIN stack[t] /\ stack'[t][i] = stack[t][i]
  BY <1>1, ReturnsStack
<1>3. /\ Len(stack[t]) \in Nat \ {0} /\ DOMAIN stack[t] = 1 .. Len(stack[t])
      /\ Len(stack[t]) \in DOMAIN stack[t] /\ Top(t) = stack[t][Len(stack[t])]
  BY <1>1, TopFrame
<1> QED
  BY <1>2, <1>3

\* Only calls that have called user code are below others.
LEMMA OnlyTop ==
  ASSUME Basic, NEW t \in Threads, NEW i \in DOMAIN stack[t], ~Below(stack[t][i])
  PROVE  /\ i = Len(stack[t]) /\ stack[t][i] = Top(t) /\ stack[t] # <<>>
<1>1. stack \in [Threads -> Seq(Frame)]
  BY DEF Basic, Typed
<1>2. stack[t] # <<>>
  OBVIOUS
<1>3. i = Len(stack[t])
  BY DEF Basic, Shape
<1> QED
  BY <1>1, <1>2, <1>3, TopFrame

LEMMA FramesOK ==
  ASSUME Basic, NEW t \in Threads, NEW i \in DOMAIN stack[t]
  PROVE  FrameOK(t, stack[t][i]) /\ stack[t][i] \in Frame
BY DEF Basic, Shape, FrameOK

-----------------------------------------------------------------------------
(* The life of objects: an object is dying while its destructor runs.      *)

Deleting(o, i) ==
  /\ i \in DOMAIN stack[Home[o]]
  /\ stack[Home[o]][i].op = "delete" /\ stack[Home[o]][i].obj = o
LifeOK ==
  \A o \in Objects :
    /\ life[o] = "dying" <=> \E i : Deleting(o, i)
    /\ \A i, j : Deleting(o, i) /\ Deleting(o, j) => i = j

\* The destructor of o has come to the connections, or has ended.
Past(o) == life[o] = "dead" \/ \E i : Deleting(o, i) /\ stack[Home[o]][i].at # "begin"

\* What a call may name
UsableIn(l, t, o) == l[o] = "alive" \/ (l[o] = "dying" /\ Home[o] = t)
Lively(l, t, f) ==
  /\ f.op \in {"connect", "disconnect"} =>
       UsableIn(l, t, f.obj) /\ (f.other # None => UsableIn(l, t, f.other))
  /\ f.op = "emit" /\ f.at = "begin" => l[f.obj] # "dead"
NamedLive == \A t \in Threads : \A i \in DOMAIN stack[t] : Lively(life, t, stack[t][i])

\* The steps of all calls but the destructor's first and last
Pushes(t, g) ==
  /\ InUserCode(t) /\ g \in Frame /\ Enters(t, g) /\ Lively(life, t, g)
  /\ g.op \in {"connect", "disconnect", "emit", "event"}
  /\ g.op # "event" => g.at = "begin"
  /\ g.op = "disconnect" => g.conn = None
Pops(t) == stack[t] # <<>> /\ Returns(t) /\ Top(t).op # "delete"
Moves(t) ==
  \/ UNCHANGED stack
  \/ \E g : Becomes(t, Top(t), g)
  \/ \E g : Pushes(t, g)
  \/ Pops(t)

StepsOn(t) == UNCHANGED stack \/ (\E g : Becomes(t, Top(t), g)) \/ Pops(t)

\* The home of an object is a thread.
LEMMA HomeTyped ==
  ASSUME NEW o \in Objects
  PROVE  Home[o] \in Threads
BY ConnectionsAssumption, Zenon

LEMMA DeletingMoves ==
  ASSUME Basic, NEW t \in Threads, Moves(t), NEW o \in Objects
  PROVE  \A i : Deleting(o, i) <=> Deleting(o, i)'
<1>1. Home[o] \in Threads
  BY HomeTyped
<1>2. CASE UNCHANGED stack
  BY <1>2 DEF Deleting
<1>3. CASE \E g : Becomes(t, Top(t), g)
  <2>1. PICK g : Becomes(t, Top(t), g)
    BY <1>3
  <2>2. g.op = Top(t).op /\ g.obj = Top(t).obj
    BY <2>1 DEF Becomes
  <2> QED
    BY <1>1, <2>1, <2>2, BecomesFrames DEF Deleting
<1>4. CASE \E g : Pushes(t, g)
  <2>1. PICK g : Pushes(t, g)
    BY <1>4
  <2>2. g \in Frame /\ Enters(t, g) /\ g.op # "delete"
    BY <2>1 DEF Pushes
  <2> QED
    BY <1>1, <2>2, EntersFrames DEF Deleting
<1>5. CASE Pops(t)
  <2>1. stack[t] # <<>> /\ Returns(t) /\ Top(t).op # "delete"
    BY <1>5 DEF Pops
  <2> QED
    BY <1>1, <2>1, ReturnsFrames DEF Deleting
<1> QED
  BY <1>2, <1>3, <1>4, <1>5 DEF Moves

LEMMA LifeMoves ==
  ASSUME Basic, LifeOK, NEW t \in Threads, Moves(t), UNCHANGED life
  PROVE  LifeOK'
<1>1. \A o \in Objects : \A i : Deleting(o, i) <=> Deleting(o, i)'
  BY DeletingMoves
<1> QED
  BY <1>1, Zenon DEF LifeOK

LEMMA NamedMoves ==
  ASSUME Basic, NamedLive, NEW t \in Threads, Moves(t), UNCHANGED life
  PROVE  NamedLive'
<1> SUFFICES ASSUME NEW u \in Threads, NEW i \in DOMAIN stack'[u]
             PROVE  Lively(life, u, stack'[u][i])
  BY DEF NamedLive
<1>1. ASSUME i \in DOMAIN stack[u], stack'[u][i] = stack[u][i]
      PROVE  Lively(life, u, stack'[u][i])
  BY <1>1 DEF NamedLive
<1>2. CASE UNCHANGED stack
  BY <1>1, <1>2
<1>3. CASE \E g : Becomes(t, Top(t), g)
  <2>1. PICK g : Becomes(t, Top(t), g)
    BY <1>3
  <2>2. /\ Len(stack[t]) \in DOMAIN stack[t] /\ Top(t) = stack[t][Len(stack[t])]
        /\ i \in DOMAIN stack[u]
        /\ stack'[u][i] = IF u = t /\ i = Len(stack[t]) THEN g ELSE stack[u][i]
    BY <2>1, BecomesFrames
  <2>3. CASE u = t /\ i = Len(stack[t])
    <3>1. Lively(life, t, Top(t))
      BY <2>2 DEF NamedLive
    <3>2. Lively(life, t, g)
      BY <2>1, <3>1 DEF Becomes, Lively
    <3> QED
      BY <2>2, <2>3, <3>2
  <2>4. CASE ~(u = t /\ i = Len(stack[t]))
    BY <1>1, <2>2, <2>4
  <2> QED
    BY <2>3, <2>4
<1>4. CASE \E g : Pushes(t, g)
  <2>1. PICK g : Pushes(t, g)
    BY <1>4
  <2>2. g \in Frame /\ Enters(t, g) /\ Lively(life, t, g)
    BY <2>1 DEF Pushes
  <2>3. \/ i \in DOMAIN stack[u] /\ stack'[u][i] = stack[u][i]
        \/ u = t /\ stack'[u][i] = g
    BY <2>2, EntersFrames
  <2> QED
    BY <1>1, <2>2, <2>3
<1>5. CASE Pops(t)
  <2>1. stack[t] # <<>> /\ Returns(t)
    BY <1>5 DEF Pops
  <2>2. i \in DOMAIN stack[u] /\ stack'[u][i] = stack[u][i]
    BY <2>1, ReturnsFrames
  <2> QED
    BY <1>1, <2>2
<1> QED
  BY <1>2, <1>3, <1>4, <1>5 DEF Moves

\* An object that a function may use is not past the begin of its destructor.
LEMMA UsableNotPast ==
  ASSUME Basic, LifeOK, NEW t \in Threads, stack[t] # <<>>, Top(t).op # "delete",
         NEW o \in Objects, Usable(t, o)
  PROVE  ~Past(o)
<1>1. ASSUME NEW i, Deleting(o, i)
      PROVE  stack[Home[o]][i].at = "begin"
  <2>1. life[o] = "dying" /\ Home[o] = t
    BY <1>1 DEF LifeOK, Usable
  <2>2. i \in DOMAIN stack[t] /\ stack[t][i].op = "delete" /\ stack[t][i] # Top(t)
    BY <1>1, <2>1 DEF Deleting
  <2>3. Below(stack[t][i])
    BY <2>2, OnlyTop
  <2>4. DeleteFrame(t, stack[t][i])
    BY <2>2, FramesOK DEF FrameOK
  <2> QED
    BY <2>1, <2>2, <2>3, <2>4 DEF Below, DeleteFrame
<1>2. life[o] # "dead"
  BY DEF Usable
<1> QED
  BY <1>1, <1>2 DEF Past

-----------------------------------------------------------------------------
(* All steps but those that begin and end a destructor move like that.     *)

SendersKnown ==
  \A o \in Objects : senders[o] # <<>> => conn[Head(senders[o])].sender \in Objects

LEMMA StepMoves ==
  ASSUME Basic, SendersKnown, NEW t \in Threads, Step(t), ~DeleteEnd(t)
  PROVE  Moves(t) /\ StepsOn(t) /\ UNCHANGED life
<1>1. CASE Lock(t)
  BY <1>1, LockFrame DEF Moves, StepsOn, Lock
<1>2. CASE ConnectEnd(t)
  BY <1>2, ReturnsFrame DEF Moves, StepsOn, Pops, ConnectEnd
<1>3. CASE DisconnectBegin(t)
  <2>1. At(t, "disconnect", "begin")
    BY <1>3 DEF DisconnectBegin
  <2>2. CASE lists[Top(t).obj].at = "none"
    BY <1>3, <2>1, <2>2, ReturnsFrame DEF Moves, StepsOn, Pops, DisconnectBegin
  <2>3. CASE lists[Top(t).obj].at # "none"
    BY <1>3, <2>3, DisconnectBeginFrame DEF Moves, StepsOn, DisconnectBegin
  <2> QED
    BY <2>2, <2>3
<1>4. CASE DisconnectList(t)
  BY <1>4, DisconnectListFrame DEF Moves, StepsOn, DisconnectList
<1>5. CASE DisconnectScan(t)
  BY <1>5, DisconnectScanFrame DEF Moves, StepsOn, DisconnectScan
<1>6. CASE DisconnectUnlink(t)
  BY <1>6, DisconnectUnlinkFrame DEF Moves, StepsOn, DisconnectUnlink
<1>7. CASE DisconnectZero(t)
  BY <1>7, DisconnectZeroFrame DEF Moves, StepsOn, DisconnectZero
<1>8. CASE DisconnectEnd(t)
  BY <1>8, ReturnsFrame DEF Moves, StepsOn, Pops, DisconnectEnd
<1>9. CASE EmitBegin(t)
  <2>1. At(t, "emit", "begin")
    BY <1>9 DEF EmitBegin
  <2>2. CASE lists[Top(t).obj].at = "none"
    BY <1>9, <2>1, <2>2, ReturnsFrame DEF Moves, StepsOn, Pops, EmitBegin
  <2>3. CASE lists[Top(t).obj].at # "none"
    BY <1>9, <2>3, EmitBeginFrame DEF Moves, StepsOn, EmitBegin
  <2> QED
    BY <2>2, <2>3
<1>10. CASE EmitLook(t)
  BY <1>10, EmitLookFrame DEF Moves, StepsOn, EmitLook
<1>11. CASE SlotReturn(t)
  BY <1>11, SlotReturnFrame DEF Moves, StepsOn, SlotReturn
<1>12. CASE EmitResume(t)
  BY <1>12, EmitResumeFrame DEF Moves, StepsOn, EmitResume
<1>13. CASE EmitEnd(t)
  BY <1>13, ReturnsFrame DEF Moves, StepsOn, Pops, EmitEnd
<1>14. CASE DeliverEnd(t)
  BY <1>14, ReturnsFrame DEF Moves, StepsOn, Pops, DeliverEnd
<1>15. CASE DeleteBegin(t)
  BY <1>15, DeleteBeginFrame DEF Moves, StepsOn, DeleteBegin
<1>16. CASE DeleteLists(t)
  BY <1>16, DeleteListsFrame DEF Moves, StepsOn, DeleteLists
<1>17. CASE DeleteReceivers(t)
  BY <1>17, DeleteReceiversFrame DEF Moves, StepsOn, DeleteReceivers
<1>18. CASE DeleteUnlink(t)
  BY <1>18, DeleteUnlinkFrame DEF Moves, StepsOn, DeleteUnlink
<1>19. CASE DeleteListsEnd(t)
  BY <1>19, DeleteListsEndFrame DEF Moves, StepsOn, DeleteListsEnd
<1>20. CASE DeleteSenders(t)
  <2>1. Top(t).obj \in Objects
    BY <1>20, ReturnsFrame DEF DeleteSenders
  <2> QED
    BY <1>20, <2>1, DeleteSendersFrame DEF Moves, StepsOn, DeleteSenders, SendersKnown
<1>21. CASE DeleteNode(t)
  BY <1>21, DeleteNodeFrame DEF Moves, StepsOn, DeleteNode
<1> QED
  BY <1>1, <1>2, <1>3, <1>4, <1>5, <1>6, <1>7, <1>8, <1>9, <1>10, <1>11, <1>12, <1>13,
     <1>14, <1>15, <1>16, <1>17, <1>18, <1>19, <1>20, <1>21 DEF Step

LEMMA CallMoves ==
  ASSUME Basic, NEW t \in Threads, UserCall(t), ~\E o \in Objects : DeleteCall(t, o)
  PROVE  Moves(t) /\ UNCHANGED life
<1>1. ASSUME NEW s \in Objects, NEW g \in Signals, EmitCall(t, s, g)
      PROVE  Moves(t) /\ UNCHANGED life
  <2>1. PICK f \in Frame : Enters(t, f) /\ f.op = "emit" /\ f.at = "begin" /\ f.obj = s
    BY <1>1, EmitCallBasic
  <2>2. InUserCode(t) /\ life[s] # "dead" /\ UNCHANGED life
    BY <1>1 DEF EmitCall, Calls
  <2> QED
    BY <2>1, <2>2 DEF Moves, Pushes, Lively, Usable, UsableIn
<1>2. ASSUME NEW s \in Objects, NEW r \in Objects, NEW g \in Signals, ConnectCall(t, s, r, g)
      PROVE  Moves(t) /\ UNCHANGED life
  <2>1. PICK f \in Frame : Enters(t, f) /\ f.op = "connect" /\ f.at = "begin" /\ f.obj = s
                           /\ f.other = r
    BY <1>2, ConnectCallBasic
  <2>2. InUserCode(t) /\ Usable(t, s) /\ Usable(t, r) /\ UNCHANGED life
    BY <1>2 DEF ConnectCall, Calls
  <2> QED
    BY <2>1, <2>2 DEF Moves, Pushes, Lively, Usable, UsableIn
<1>3. ASSUME NEW s \in Objects, NEW r \in Objects \cup {None}, NEW g \in Scopes,
             DisconnectCall(t, s, r, g)
      PROVE  Moves(t) /\ UNCHANGED life
  <2>1. PICK f \in Frame : Enters(t, f) /\ f.op = "disconnect" /\ f.at = "begin" /\ f.obj = s
                           /\ f.other = r /\ f.conn = None
    BY <1>3, DisconnectCallBasic
  <2>2. InUserCode(t) /\ Usable(t, s) /\ (r # None => Usable(t, r)) /\ UNCHANGED life
    BY <1>3 DEF DisconnectCall, Calls
  <2> QED
    BY <2>1, <2>2 DEF Moves, Pushes, Lively, Usable, UsableIn
<1>4. ASSUME NEW o \in Objects, Deliver(t, o)
      PROVE  Moves(t) /\ UNCHANGED life
  <2>1. PICK f \in Frame : Enters(t, f) /\ f.op = "event"
    BY <1>4, DeliverBasic
  <2>2. InUserCode(t) /\ UNCHANGED life
    BY <1>4 DEF Deliver
  <2> QED
    BY <2>1, <2>2 DEF Moves, Pushes, Lively, Usable, UsableIn
<1>5. ASSUME NEW c \in Conns, DropHandle(t, c) \/ DisconnectHandle(t, c)
      PROVE  Moves(t) /\ UNCHANGED life
  BY <1>5 DEF Moves, DropHandle, DisconnectHandle
<1> QED
  BY <1>1, <1>2, <1>3, <1>4, <1>5 DEF UserCall

LEMMA DeleteCallFrames ==
  ASSUME Basic, NEW t \in Threads, NEW o \in Objects, DeleteCall(t, o)
  PROVE  /\ Home[o] = t /\ life[o] = "alive" /\ life'[o] = "dying" /\ InUserCode(t)
         /\ \A p \in Objects : p # o => life'[p] = life[p]
         /\ Len(stack[t]) \in Nat
         /\ \A u \in Threads :
              /\ DOMAIN stack[u] \subseteq DOMAIN stack'[u]
              /\ \A i \in DOMAIN stack[u] : stack'[u][i] = stack[u][i] /\ i <= Len(stack[u])
              /\ \A i \in DOMAIN stack'[u] :
                   \/ i \in DOMAIN stack[u]
                   \/ u = t /\ i = Len(stack[t]) + 1
                   \/ /\ u = t /\ i = Len(stack[t]) + 2 /\ stack'[u][i] \in Frame
                      /\ stack'[u][i].op = "emit" /\ stack'[u][i].at = "begin"
                      /\ stack'[u][i].obj = o /\ stack'[u][i].conn = None
                      /\ stack'[u][i].due = <<>> /\ stack'[u][i].called = <<>>
         /\ Len(stack[t]) + 1 \in DOMAIN stack'[t]
         /\ Len(stack[t]) + 1 \notin DOMAIN stack[t]
         /\ Len(stack[t]) + 2 \notin DOMAIN stack[t]
         /\ stack'[t][Len(stack[t]) + 1] \in Frame
         /\ stack'[t][Len(stack[t]) + 1].op = "delete"
         /\ stack'[t][Len(stack[t]) + 1].at = "begin"
         /\ stack'[t][Len(stack[t]) + 1].obj = o
<1>1. /\ Home[o] = t /\ life[o] = "alive" /\ life'[o] = "dying" /\ InUserCode(t)
      /\ \A p \in Objects : p # o => life'[p] = life[p]
  BY DEF DeleteCall, Calls, Basic, Typed
<1>2. PICK f \in Frame :
        /\ f.op = "delete" /\ f.at = "begin" /\ f.obj = o
        /\ \/ Enters(t, f)
           \/ /\ Destroyed \in Signals
              /\ stack' = [stack EXCEPT ![t] = @ \o <<f>> \o <<Emission(o, Destroyed)>>]
  BY DeleteCallBasic
<1>3. stack \in [Threads -> Seq(Frame)]
  BY DEF Basic, Typed
<1>4. \A u \in Threads : DOMAIN stack[u] = 1 .. Len(stack[u]) /\ Len(stack[u]) \in Nat
  BY <1>3
<1>5. PICK n \in Nat : n = Len(stack[t])
  BY <1>4
<1>6. CASE Enters(t, f)
  <2>1. /\ \A u \in Threads : u # t => stack'[u] = stack[u]
        /\ DOMAIN stack'[t] = 1 .. n + 1
        /\ stack'[t][n + 1] = f
        /\ \A i \in DOMAIN stack[t] : stack'[t][i] = stack[t][i]
    BY <1>3, <1>5, <1>6, EntersStack
  <2> QED
    BY <1>1, <1>2, <1>4, <1>5, <2>1
<1>7. CASE /\ Destroyed \in Signals
           /\ stack' = [stack EXCEPT ![t] = @ \o <<f>> \o <<Emission(o, Destroyed)>>]
  <2>1. PICK g : g = Emission(o, Destroyed)
    OBVIOUS
  <2>2. /\ g \in Frame /\ g.op = "emit" /\ g.at = "begin" /\ g.obj = o
        /\ g.conn = None /\ g.due = <<>> /\ g.called = <<>>
    BY <1>1, <1>7, <2>1, EmitFrameBegins
  <2>3. stack' = [stack EXCEPT ![t] = @ \o <<f>> \o <<g>>]
    BY <1>7, <2>1
  <2>4. /\ \A u \in Threads : u # t => stack'[u] = stack[u]
        /\ DOMAIN stack'[t] = 1 .. n + 2
        /\ stack'[t][n + 1] = f /\ stack'[t][n + 2] = g
        /\ \A i \in DOMAIN stack[t] : stack'[t][i] = stack[t][i]
    BY <1>2, <1>3, <1>5, <2>2, <2>3, EntersTwo
  <2>5. n + 1 \in 1 .. n + 2 /\ n + 1 \notin 1 .. n /\ n + 2 \notin 1 .. n
        /\ \A i \in 1 .. n + 2 : i \in 1 .. n \/ i = n + 1 \/ i = n + 2
    OBVIOUS
  <2> QED
    BY <1>1, <1>2, <1>4, <1>5, <2>2, <2>4, <2>5
<1> QED
  BY <1>2, <1>6, <1>7

LEMMA DeleteCallLife ==
  ASSUME Basic, LifeOK, NEW t \in Threads, NEW o \in Objects, DeleteCall(t, o)
  PROVE  /\ LifeOK'
         /\ \A p \in Objects : Past(p)' <=> Past(p)
<1> DEFINE n == Len(stack[t]) + 1
<1>1. /\ Home[o] = t /\ life[o] = "alive" /\ life'[o] = "dying"
      /\ \A p \in Objects : p # o => life'[p] = life[p]
  BY DeleteCallFrames
<1>2. \A p \in Objects : \A i : Deleting(p, i)' <=> Deleting(p, i) \/ (p = o /\ i = n)
  BY DeleteCallFrames, HomeTyped DEF Deleting
<1>3. \A p \in Objects : \A i : Deleting(p, i) => stack'[Home[p]][i] = stack[Home[p]][i]
  BY DeleteCallFrames, HomeTyped DEF Deleting
<1>4. \A i : ~Deleting(o, i)
  BY <1>1 DEF LifeOK
<1>5. stack'[Home[o]][n].at = "begin"
  BY <1>1, DeleteCallFrames
<1> HIDE DEF n
<1>6. LifeOK'
  <2> SUFFICES ASSUME NEW p \in Objects
               PROVE  /\ life'[p] = "dying" <=> \E i : Deleting(p, i)'
                      /\ \A i, j : Deleting(p, i)' /\ Deleting(p, j)' => i = j
    BY DEF LifeOK
  <2>1. CASE p = o
    BY <1>1, <1>2, <1>4, <2>1
  <2>2. CASE p # o
    BY <1>1, <1>2, <2>2, Zenon DEF LifeOK
  <2> QED
    BY <2>1, <2>2
<1>7. \A p \in Objects : Past(p)' <=> Past(p)
  <2> SUFFICES ASSUME NEW p \in Objects PROVE Past(p)' <=> Past(p)
    OBVIOUS
  <2>1. CASE p = o
    BY <1>1, <1>2, <1>4, <1>5, <2>1 DEF Past
  <2>2. CASE p # o
    BY <1>1, <1>2, <1>3, <2>2 DEF Past
  <2> QED
    BY <2>1, <2>2
<1> QED
  BY <1>6, <1>7

LEMMA DeleteEndLife ==
  ASSUME Basic, LifeOK, NEW t \in Threads, DeleteEnd(t)
  PROVE  /\ LifeOK'
         /\ \A p \in Objects : Past(p)' <=> Past(p)
         /\ Top(t).op = "delete" /\ Top(t).at = "free" /\ Home[Top(t).obj] = t
         /\ Top(t).obj \in Objects /\ life[Top(t).obj] = "dying" /\ life'[Top(t).obj] = "dead"
         /\ \A p \in Objects : p # Top(t).obj => life'[p] = life[p]
<1> DEFINE n == Len(stack[t])
<1>1. PICK o : o = Top(t).obj
  OBVIOUS
<1>2. At(t, "delete", "free") /\ life' = [life EXCEPT ![o] = "dead"] /\ Returns(t)
  BY <1>1 DEF DeleteEnd
<1>3. /\ stack[t] # <<>> /\ o \in Objects /\ Top(t).op = "delete" /\ Top(t).at = "free"
      /\ Home[o] = t
  BY <1>1, <1>2, ReturnsFrame DEF FrameOK, DeleteFrame
<1>4. Top(t) = stack[t][n] /\ n \in DOMAIN stack[t]
  BY <1>2, <1>3, ReturnsFrames
<1>5. Deleting(o, n)
  BY <1>1, <1>3, <1>4 DEF Deleting
<1>6. \A p \in Objects : \A i : Deleting(p, i)' <=> Deleting(p, i) /\ ~(p = o /\ i = n)
  BY <1>1, <1>2, <1>3, <1>4, ReturnsFrames, HomeTyped DEF Deleting
<1>7. \A p \in Objects : \A i : Deleting(p, i)' => stack'[Home[p]][i] = stack[Home[p]][i]
  BY <1>2, <1>3, ReturnsFrames, HomeTyped DEF Deleting
<1>8. life[o] = "dying" /\ life'[o] = "dead" /\ \A p \in Objects : p # o => life'[p] = life[p]
  BY <1>2, <1>3, <1>5 DEF LifeOK, Basic, Typed
<1>10. Past(o)
  BY <1>3, <1>4, <1>5 DEF Past
<1> HIDE DEF n
<1>9. LifeOK'
  <2> SUFFICES ASSUME NEW p \in Objects
               PROVE  /\ life'[p] = "dying" <=> \E i : Deleting(p, i)'
                      /\ \A i, j : Deleting(p, i)' /\ Deleting(p, j)' => i = j
    BY DEF LifeOK
  <2>1. CASE p = o
    BY <1>3, <1>5, <1>6, <1>8, <2>1 DEF LifeOK
  <2>2. CASE p # o
    BY <1>6, <1>8, <2>2, Zenon DEF LifeOK
  <2> QED
    BY <2>1, <2>2
<1>11. \A p \in Objects : Past(p)' <=> Past(p)
  <2> SUFFICES ASSUME NEW p \in Objects PROVE Past(p)' <=> Past(p)
    OBVIOUS
  <2>1. CASE p = o
    BY <1>8, <1>10, <2>1 DEF Past
  <2>2. CASE p # o
    BY <1>6, <1>7, <1>8, <2>2 DEF Past
  <2> QED
    BY <2>1, <2>2
<1> QED
  BY <1>1, <1>3, <1>8, <1>9, <1>11

\* The frames of the functions that name objects are on top of the stacks.
LEMMA NamingOnTop ==
  ASSUME Basic, NEW t \in Threads, NEW i \in DOMAIN stack[t],
         \/ stack[t][i].op \in {"connect", "disconnect"}
         \/ stack[t][i].op = "emit" /\ stack[t][i].at # "slot"
  PROVE  /\ i = Len(stack[t]) /\ stack[t][i] = Top(t) /\ stack[t] # <<>>
<1>1. FrameOK(t, stack[t][i])
  BY FramesOK
<1>2. ~Below(stack[t][i])
  BY <1>1 DEF FrameOK, ConnectFrame, DisconnectFrame, EmitFrame, Below
<1> QED
  BY <1>2, OnlyTop

LEMMA DeleteCallNamed ==
  ASSUME Basic, LifeOK, NamedLive, NEW t \in Threads, NEW o \in Objects, DeleteCall(t, o)
  PROVE  NamedLive'
<1> SUFFICES ASSUME NEW u \in Threads, NEW i \in DOMAIN stack'[u]
             PROVE  Lively(life', u, stack'[u][i])
  BY DEF NamedLive
<1>1. PICK f : f = stack'[u][i]
  OBVIOUS
<1>2. CASE i \in DOMAIN stack[u]
  <2>1. f = stack[u][i] /\ f \in Frame
    BY <1>1, <1>2, DeleteCallFrames, FramesOK
  <2>2. Lively(life, u, f)
    BY <1>2, <2>1 DEF NamedLive
  <2>3. f.obj \in Objects /\ f.other \in Objects \cup {None}
    BY <2>1, FrameTyped
  <2>4. f.op \in {"connect", "disconnect"} => o \notin {f.obj, f.other}
    <3>1. ~Named(u, o)
      BY DEF DeleteCall
    <3>2. f \in ToSet(stack[u])
      BY <1>2, <2>1 DEF ToSet
    <3> QED
      BY <3>1, <3>2 DEF Named
  <2> QED
    BY <1>1, <2>2, <2>3, <2>4, DeleteCallFrames DEF Lively, UsableIn
<1>3. CASE i \notin DOMAIN stack[u]
  BY <1>3, DeleteCallFrames DEF Lively
<1> QED
  BY <1>2, <1>3

LEMMA DeleteEndNamed ==
  ASSUME Basic, LifeOK, NamedLive, NEW t \in Threads, DeleteEnd(t)
  PROVE  NamedLive'
<1> SUFFICES ASSUME NEW u \in Threads, NEW i \in DOMAIN stack'[u]
             PROVE  Lively(life', u, stack'[u][i])
  BY DEF NamedLive
<1>1. PICK f, o : f = stack'[u][i] /\ o = Top(t).obj
  OBVIOUS
<1>2. Returns(t) /\ stack[t] # <<>>
  BY DEF DeleteEnd, At
<1>3. i \in DOMAIN stack[u] /\ f = stack[u][i]
  BY <1>1, <1>2, ReturnsFrames
<1>4. Lively(life, u, f) /\ f \in Frame /\ FrameOK(u, f)
  BY <1>3, FramesOK DEF NamedLive
<1>5. f.obj \in Objects /\ f.other \in Objects \cup {None}
  BY <1>4, FrameTyped
<1>6. /\ Top(t).op = "delete" /\ Home[o] = t /\ o \in Objects /\ life[o] = "dying"
      /\ life'[o] = "dead" /\ \A p \in Objects : p # o => life'[p] = life[p]
  BY <1>1, DeleteEndLife
<1>7. u = t => Below(f)
  <2>1. u = t => i # Len(stack[t])
    BY <1>2, ReturnsFrames
  <2> QED
    BY <1>3, <2>1 DEF Basic, Shape
<1>8. f.op \in {"connect", "disconnect"} => u # t
  BY <1>4, <1>7 DEF Below, FrameOK, ConnectFrame, DisconnectFrame
<1>9. f.op = "emit" /\ f.at = "begin" => u # t /\ Home[f.obj] = u
  BY <1>4, <1>7 DEF Below, FrameOK, EmitFrame
<1> QED
  BY <1>1, <1>4, <1>5, <1>6, <1>8, <1>9 DEF Lively, UsableIn

\* Past is only reached in the begin of the destructor.
LEMMA PastMoves ==
  ASSUME Basic, NEW t \in Threads, Moves(t), UNCHANGED life,
         ~(stack[t] # <<>> /\ Top(t).op = "delete" /\ Top(t).at = "begin"),
         NEW o \in Objects
  PROVE  Past(o)' <=> Past(o)
<1>1. \A i : Deleting(o, i) <=> Deleting(o, i)'
  BY DeletingMoves
<1>2. ASSUME NEW i, Deleting(o, i)
      PROVE  stack'[Home[o]][i].at = "begin" <=> stack[Home[o]][i].at = "begin"
  <2>1. Home[o] \in Threads /\ i \in DOMAIN stack[Home[o]] /\ i \in DOMAIN stack'[Home[o]]
        /\ stack[Home[o]][i].op = "delete"
    BY <1>1, <1>2, HomeTyped DEF Deleting
  <2>2. CASE UNCHANGED stack
    BY <2>2
  <2>3. CASE \E g : Becomes(t, Top(t), g)
    <3>1. PICK g : Becomes(t, Top(t), g)
      BY <2>3
    <3>2. g.op = Top(t).op /\ (g.at = "begin" => Top(t).at = "begin") /\ stack[t] # <<>>
      BY <3>1 DEF Becomes
    <3> QED
      BY <2>1, <3>1, <3>2, BecomesFrames
  <2>4. CASE \E g : Pushes(t, g)
    BY <2>1, <2>4, EntersFrames DEF Pushes
  <2>5. CASE Pops(t)
    BY <2>1, <2>5, ReturnsFrames DEF Pops
  <2> QED
    BY <2>2, <2>3, <2>4, <2>5 DEF Moves
<1> QED
  BY <1>1, <1>2 DEF Past

\* Only DeleteBegin takes a destructor past its begin.
LEMMA NotBeginning ==
  ASSUME Basic, NEW t \in Threads, Step(t), ~DeleteBegin(t)
  PROVE  ~(Top(t).op = "delete" /\ Top(t).at = "begin")
<1>1. CASE Lock(t)
  <2>1. WantOK(Top(t)) /\ Top(t).want # <<>>
    BY <1>1, TopOK DEF Lock
  <2> QED
    BY <2>1 DEF WantOK, Own
<1>2. CASE ConnectEnd(t)
  BY <1>2 DEF ConnectEnd, At
<1>3. CASE DisconnectBegin(t)
  BY <1>3 DEF DisconnectBegin, At
<1>4. CASE DisconnectList(t)
  BY <1>4 DEF DisconnectList, At
<1>5. CASE DisconnectScan(t)
  BY <1>5 DEF DisconnectScan, At
<1>6. CASE DisconnectUnlink(t)
  BY <1>6 DEF DisconnectUnlink, At
<1>7. CASE DisconnectZero(t)
  BY <1>7 DEF DisconnectZero, At
<1>8. CASE DisconnectEnd(t)
  BY <1>8 DEF DisconnectEnd, At
<1>9. CASE EmitBegin(t)
  BY <1>9 DEF EmitBegin, At
<1>10. CASE EmitLook(t)
  BY <1>10 DEF EmitLook, At
<1>11. CASE SlotReturn(t)
  BY <1>11 DEF SlotReturn, At
<1>12. CASE EmitResume(t)
  BY <1>12 DEF EmitResume, At
<1>13. CASE EmitEnd(t)
  BY <1>13 DEF EmitEnd, At
<1>14. CASE DeliverEnd(t)
  BY <1>14 DEF DeliverEnd, At
<1>16. CASE DeleteLists(t)
  BY <1>16 DEF DeleteLists, At
<1>17. CASE DeleteReceivers(t)
  BY <1>17 DEF DeleteReceivers, At
<1>18. CASE DeleteUnlink(t)
  BY <1>18 DEF DeleteUnlink, At
<1>19. CASE DeleteListsEnd(t)
  BY <1>19 DEF DeleteListsEnd, At
<1>20. CASE DeleteSenders(t)
  BY <1>20 DEF DeleteSenders, At
<1>21. CASE DeleteNode(t)
  BY <1>21 DEF DeleteNode, At
<1>22. CASE DeleteEnd(t)
  BY <1>22 DEF DeleteEnd, At
<1> QED
  BY <1>1, <1>2, <1>3, <1>4, <1>5, <1>6, <1>7, <1>8, <1>9, <1>10, <1>11, <1>12, <1>13, <1>14, <1>16, <1>17, <1>18, <1>19, <1>20, <1>21, <1>22 DEF Step

LEMMA UserCodeTop ==
  ASSUME Basic, NEW t \in Threads, UserCall(t)
  PROVE  InUserCode(t) /\ ~(stack[t] # <<>> /\ Top(t).op = "delete")
<1>1. InUserCode(t)
  BY DEF UserCall, EmitCall, ConnectCall, DisconnectCall, Deliver, DeleteCall, DropHandle,
    DisconnectHandle, Calls
<1>2. stack[t] # <<>> => Top(t).at = "slot" /\ DeleteFrame(t, Top(t))
  BY <1>1, TopOK DEF InUserCode, FrameOK
<1> QED
  BY <1>1, <1>2 DEF DeleteFrame

LEMMA LifeNext ==
  ASSUME Basic, SendersKnown, LifeOK, NamedLive, NEW t \in Threads, Step(t) \/ UserCall(t)
  PROVE  LifeOK' /\ NamedLive'
<1>1. CASE \E o \in Objects : DeleteCall(t, o)
  BY <1>1, DeleteCallLife, DeleteCallNamed
<1>2. CASE DeleteEnd(t)
  BY <1>2, DeleteEndLife, DeleteEndNamed
<1>3. CASE ~(\E o \in Objects : DeleteCall(t, o)) /\ ~DeleteEnd(t)
  <2>1. Moves(t) /\ UNCHANGED life
    BY <1>3, StepMoves, CallMoves
  <2> QED
    BY <2>1, LifeMoves, NamedMoves
<1> QED
  BY <1>1, <1>2, <1>3

LEMMA PastNext ==
  ASSUME Basic, SendersKnown, LifeOK, NEW t \in Threads, Step(t) \/ UserCall(t),
         NEW o \in Objects
  PROVE  /\ Past(o) => Past(o)'
         /\ Past(o)' => Past(o) \/ (DeleteBegin(t) /\ o = Top(t).obj)
<1>1. CASE \E p \in Objects : DeleteCall(t, p)
  BY <1>1, DeleteCallLife
<1>2. CASE DeleteEnd(t)
  BY <1>2, DeleteEndLife
<1>3. CASE ~(\E p \in Objects : DeleteCall(t, p)) /\ ~DeleteEnd(t) /\ ~DeleteBegin(t)
  <2>1. Moves(t) /\ UNCHANGED life
    BY <1>3, StepMoves, CallMoves
  <2>2. ~(stack[t] # <<>> /\ Top(t).op = "delete" /\ Top(t).at = "begin")
    BY <1>3, NotBeginning, UserCodeTop
  <2> QED
    BY <2>1, <2>2, PastMoves
<1>4. CASE DeleteBegin(t)
  <2>1. PICK g : Becomes(t, Top(t), g)
    BY <1>4, DeleteBeginFrame
  <2>2. UNCHANGED life
    BY <1>4 DEF DeleteBegin
  <2>3. Moves(t)
    BY <2>1 DEF Moves
  <2>4. \A i : Deleting(o, i) <=> Deleting(o, i)'
    BY <2>3, DeletingMoves
  <2>5. ASSUME NEW i, Deleting(o, i)
        PROVE  \/ stack'[Home[o]][i] = stack[Home[o]][i]
               \/ o = Top(t).obj /\ stack[Home[o]][i].at = "begin"
    <3>1. Home[o] \in Threads /\ i \in DOMAIN stack[Home[o]]
          /\ stack[Home[o]][i].op = "delete" /\ stack[Home[o]][i].obj = o
      BY <2>5, HomeTyped DEF Deleting
    <3>2. Top(t).at = "begin"
      BY <1>4 DEF DeleteBegin, At
    <3> QED
      BY <2>1, <3>1, <3>2, BecomesFrames
  <2> QED
    BY <1>4, <2>2, <2>4, <2>5 DEF Past
<1> QED
  BY <1>1, <1>2, <1>3, <1>4

-----------------------------------------------------------------------------
(* The lists of an object through its life.                                *)

DeletesWell(v, s, at) ==
  /\ at \in {"senders", "node", "free"} => v.at # "used"
  /\ at \in {"receivers", "unlink"} => v.at = "used"
  /\ at = "free" => s = <<>>
ShapeOf(o) ==
  /\ lists[o].at # "used" => \A g \in Signals : lists[o].of[g] = <<>>
  /\ lists[o].at \in {"orphaned", "deleted"} => Past(o)
  /\ life[o] = "dead" => lists[o].at # "used" /\ senders[o] = <<>>
  /\ \A i : Deleting(o, i) => DeletesWell(lists[o], senders[o], stack[Home[o]][i].at)
ListsShape == \A o \in Objects : ShapeOf(o)

\* What most steps do to the lists and the senders of o
Quiet(o) ==
  /\ lists'[o].at = lists[o].at \/ (lists[o].at = "orphaned" /\ lists'[o].at = "deleted")
  /\ \A g \in Signals : lists[o].of[g] = <<>> => lists'[o].of[g] = <<>>
  /\ senders[o] = <<>> => senders'[o] = <<>>

\* Which frames of destructors change
LEMMA DeletingFrames ==
  ASSUME Basic, NEW t \in Threads, Moves(t), NEW o \in Objects, NEW i, Deleting(o, i)'
  PROVE  /\ Deleting(o, i)
         /\ \/ stack'[Home[o]][i] = stack[Home[o]][i]
            \/ /\ Top(t).op = "delete" /\ o = Top(t).obj /\ stack[t] # <<>>
               /\ Home[o] = t /\ i = Len(stack[t])
<1>1. Deleting(o, i)
  BY DeletingMoves
<1>2. Home[o] \in Threads /\ i \in DOMAIN stack[Home[o]] /\ i \in DOMAIN stack'[Home[o]]
      /\ stack[Home[o]][i].op = "delete" /\ stack[Home[o]][i].obj = o
  BY <1>1, HomeTyped DEF Deleting
<1>3. CASE UNCHANGED stack
  BY <1>1, <1>3
<1>4. CASE \E g : Becomes(t, Top(t), g)
  <2>1. PICK g : Becomes(t, Top(t), g)
    BY <1>4
  <2>2. stack[t] # <<>>
    BY <2>1 DEF Becomes
  <2> QED
    BY <1>1, <1>2, <2>1, <2>2, BecomesFrames
<1>5. CASE \E g : Pushes(t, g)
  BY <1>1, <1>2, <1>5, EntersFrames DEF Pushes
<1>6. CASE Pops(t)
  BY <1>1, <1>2, <1>6, ReturnsFrames DEF Pops
<1> QED
  BY <1>3, <1>4, <1>5, <1>6 DEF Moves

\* A quiet step that is not one of a destructor of o
LEMMA ShapeQuiet ==
  ASSUME Basic, NEW t \in Threads, NEW o \in Objects, ShapeOf(o), Quiet(o),
         Past(o) => Past(o)', life'[o] = "dead" => life[o] = "dead",
         \A i : Deleting(o, i)' =>
           \/ Deleting(o, i) /\ stack'[Home[o]][i].at = stack[Home[o]][i].at
           \/ DeletesWell(lists'[o], senders'[o], stack'[Home[o]][i].at)
  PROVE  ShapeOf(o)'
<1>1. lists'[o].at # "used" => \A g \in Signals : lists'[o].of[g] = <<>>
  BY DEF ShapeOf, Quiet
<1>2. lists'[o].at \in {"orphaned", "deleted"} => Past(o)'
  BY DEF ShapeOf, Quiet
<1>3. life'[o] = "dead" => lists'[o].at # "used" /\ senders'[o] = <<>>
  BY DEF ShapeOf, Quiet
<1>4. ASSUME NEW i, Deleting(o, i)'
      PROVE  DeletesWell(lists'[o], senders'[o], stack'[Home[o]][i].at)
  <2>1. CASE Deleting(o, i) /\ stack'[Home[o]][i].at = stack[Home[o]][i].at
    BY <2>1 DEF ShapeOf, Quiet, DeletesWell
  <2> QED
    BY <1>4, <2>1
<1> QED
  BY <1>1, <1>2, <1>3, <1>4 DEF ShapeOf

-----------------------------------------------------------------------------
(* What the steps do to the lists.                                         *)

UnlinksFirst ==
  \A t \in Threads :
    stack[t] # <<>> /\ Top(t).op = "delete" /\ Top(t).at = "unlink" =>
      /\ lists[Top(t).obj].of[Top(t).sig] # <<>>
      /\ Top(t).conn = Head(lists[Top(t).obj].of[Top(t).sig])

LEMMA EntersLists ==
  ASSUME Typed, NEW o \in Objects, lists' = [lists EXCEPT ![o] = Enter(lists[o])]
  PROVE  /\ \A p \in Objects : /\ p # o => lists'[p] = lists[p]
                               /\ lists'[p].at = lists[p].at
                               /\ lists'[p].of = lists[p].of
                               /\ lists'[p].dirty = lists[p].dirty
         /\ lists'[o].inUse = lists[o].inUse + 1
<1>1. lists[o] \in SomeLists /\ Enter(lists[o]) \in SomeLists
  BY ListTyped, EnterTyped
<1>2. lists'[o] = Enter(lists[o]) /\ \A p \in Objects : p # o => lists'[p] = lists[p]
  BY <1>1, ChangedLists
<1> QED
  BY <1>1, <1>2, EnterTyped

LEMMA LeavesLists ==
  ASSUME Typed, NEW o \in Objects, NEW b \in BOOLEAN,
         lists' = [lists EXCEPT ![o] = Leave(Dirtied(lists[o], b))]
  PROVE  /\ \A p \in Objects : p # o => lists'[p] = lists[p]
         /\ ~(lists[o].inUse = 1 /\ lists[o].at = "orphaned") =>
              /\ lists'[o].at = lists[o].at /\ lists'[o].inUse = lists[o].inUse - 1
              /\ lists'[o].dirty = (lists[o].dirty \/ b) /\ lists'[o].of = lists[o].of
         /\ lists[o].inUse = 1 /\ lists[o].at = "orphaned" =>
              /\ lists'[o].at = "deleted" /\ lists'[o].inUse = 0
              /\ \A g \in Signals : lists'[o].of[g] = <<>>
<1>1. lists[o] \in SomeLists
  BY ListTyped
<1>2. PICK v : v = Dirtied(lists[o], b)
  OBVIOUS
<1>3. v \in SomeLists /\ v.at = lists[o].at /\ v.inUse = lists[o].inUse /\ v.of = lists[o].of
      /\ v.dirty = (lists[o].dirty \/ b)
  BY <1>1, <1>2, DirtiedTyped
<1>4. PICK w : w = Leave(v)
  OBVIOUS
<1>5. /\ w \in SomeLists
      /\ ~(v.inUse = 1 /\ v.at = "orphaned") =>
           w.at = v.at /\ w.inUse = v.inUse - 1 /\ w.dirty = v.dirty /\ w.of = v.of
      /\ v.inUse = 1 /\ v.at = "orphaned" =>
           w.at = "deleted" /\ w.inUse = 0 /\ \A g \in Signals : w.of[g] = <<>>
  BY <1>3, <1>4, LeaveTyped
<1>6. lists'[o] = w /\ \A p \in Objects : p # o => lists'[p] = lists[p]
  BY <1>2, <1>4, <1>5, ChangedLists
<1> QED
  BY <1>3, <1>5, <1>6

LEMMA DisconnectEndLists ==
  ASSUME Basic, NEW t \in Threads, DisconnectEnd(t)
  PROVE  \E b \in BOOLEAN : /\ lists' = [lists EXCEPT ![Top(t).obj] = Leave(Dirtied(lists[Top(t).obj], b))]
                            /\ b = Top(t).broken /\ Top(t).obj \in Objects
<1>1. At(t, "disconnect", "scan")
  BY DEF DisconnectEnd
<1>2. Top(t).broken \in BOOLEAN /\ Top(t).obj \in Objects
  BY <1>1, ReturnsFrame, FrameTyped
<1> QED
  BY <1>2 DEF DisconnectEnd

LEMMA EmitEndLists ==
  ASSUME Basic, NEW t \in Threads, EmitEnd(t)
  PROVE  lists' = [lists EXCEPT ![Top(t).obj] = Leave(Dirtied(lists[Top(t).obj], FALSE))]
         /\ Top(t).obj \in Objects
<1>1. At(t, "emit", "look")
  BY DEF EmitEnd
<1>2. PICK o : o = Top(t).obj
  OBVIOUS
<1>3. o \in Objects
  BY <1>1, <1>2, ReturnsFrame, FrameTyped
<1>4. PICK v : v = lists[o]
  OBVIOUS
<1>5. v \in SomeLists
  BY <1>3, <1>4, ListTyped DEF Basic
<1>6. Dirtied(v, FALSE) = v
  BY <1>5 DEF Dirtied, SomeLists
<1>7. lists' = [lists EXCEPT ![o] = Leave(v)]
  BY <1>2, <1>4 DEF EmitEnd
<1> QED
  BY <1>2, <1>3, <1>4, <1>6, <1>7

LEMMA UnlinkedQuiet ==
  ASSUME Typed, NEW c \in Conns, ~Broken(c), NEW o \in Objects, senders[o] = <<>>
  PROVE  Unlinked(c)[o] = <<>>
<1>1. CASE o # conn[c].receiver
  BY <1>1, UnlinkedTyped
<1>2. CASE o = conn[c].receiver
  <2>1. Unlinked(c)[o] = Without(senders[o], {c}) /\ senders[o] \in Seq(Conns)
    BY <1>2, UnlinkedTyped, ListTyped
  <2>2. PICK q, w : q = senders[o] /\ w = Without(q, {c})
    OBVIOUS
  <2>3. w \in Seq(Conns) /\ ToSet(w) = ToSet(q) \ {c}
    BY <2>1, <2>2, WithoutElements
  <2>4. ToSet(w) = {}
    BY <2>2, <2>3, NoneWanted
  <2>5. w = <<>>
    <3>1. w # <<>> => Head(w) \in ToSet(w)
      BY <2>3, HeadAndTail
    <3> QED
      BY <2>4, <3>1
  <2> QED
    BY <2>1, <2>2, <2>5
<1> QED
  BY <1>1, <1>2

\* The destructor's DropFirst
LEMMA DeleteUnlinkLists ==
  ASSUME Basic, UnlinksFirst, NEW t \in Threads, DeleteUnlink(t)
  PROVE  \E o \in Objects, g \in Signals, c \in Conns :
           /\ o = Top(t).obj /\ g = Top(t).sig /\ c = Top(t).conn
           /\ lists[o].of[g] # <<>> /\ c = Head(lists[o].of[g])
           /\ \E k \in SomeConnection : /\ k.receiver = None /\ k.ref = conn[c].ref
                                        /\ k.sender = conn[c].sender
                                        /\ DropFirst(o, g, c, k)
           /\ senders' = IF Broken(c) THEN senders ELSE Unlinked(c)
<1>1. At(t, "delete", "unlink")
  BY DEF DeleteUnlink
<1>2. stack[t] # <<>> /\ Top(t).op = "delete" /\ Top(t).at = "unlink" /\ FrameOK(t, Top(t))
      /\ Top(t).obj \in Objects
  BY <1>1, ReturnsFrame
<1>3. Top(t).conn \in Conns /\ Top(t).sig \in Signals
  BY <1>2 DEF FrameOK, DeleteFrame
<1>4. PICK o \in Objects, g \in Signals, c \in Conns :
        o = Top(t).obj /\ g = Top(t).sig /\ c = Top(t).conn
  BY <1>2, <1>3
<1>5. lists[o].of[g] # <<>> /\ c = Head(lists[o].of[g])
  BY <1>2, <1>4 DEF UnlinksFirst
<1>6. PICK k : k = [conn[c] EXCEPT !.receiver = None]
  OBVIOUS
<1>7. k \in SomeConnection /\ k.receiver = None /\ k.ref = conn[c].ref /\ k.sender = conn[c].sender
  BY <1>6, ConnTyped DEF Basic, SomeConnection
<1>8. DropFirst(o, g, c, k) /\ senders' = IF Broken(c) THEN senders ELSE Unlinked(c)
  BY <1>4, <1>6 DEF DeleteUnlink
<1> QED
  BY <1>4, <1>5, <1>7, <1>8

LEMMA DroppedQuiet ==
  ASSUME Typed, NEW o \in Objects, NEW g \in Signals, NEW c \in Conns, NEW k \in SomeConnection,
         lists[o].of[g] # <<>>, DropFirst(o, g, c, k)
  PROVE  \A p \in Objects : /\ lists'[p].at = lists[p].at
                            /\ \A h \in Signals : lists[p].of[h] = <<>> => lists'[p].of[h] = <<>>
BY DropFirstTyped

LEMMA QuietSteps ==
  ASSUME Basic, UnlinksFirst, NEW t \in Threads, Step(t), ~ConnectEnd(t), ~DeleteListsEnd(t),
         NEW o \in Objects
  PROVE  Quiet(o)
<1>1. ASSUME UNCHANGED <<lists, senders>> PROVE Quiet(o)
  BY <1>1 DEF Quiet
<1>2. CASE Lock(t) \/ DisconnectList(t) \/ DisconnectScan(t) \/ DisconnectZero(t)
           \/ EmitLook(t) \/ SlotReturn(t) \/ EmitResume(t) \/ DeliverEnd(t) \/ DeleteBegin(t)
           \/ DeleteSenders(t) \/ DeleteEnd(t)
  BY <1>1, <1>2 DEF Lock, DisconnectList, DisconnectScan, DisconnectZero, EmitLook, SlotReturn,
    EmitResume, DeliverEnd, DeleteBegin, DeleteSenders, DeleteEnd
<1>3. CASE DisconnectBegin(t) \/ EmitBegin(t) \/ DeleteLists(t)
  <2>1. Top(t).obj \in Objects
    BY <1>3, ReturnsFrame DEF DisconnectBegin, EmitBegin, DeleteLists
  <2>2. UNCHANGED senders
        /\ (lists' = lists \/ lists' = [lists EXCEPT ![Top(t).obj] = Enter(lists[Top(t).obj])])
    BY <1>3 DEF DisconnectBegin, EmitBegin, DeleteLists
  <2> QED
    BY <1>1, <2>1, <2>2, EntersLists DEF Basic, Quiet
<1>4. CASE DisconnectEnd(t)
  <2>1. PICK p, b : /\ p = Top(t).obj /\ p \in Objects /\ b \in BOOLEAN
                    /\ lists' = [lists EXCEPT ![p] = Leave(Dirtied(lists[p], b))]
    BY <1>4, DisconnectEndLists
  <2>2. UNCHANGED senders
    BY <1>4 DEF DisconnectEnd
  <2> QED
    BY <2>1, <2>2, LeavesLists DEF Basic, Quiet
<1>5. CASE EmitEnd(t)
  BY <1>5, EmitEndLists, LeavesLists DEF Basic, Quiet, EmitEnd
<1>6. CASE DisconnectUnlink(t)
  <2>1. PICK c : c = Top(t).conn
    OBVIOUS
  <2>2. c \in Conns
    BY <1>6, <2>1, DisconnectUnlinkFrame
  <2>3. UNCHANGED lists /\ senders' = IF Broken(c) THEN senders ELSE Unlinked(c)
    BY <1>6, <2>1 DEF DisconnectUnlink
  <2> QED
    BY <2>2, <2>3, UnlinkedQuiet DEF Basic, Quiet
<1>7. CASE DeleteReceivers(t)
  <2>1. Top(t).obj \in Objects /\ UNCHANGED senders
    BY <1>7, ReturnsFrame DEF DeleteReceivers
  <2>2. PICK s \in Signals, c \in Conns :
          /\ lists[Top(t).obj].of[s] # <<>>
          /\ DropFirst(Top(t).obj, s, c, conn[c]) \/ UNCHANGED <<lists, conn>>
    BY <1>7, DeleteReceiversFrame
  <2>3. conn[c] \in SomeConnection
    BY ConnTyped DEF Basic
  <2>4. CASE DropFirst(Top(t).obj, s, c, conn[c])
    BY <2>1, <2>2, <2>3, <2>4, DroppedQuiet DEF Basic, Quiet
  <2> QED
    BY <1>1, <2>1, <2>2, <2>4
<1>8. CASE DeleteUnlink(t)
  <2>1. PICK p \in Objects, g \in Signals, c \in Conns :
           /\ lists[p].of[g] # <<>>
           /\ \E k \in SomeConnection : DropFirst(p, g, c, k)
           /\ senders' = IF Broken(c) THEN senders ELSE Unlinked(c)
    BY <1>8, DeleteUnlinkLists
  <2>2. /\ lists'[o].at = lists[o].at
        /\ \A h \in Signals : lists[o].of[h] = <<>> => lists'[o].of[h] = <<>>
    BY <2>1, DroppedQuiet DEF Basic
  <2>3. senders[o] = <<>> => senders'[o] = <<>>
    BY <2>1, UnlinkedQuiet DEF Basic
  <2> QED
    BY <2>2, <2>3 DEF Quiet
<1>9. CASE DeleteNode(t)
  <2>1. PICK f : f = Top(t)
    OBVIOUS
  <2>2. f.obj \in Objects /\ f.other \in Objects
    BY <1>9, <2>1, ReturnsFrame DEF DeleteNode, FrameOK, DeleteFrame
  <2>3. CASE NodeGone(f.obj, f.other)
    BY <1>1, <1>9, <2>1, <2>3 DEF DeleteNode
  <2>4. CASE ~NodeGone(f.obj, f.other)
    <3>1. /\ lists' = [lists EXCEPT ![f.other].dirty = @ \/ lists[f.other].at = "used"]
          /\ senders' = [senders EXCEPT ![f.obj] = Tail(@)] /\ senders[f.obj] # <<>>
      BY <1>9, <2>1, <2>4 DEF DeleteNode, NodeGone
    <3>2. lists'[o].at = lists[o].at /\ lists'[o].of = lists[o].of
      BY <2>2, <3>1, ListTyped DEF Basic, Typed, SomeLists
    <3>3. senders[o] = <<>> => senders'[o] = <<>>
      BY <2>2, <3>1 DEF Basic, Typed
    <3> QED
      BY <3>2, <3>3 DEF Quiet
  <2> QED
    BY <2>3, <2>4
<1> QED
  BY <1>2, <1>3, <1>4, <1>5, <1>6, <1>7, <1>8, <1>9 DEF Step

LEMMA QuietCalls ==
  ASSUME Basic, NEW t \in Threads, UserCall(t), NEW o \in Objects
  PROVE  Quiet(o)
<1>1. ASSUME UNCHANGED <<lists, senders>> PROVE Quiet(o)
  BY <1>1 DEF Quiet
<1>2. ASSUME NEW c \in Conns, DisconnectHandle(t, c) PROVE Quiet(o)
  <2>1. PICK s : s = conn[c].sender
    OBVIOUS
  <2>2. /\ ~Broken(c) /\ senders' = Unlinked(c) /\ lists' = [lists EXCEPT ![s].dirty = TRUE]
    BY <1>2, <2>1 DEF DisconnectHandle
  <2>3. lists'[o].at = lists[o].at /\ lists'[o].of = lists[o].of
    BY <2>2, ListTyped DEF Basic, Typed, SomeLists
  <2> QED
    BY <2>2, <2>3, UnlinkedQuiet DEF Basic, Quiet
<1> QED
  BY <1>1, <1>2 DEF UserCall, EmitCall, ConnectCall, DisconnectCall, Deliver, DeleteCall,
    DropHandle

LEMMA TopDeleting ==
  ASSUME Basic, NEW t \in Threads, stack[t] # <<>>, Top(t).op = "delete"
  PROVE  /\ Top(t).obj \in Objects /\ Home[Top(t).obj] = t
         /\ Deleting(Top(t).obj, Len(stack[t]))
         /\ stack[Home[Top(t).obj]][Len(stack[t])] = Top(t)
<1>1. /\ Len(stack[t]) \in DOMAIN stack[t] /\ Top(t) = stack[t][Len(stack[t])]
      /\ Top(t) \in Frame
  BY TopFrame DEF Basic, Typed
<1>2. Top(t).obj \in Objects /\ Home[Top(t).obj] = t
  BY <1>1, TopOK, FrameTyped DEF FrameOK, DeleteFrame
<1> QED
  BY <1>1, <1>2 DEF Deleting

\* A step of a destructor that is quiet
LEMMA ShapeOfDelete ==
  ASSUME Basic, LifeOK, SendersKnown, NEW t \in Threads, Step(t), ~DeleteEnd(t),
         stack[t] # <<>>, Top(t).op = "delete", NEW g, Becomes(t, Top(t), g),
         NEW o \in Objects, ShapeOf(o), Quiet(o),
         o = Top(t).obj => DeletesWell(lists'[o], senders'[o], g.at)
  PROVE  ShapeOf(o)'
<1>1. Moves(t) /\ UNCHANGED life
  BY StepMoves
<1>2. stack'[t][Len(stack[t])] = g
  BY BecomesFrames
<1>3. ASSUME NEW i, Deleting(o, i)'
      PROVE  \/ Deleting(o, i) /\ stack'[Home[o]][i].at = stack[Home[o]][i].at
             \/ DeletesWell(lists'[o], senders'[o], stack'[Home[o]][i].at)
  BY <1>1, <1>2, <1>3, DeletingFrames
<1> QED
  BY <1>1, <1>3, ShapeQuiet, PastNext

LEMMA ShapeOfOther ==
  ASSUME Basic, LifeOK, SendersKnown, NEW t \in Threads, Step(t) \/ UserCall(t),
         Moves(t), UNCHANGED life,
         stack[t] # <<>> => Top(t).op # "delete" \/ Lock(t) \/ UNCHANGED stack,
         NEW o \in Objects, ShapeOf(o), Quiet(o)
  PROVE  ShapeOf(o)'
<1>1. ASSUME NEW i, Deleting(o, i)'
      PROVE  Deleting(o, i) /\ stack'[Home[o]][i].at = stack[Home[o]][i].at
  <2>1. CASE Lock(t)
    <3>1. PICK g \in Frame : Becomes(t, Top(t), g) /\ Alike(Top(t), g)
      BY <2>1, LockFrame
    <3>2. stack'[t][Len(stack[t])] = g /\ stack[t][Len(stack[t])] = Top(t)
      BY <3>1, BecomesFrames
    <3> QED
      BY <1>1, <3>1, <3>2, DeletingFrames DEF Alike
  <2>2. CASE UNCHANGED stack
    BY <1>1, <2>2, DeletingFrames
  <2>3. CASE ~Lock(t) /\ ~UNCHANGED stack
    BY <1>1, <2>3, DeletingFrames
  <2> QED
    BY <2>1, <2>2, <2>3
<1> QED
  BY <1>1, ShapeQuiet, PastNext

LEMMA ShapeDeleteStep ==
  ASSUME Basic, LifeOK, SendersKnown, UnlinksFirst, NEW t \in Threads, NEW o \in Objects, ShapeOf(o),
         \/ DeleteBegin(t) \/ DeleteLists(t) \/ DeleteReceivers(t) \/ DeleteUnlink(t)
         \/ DeleteSenders(t) \/ DeleteNode(t)
  PROVE  ShapeOf(o)'
<1>1. Step(t)
  BY DEF Step
<1>2. stack[t] # <<>> /\ Top(t).op = "delete" /\ Top(t).at # "free"
  BY DEF DeleteBegin, DeleteLists, DeleteReceivers, DeleteUnlink, DeleteSenders, DeleteNode, At
<1>3. ~DeleteEnd(t) /\ ~ConnectEnd(t)
  BY <1>2 DEF DeleteEnd, ConnectEnd, At
<1>4. o = Top(t).obj => DeletesWell(lists[o], senders[o], Top(t).at)
  BY <1>2, TopDeleting DEF ShapeOf
<1>5. CASE DeleteBegin(t)
  <2>0. ~DeleteListsEnd(t) /\ UNCHANGED <<lists, senders>>
    BY <1>5 DEF DeleteBegin, DeleteListsEnd, At
  <2>1. PICK g \in Frame : /\ Becomes(t, Top(t), g)
                           /\ g.at = "lists" \/ (g.at = "free" /\ ~HasConnections(g.obj))
    BY <1>5, DeleteBeginFrame
  <2>2. o = Top(t).obj => DeletesWell(lists[o], senders[o], g.at)
    BY <2>1 DEF DeletesWell, HasConnections, Becomes
  <2> QED
    BY <1>1, <1>2, <1>3, <2>0, <2>1, <2>2, ShapeOfDelete, QuietSteps
<1>6. CASE DeleteLists(t)
  <2>0. ~DeleteListsEnd(t) /\ UNCHANGED senders
    BY <1>6 DEF DeleteLists, DeleteListsEnd, At
  <2>1. PICK g \in Frame : /\ Becomes(t, Top(t), g)
                           /\ g.at = IF lists[g.obj].at = "used" THEN "receivers" ELSE "senders"
    BY <1>6, DeleteListsFrame
  <2>2. lists'[o].at = lists[o].at
    <3>1. Top(t).obj \in Objects
      BY <1>2, TopDeleting
    <3>2. lists' = lists \/ lists' = [lists EXCEPT ![Top(t).obj] = Enter(lists[Top(t).obj])]
      BY <1>6 DEF DeleteLists
    <3> QED
      BY <3>1, <3>2, EntersLists DEF Basic
  <2>3. o = Top(t).obj => DeletesWell(lists'[o], senders'[o], g.at)
    BY <2>1, <2>2 DEF DeletesWell, Becomes
  <2> QED
    BY <1>1, <1>2, <1>3, <2>0, <2>1, <2>3, ShapeOfDelete, QuietSteps
<1>7. CASE DeleteReceivers(t) /\ ~DeleteListsEnd(t)
  <2>1. Quiet(o) /\ UNCHANGED <<senders, life>>
    BY <1>1, <1>3, <1>7, QuietSteps DEF DeleteReceivers
  <2>2. Top(t).at = "receivers"
    BY <1>7, DeleteReceiversFrame
  <2>3. \/ UNCHANGED stack
        \/ \E g : Becomes(t, Top(t), g) /\ g.at = "unlink" /\ UNCHANGED lists
    BY <1>7, DeleteReceiversFrame
  <2>4. CASE UNCHANGED stack
    BY <1>1, <2>1, <2>4, ShapeOfOther DEF Moves
  <2>5. CASE \E g : Becomes(t, Top(t), g) /\ g.at = "unlink" /\ UNCHANGED lists
    <3>1. PICK g : Becomes(t, Top(t), g) /\ g.at = "unlink" /\ UNCHANGED lists
      BY <2>5
    <3>2. o = Top(t).obj => DeletesWell(lists'[o], senders'[o], g.at)
      BY <1>4, <2>2, <3>1 DEF DeletesWell
    <3> QED
      BY <1>1, <1>2, <1>3, <2>1, <3>1, <3>2, ShapeOfDelete
  <2> QED
    BY <2>3, <2>4, <2>5
<1>8. CASE DeleteUnlink(t)
  <2>0. ~DeleteListsEnd(t) /\ Top(t).at = "unlink"
    BY <1>8 DEF DeleteUnlink, DeleteListsEnd, At
  <2>1. PICK g \in Frame : Becomes(t, Top(t), g) /\ g.at = "receivers"
    BY <1>8, DeleteUnlinkFrame
  <2>2. Quiet(o)
    BY <1>1, <1>3, <2>0, QuietSteps
  <2>3. o = Top(t).obj => DeletesWell(lists'[o], senders'[o], g.at)
    BY <1>4, <2>0, <2>1, <2>2 DEF DeletesWell, Quiet
  <2> QED
    BY <1>1, <1>2, <1>3, <2>1, <2>2, <2>3, ShapeOfDelete
<1>9. CASE DeleteSenders(t)
  <2>0. ~DeleteListsEnd(t) /\ UNCHANGED <<lists, senders>> /\ Top(t).at = "senders"
    BY <1>9 DEF DeleteSenders, DeleteListsEnd, At
  <2>1. PICK g \in Frame : /\ Becomes(t, Top(t), g)
                           /\ g.at = "node" \/ (g.at = "free" /\ senders[g.obj] = <<>>)
    BY <1>2, <1>9, DeleteSendersFrame, TopDeleting DEF SendersKnown
  <2>2. o = Top(t).obj => DeletesWell(lists'[o], senders'[o], g.at)
    BY <1>4, <2>0, <2>1 DEF DeletesWell, Becomes
  <2> QED
    BY <1>1, <1>2, <1>3, <2>0, <2>1, <2>2, ShapeOfDelete, QuietSteps
<1>10. CASE DeleteNode(t)
  <2>0. ~DeleteListsEnd(t) /\ Top(t).at = "node"
    BY <1>10 DEF DeleteNode, DeleteListsEnd, At
  <2>1. PICK g \in Frame : Becomes(t, Top(t), g) /\ g.at = "senders"
    BY <1>10, DeleteNodeFrame
  <2>2. Quiet(o)
    BY <1>1, <1>3, <2>0, QuietSteps
  <2>3. o = Top(t).obj => DeletesWell(lists'[o], senders'[o], g.at)
    BY <1>4, <2>0, <2>1, <2>2 DEF DeletesWell, Quiet
  <2> QED
    BY <1>1, <1>2, <1>3, <2>1, <2>2, <2>3, ShapeOfDelete
<1>11. ~(DeleteReceivers(t) /\ DeleteListsEnd(t))
  <2> SUFFICES ASSUME DeleteReceivers(t), DeleteListsEnd(t) PROVE FALSE
    OBVIOUS
  <2>1. PICK s \in Signals, c \in Conns :
          lists[Top(t).obj].of[s] # <<>> /\ c = Head(lists[Top(t).obj].of[s])
    BY DeleteReceiversFrame
  <2>2. lists[Top(t).obj].of[s] \in Seq(Conns)
    BY <1>2, TopDeleting, ListTyped DEF Basic
  <2>3. InSome(lists[Top(t).obj]) = {}
    BY DEF DeleteListsEnd
  <2>4. PICK q : q = lists[Top(t).obj].of[s]
    OBVIOUS
  <2>5. Head(q) \in ToSet(q)
    BY <2>1, <2>2, <2>4, HeadAndTail
  <2>6. ToSet(q) \subseteq InSome(lists[Top(t).obj])
    BY <2>4 DEF InSome
  <2> QED
    BY <2>3, <2>5, <2>6
<1> QED
  BY <1>5, <1>6, <1>7, <1>8, <1>9, <1>10, <1>11

LEMMA DeleteListsEndLists ==
  ASSUME Basic, ListsShape, NEW t \in Threads, DeleteListsEnd(t)
  PROVE  \E o \in Objects :
           /\ o = Top(t).obj /\ lists[o].at = "used" /\ Home[o] = t
           /\ \A p \in Objects : p # o => lists'[p] = lists[p]
           /\ \A g \in Signals : lists[o].of[g] = <<>> /\ lists'[o].of[g] = <<>>
           /\ IF lists[o].inUse = 1
                THEN lists'[o].at = "deleted" /\ lists'[o].inUse = 0
                ELSE lists'[o].at = "orphaned" /\ lists'[o].inUse = lists[o].inUse - 1
<1>1. PICK o : o = Top(t).obj
  OBVIOUS
<1>2. At(t, "delete", "receivers")
  BY DEF DeleteListsEnd
<1>3. /\ stack[t] # <<>> /\ Top(t).op = "delete" /\ Top(t).at = "receivers"
  BY <1>2, ReturnsFrame
<1>4. o \in Objects /\ Home[o] = t /\ lists[o].at = "used"
  BY <1>1, <1>3, TopDeleting DEF ListsShape, ShapeOf, DeletesWell
<1>5. lists[o] \in SomeLists
  BY <1>4, ListTyped DEF Basic
<1>6. PICK v : v = [lists[o] EXCEPT !.at = "orphaned"]
  OBVIOUS
<1>7. v \in SomeLists /\ v.at = "orphaned" /\ v.inUse = lists[o].inUse /\ v.of = lists[o].of
  BY <1>5, <1>6 DEF SomeLists
<1>8. PICK w : w = Leave(v)
  OBVIOUS
<1>9. /\ w \in SomeLists
      /\ v.inUse # 1 => w.at = v.at /\ w.inUse = v.inUse - 1 /\ w.of = v.of
      /\ v.inUse = 1 => w.at = "deleted" /\ w.inUse = 0 /\ \A g \in Signals : w.of[g] = <<>>
  BY <1>7, <1>8, LeaveTyped
<1>10. lists' = [lists EXCEPT ![o] = w] /\ InSome(lists[o]) = {}
  BY <1>1, <1>6, <1>8 DEF DeleteListsEnd
<1>11. lists'[o] = w /\ \A p \in Objects : p # o => lists'[p] = lists[p]
  BY <1>4, <1>9, <1>10, ChangedLists DEF Basic
<1>12. ASSUME NEW g \in Signals PROVE lists[o].of[g] = <<>>
  <2>1. PICK q : q = lists[o].of[g]
    OBVIOUS
  <2>2. q \in Seq(Conns)
    BY <1>4, <2>1, ListTyped DEF Basic
  <2>3. q # <<>> => Head(q) \in ToSet(q)
    BY <2>2, HeadAndTail
  <2>4. ToSet(q) \subseteq InSome(lists[o])
    BY <2>1 DEF InSome
  <2> QED
    BY <1>10, <2>1, <2>3, <2>4
<1> QED
  BY <1>1, <1>4, <1>7, <1>9, <1>11, <1>12

LEMMA ShapeListsEnd ==
  ASSUME Basic, LifeOK, SendersKnown, ListsShape, NEW t \in Threads, DeleteListsEnd(t)
  PROVE  ListsShape'
<1> SUFFICES ASSUME NEW p \in Objects PROVE ShapeOf(p)'
  BY DEF ListsShape
<1>1. PICK o \in Objects :
           /\ o = Top(t).obj /\ lists[o].at = "used" /\ Home[o] = t
           /\ \A x \in Objects : x # o => lists'[x] = lists[x]
           /\ \A g \in Signals : lists'[o].of[g] = <<>>
           /\ lists'[o].at \in {"deleted", "orphaned"}
  BY DeleteListsEndLists
<1>2. PICK g \in Frame : Becomes(t, Top(t), g) /\ g.at = "senders" /\ Top(t).op = "delete"
                         /\ Top(t).at = "receivers"
  BY DeleteListsEndFrame
<1>3. Step(t) /\ ~DeleteEnd(t) /\ stack[t] # <<>> /\ UNCHANGED senders
  BY DEF Step, DeleteListsEnd, DeleteEnd, At
<1>4. Moves(t) /\ UNCHANGED life /\ (Past(o) => Past(o)')
  BY <1>3, StepMoves, PastNext
<1>5. CASE p # o
  <2>1. Quiet(p)
    BY <1>1, <1>3, <1>5 DEF Quiet
  <2> QED
    BY <1>1, <1>2, <1>3, <1>5, <2>1, ShapeOfDelete DEF ListsShape
<1>6. CASE p = o
  <2>1. Deleting(o, Len(stack[t])) /\ stack[Home[o]][Len(stack[t])] = Top(t)
    BY <1>1, <1>2, <1>3, TopDeleting
  <2>2. Past(o)
    BY <1>2, <2>1 DEF Past
  <2>3. life'[o] # "dead"
    BY <1>4, <2>1 DEF LifeOK
  <2>4. ASSUME NEW i, Deleting(o, i)' PROVE stack'[Home[o]][i].at = "senders"
    <3>1. Deleting(o, i)
      BY <1>4, <2>4, DeletingMoves
    <3>2. i = Len(stack[t])
      BY <2>1, <3>1 DEF LifeOK
    <3> QED
      BY <1>1, <1>2, <3>2, BecomesFrames
  <2> QED
    BY <1>1, <1>4, <1>6, <2>2, <2>3, <2>4 DEF ShapeOf, DeletesWell
<1> QED
  BY <1>5, <1>6

\* A connect that ends: who it connects
LEMMA ConnectTop ==
  ASSUME Basic, NEW t \in Threads, ConnectEnd(t)
  PROVE  \E f \in Frame :
           /\ f = Top(t) /\ stack[t] # <<>> /\ Returns(t) /\ f.op = "connect" /\ f.at = "begin"
           /\ f.obj \in Objects /\ f.other \in Objects /\ f.sig \in Signals /\ f.conn \in Conns
           /\ f = stack[t][Len(stack[t])] /\ Len(stack[t]) \in DOMAIN stack[t]
           /\ UNCHANGED life
<1>1. PICK f : f = Top(t)
  OBVIOUS
<1>2. At(t, "connect", "begin") /\ Returns(t) /\ UNCHANGED life
  BY DEF ConnectEnd
<1>3. /\ stack[t] # <<>> /\ f \in Frame /\ f.obj \in Objects /\ f.other \in Objects
      /\ f.sig \in Signals /\ f.conn \in Conns /\ f.op = "connect" /\ f.at = "begin"
  BY <1>1, <1>2, AtTop, FrameTyped DEF FrameOK, ConnectFrame
<1> QED
  BY <1>1, <1>2, <1>3, TopFrame DEF Basic, Typed

\* What a connect that makes a connection does
Connects(f) ==
  LET v == lists[f.obj] IN
  /\ \A o \in Objects : o # f.obj => lists'[o] = lists[o]
  /\ lists'[f.obj].at = "used" /\ lists'[f.obj].inUse = v.inUse
  /\ lists'[f.obj].dirty = (v.dirty /\ ~Cleans(v))
  /\ \A g \in Signals : lists'[f.obj].of[g] =
       IF g = f.sig THEN Append(Without(v.of[g], Cleaned(v)), f.conn)
                    ELSE Without(v.of[g], Cleaned(v))
  /\ \A o \in Objects : o # f.other => senders'[o] = senders[o]
  /\ senders'[f.other] = <<f.conn>> \o senders[f.other]
  /\ conn'[f.conn] = NewConnection(f.conn, f.obj, f.other)
  /\ \A c \in Conns : c # f.conn =>
       conn'[c] = IF c \in Cleaned(v) THEN Deref(conn[c]) ELSE conn[c]
  /\ handles' = handles \cup (Kept \cap {f.conn})

LEMMA ConnectEndLists ==
  ASSUME Basic, NEW t \in Threads, ConnectEnd(t)
  PROVE  UNCHANGED <<lists, senders, conn, handles>> \/ Connects(Top(t))
<1> SUFFICES ASSUME ~UNCHANGED <<lists, senders, conn, handles>>
             PROVE  Connects(Top(t))
  OBVIOUS
<1>1. PICK f \in Frame :
           /\ f = Top(t) /\ f.obj \in Objects /\ f.other \in Objects /\ f.sig \in Signals
           /\ f.conn \in Conns
  BY ConnectTop
<1>2. PICK v : v = lists[f.obj]
  OBVIOUS
<1>3. /\ conn' = [c \in Conns |->
           IF c = f.conn THEN NewConnection(c, f.obj, f.other)
           ELSE IF c \in Cleaned(v) THEN Deref(conn[c]) ELSE conn[c]]
      /\ handles' = handles \cup (Kept \cap {f.conn})
      /\ lists' = [lists EXCEPT ![f.obj] =
           [Clean(v) EXCEPT !.at = "used", !.of[f.sig] = Append(@, f.conn)]]
      /\ senders' = [senders EXCEPT ![f.other] = <<f.conn>> \o @]
  BY <1>1, <1>2 DEF ConnectEnd
<1>4. PICK w : w = Clean(v)
  OBVIOUS
<1>5. /\ w \in SomeLists /\ w.of \in [Signals -> Seq(Conns)] /\ w.inUse = v.inUse
      /\ w.dirty = (v.dirty /\ ~Cleans(v))
      /\ \A g \in Signals : w.of[g] = Without(v.of[g], Cleaned(v))
  BY <1>1, <1>2, <1>4, CleanTyped, ListTyped DEF Basic
<1>6. PICK q : q = Append(w.of[f.sig], f.conn)
  OBVIOUS
<1>7. q \in Seq(Conns)
  BY <1>1, <1>5, <1>6
<1>8. PICK x : x = [w EXCEPT !.at = "used", !.of[f.sig] = q]
  OBVIOUS
<1>9. /\ x \in SomeLists /\ x.at = "used" /\ x.inUse = w.inUse /\ x.dirty = w.dirty
      /\ \A g \in Signals : x.of[g] = IF g = f.sig THEN q ELSE w.of[g]
  BY <1>1, <1>5, <1>7, <1>8 DEF SomeLists
<1>10. lists' = [lists EXCEPT ![f.obj] = x]
  BY <1>3, <1>4, <1>6, <1>8
<1>11. lists'[f.obj] = x /\ \A o \in Objects : o # f.obj => lists'[o] = lists[o]
  BY <1>1, <1>9, <1>10, ChangedLists DEF Basic
<1>12. \A g \in Signals : lists'[f.obj].of[g] =
         IF g = f.sig THEN Append(Without(v.of[g], Cleaned(v)), f.conn)
                      ELSE Without(v.of[g], Cleaned(v))
  BY <1>5, <1>6, <1>9, <1>11
<1>13. /\ \A o \in Objects : o # f.other => senders'[o] = senders[o]
       /\ senders'[f.other] = <<f.conn>> \o senders[f.other]
  BY <1>1, <1>3 DEF Basic, Typed
<1>14. /\ conn'[f.conn] = NewConnection(f.conn, f.obj, f.other)
       /\ \A c \in Conns : c # f.conn =>
            conn'[c] = IF c \in Cleaned(v) THEN Deref(conn[c]) ELSE conn[c]
  BY <1>1, <1>3
<1>15. Connects(f)
  <2>1. /\ lists'[f.obj].at = "used" /\ lists'[f.obj].inUse = v.inUse
        /\ lists'[f.obj].dirty = (v.dirty /\ ~Cleans(v))
    BY <1>5, <1>9, <1>11
  <2>2. /\ \A o \in Objects : o # f.obj => lists'[o] = lists[o]
        /\ lists'[f.obj].at = "used" /\ lists'[f.obj].inUse = lists[f.obj].inUse
        /\ lists'[f.obj].dirty = (lists[f.obj].dirty /\ ~Cleans(lists[f.obj]))
    BY <1>2, <1>11, <2>1, Zenon
  <2>3. \A g \in Signals : lists'[f.obj].of[g] =
          IF g = f.sig THEN Append(Without(lists[f.obj].of[g], Cleaned(lists[f.obj])), f.conn)
                       ELSE Without(lists[f.obj].of[g], Cleaned(lists[f.obj]))
    BY <1>2, <1>12, Zenon
  <2>4. \A c \in Conns : c # f.conn =>
          conn'[c] = IF c \in Cleaned(lists[f.obj]) THEN Deref(conn[c]) ELSE conn[c]
    BY <1>2, <1>14, Zenon
  <2> QED
    BY <1>3, <1>13, <1>14, <2>2, <2>3, <2>4, Zenon DEF Connects
<1> QED
  BY <1>1, <1>15

LEMMA WithoutEmpty ==
  ASSUME NEW S
  PROVE  Without(<<>>, S) = <<>>
<1>1. PICK q : q = <<>>
  OBVIOUS
<1>2. q \in Seq({})
  BY <1>1
<1>3. PICK w : w = Without(q, S)
  OBVIOUS
<1>4. w \in Seq({})
  BY <1>2, <1>3, WithoutElements
<1>5. w = <<>>
  BY <1>4
<1> QED
  BY <1>1, <1>3, <1>5

\* The objects that a connect names are not past the begin of their destructors.
LEMMA ConnectNames ==
  ASSUME Basic, LifeOK, NamedLive, NEW t \in Threads, ConnectEnd(t)
  PROVE  /\ ~Past(Top(t).obj) /\ ~Past(Top(t).other)
         /\ Top(t).obj \in Objects /\ Top(t).other \in Objects
<1>1. PICK f \in Frame :
           /\ f = Top(t) /\ stack[t] # <<>> /\ f.op = "connect"
           /\ f.obj \in Objects /\ f.other \in Objects
           /\ f = stack[t][Len(stack[t])] /\ Len(stack[t]) \in DOMAIN stack[t]
  BY ConnectTop
<1>2. Lively(life, t, f)
  BY <1>1 DEF NamedLive
<1>3. UsableIn(life, t, f.obj) /\ UsableIn(life, t, f.other)
  BY <1>1, <1>2, NoneElsewhere DEF Lively
<1>4. Usable(t, f.obj) /\ Usable(t, f.other)
  BY <1>3 DEF Usable, UsableIn
<1>5. ~Past(f.obj) /\ ~Past(f.other)
  BY <1>1, <1>4, UsableNotPast
<1> QED
  BY <1>1, <1>5

LEMMA ShapeConnect ==
  ASSUME Basic, LifeOK, NamedLive, SendersKnown, ListsShape, NEW t \in Threads, ConnectEnd(t),
         NEW o \in Objects
  PROVE  ShapeOf(o)'
<1>1. PICK f \in Frame : f = Top(t) /\ stack[t] # <<>> /\ f.op = "connect" /\ Returns(t)
  BY ConnectTop
<1>2. Step(t) /\ Moves(t) /\ UNCHANGED life
  BY <1>1, ConnectTop DEF Step, Moves, Pops
<1>3. ShapeOf(o)
  BY DEF ListsShape
<1>4. CASE UNCHANGED <<lists, senders>>
  BY <1>1, <1>2, <1>3, <1>4, ShapeOfOther DEF Quiet
<1>5. CASE Connects(f)
  <2>1. CASE o \notin {f.obj, f.other}
    <3>1. Quiet(o)
      BY <1>5, <2>1 DEF Quiet, Connects
    <3> QED
      BY <1>1, <1>2, <1>3, <3>1, ShapeOfOther
  <2>2. CASE o \in {f.obj, f.other}
    <3>1. ~Past(o)
      BY <1>1, <2>2, ConnectNames
    <3>2. lists[o].at \notin {"orphaned", "deleted"} /\ life[o] # "dead"
      BY <1>3, <3>1 DEF ShapeOf, Past
    <3>3. lists'[o].at = "used" \/ lists'[o] = lists[o]
      BY <1>5 DEF Connects
    <3>4. lists'[o].at # "used" => \A g \in Signals : lists'[o].of[g] = <<>>
      BY <1>3, <3>3 DEF ShapeOf
    <3>5. ASSUME NEW i, Deleting(o, i)'
          PROVE  stack'[Home[o]][i].at = "begin"
      <4>1. Deleting(o, i) /\ stack'[Home[o]][i] = stack[Home[o]][i]
        BY <1>1, <1>2, <3>5, DeletingFrames
      <4> QED
        BY <3>1, <4>1 DEF Past
    <3> QED
      BY <1>2, <3>2, <3>3, <3>4, <3>5 DEF ShapeOf, DeletesWell
  <2> QED
    BY <2>1, <2>2
<1> QED
  BY <1>1, <1>4, <1>5, ConnectEndLists

LEMMA ShapeDeleteEnd ==
  ASSUME Basic, LifeOK, ListsShape, NEW t \in Threads, DeleteEnd(t), NEW o \in Objects
  PROVE  ShapeOf(o)'
<1>1. UNCHANGED <<lists, senders>> /\ Returns(t) /\ stack[t] # <<>>
  BY DEF DeleteEnd, At
<1>2. /\ Past(o)' <=> Past(o)
      /\ Top(t).op = "delete" /\ Top(t).at = "free" /\ Top(t).obj \in Objects
      /\ o # Top(t).obj => life'[o] = life[o]
  BY DeleteEndLife
<1>3. ASSUME NEW i, Deleting(o, i)'
      PROVE  Deleting(o, i) /\ stack'[Home[o]][i] = stack[Home[o]][i]
  BY <1>1, <1>3, ReturnsFrames, HomeTyped DEF Deleting
<1>4. ShapeOf(o)
  BY DEF ListsShape
<1>5. life'[o] = "dead" => lists[o].at # "used" /\ senders[o] = <<>>
  <2>1. CASE o # Top(t).obj
    BY <1>2, <1>4, <2>1 DEF ShapeOf
  <2>2. CASE o = Top(t).obj
    <3>1. Deleting(o, Len(stack[t])) /\ stack[Home[o]][Len(stack[t])] = Top(t)
      BY <1>1, <1>2, <2>2, TopDeleting
    <3> QED
      BY <1>2, <1>4, <3>1 DEF ShapeOf, DeletesWell
  <2> QED
    BY <2>1, <2>2
<1> QED
  BY <1>1, <1>2, <1>3, <1>4, <1>5 DEF ShapeOf

LEMMA ShapeDeleteCall ==
  ASSUME Basic, LifeOK, ListsShape, NEW t \in Threads, NEW p \in Objects, DeleteCall(t, p),
         NEW o \in Objects
  PROVE  ShapeOf(o)'
<1>1. UNCHANGED <<lists, senders>>
  BY DEF DeleteCall
<1>2. /\ Past(o)' <=> Past(o)
      /\ life'[o] = "dead" => life[o] = "dead"
  BY DeleteCallLife, DeleteCallFrames
<1>3. ASSUME NEW i, Deleting(o, i)'
      PROVE  \/ Deleting(o, i) /\ stack'[Home[o]][i] = stack[Home[o]][i]
             \/ stack'[Home[o]][i].at = "begin"
  BY <1>3, DeleteCallFrames, HomeTyped DEF Deleting
<1>4. ShapeOf(o)
  BY DEF ListsShape
<1> QED
  BY <1>1, <1>2, <1>3, <1>4 DEF ShapeOf, DeletesWell

LEMMA ShapeNext ==
  ASSUME Basic, LifeOK, NamedLive, SendersKnown, UnlinksFirst, ListsShape,
         NEW t \in Threads, Step(t) \/ UserCall(t)
  PROVE  ListsShape'
<1> SUFFICES ASSUME NEW o \in Objects PROVE ShapeOf(o)'
  BY DEF ListsShape
<1>1. ShapeOf(o)
  BY DEF ListsShape
<1>2. CASE UserCall(t)
  <2>1. CASE \E p \in Objects : DeleteCall(t, p)
    BY <2>1, ShapeDeleteCall
  <2>2. CASE ~\E p \in Objects : DeleteCall(t, p)
    BY <1>1, <1>2, <2>2, CallMoves, UserCodeTop, QuietCalls, ShapeOfOther
  <2> QED
    BY <2>1, <2>2
<1>3. CASE ConnectEnd(t)
  BY <1>3, ShapeConnect
<1>4. CASE DeleteListsEnd(t)
  BY <1>4, ShapeListsEnd DEF ListsShape
<1>5. CASE DeleteEnd(t)
  BY <1>5, ShapeDeleteEnd
<1>6. CASE \/ DeleteBegin(t) \/ DeleteLists(t) \/ DeleteReceivers(t) \/ DeleteUnlink(t)
           \/ DeleteSenders(t) \/ DeleteNode(t)
  BY <1>1, <1>6, ShapeDeleteStep
<1>7. CASE Step(t) /\ ~ConnectEnd(t) /\ ~DeleteListsEnd(t) /\ ~DeleteEnd(t)
           /\ ~(\/ DeleteBegin(t) \/ DeleteLists(t) \/ DeleteReceivers(t) \/ DeleteUnlink(t)
                \/ DeleteSenders(t) \/ DeleteNode(t))
  <2>1. stack[t] # <<>> => Top(t).op # "delete" \/ Lock(t)
    <3>1. CASE Lock(t)
      BY <3>1
    <3>2. CASE ~Lock(t)
      BY <1>7, <3>2 DEF Step, DisconnectBegin, DisconnectList, DisconnectScan,
        DisconnectUnlink, DisconnectZero, DisconnectEnd, EmitBegin, EmitLook, SlotReturn,
        EmitResume, EmitEnd, DeliverEnd, At
    <3> QED
      BY <3>1, <3>2
  <2>2. Quiet(o) /\ Moves(t) /\ UNCHANGED life
    BY <1>7, QuietSteps, StepMoves
  <2> QED
    BY <1>1, <1>7, <2>1, <2>2, ShapeOfOther
<1> QED
  BY <1>2, <1>3, <1>4, <1>5, <1>6, <1>7

-----------------------------------------------------------------------------
(* inUse counts the functions that use the lists.                          *)

InUse(f) ==
  \/ f.op = "emit" /\ f.at # "begin"
  \/ f.op = "disconnect" /\ f.at # "begin"
  \/ f.op = "delete" /\ f.at \in {"receivers", "unlink"}
Using(o, t, i) == t \in Threads /\ i \in DOMAIN stack[t] /\ Uses(stack[t][i], o)
Counted(v, U) ==
  /\ IsFiniteSet(U) /\ v.inUse = Cardinality(U)
  /\ v.at \in {"none", "deleted"} => U = {}
  /\ v.at = "orphaned" => U # {}
UsersOK == \A o \in Objects : Counted(lists[o], Users(o))

LEMMA UsesInUse ==
  ASSUME NEW f, NEW o
  PROVE  Uses(f, o) <=> f.obj = o /\ InUse(f)
BY DEF Uses, InUse

LEMMA UsersAre ==
  ASSUME NEW o, NEW t, NEW i
  PROVE  <<t, i>> \in Users(o) <=> Using(o, t, i)
BY DEF Users, Using

LEMMA UsersSame ==
  ASSUME NEW o, \A t, i : Using(o, t, i)' <=> Using(o, t, i)
  PROVE  Users(o)' = Users(o)
BY DEF Users, Using

LEMMA UsersMore ==
  ASSUME NEW o, NEW u, NEW n, \A t, i : Using(o, t, i)' <=> Using(o, t, i) \/ (t = u /\ i = n)
  PROVE  Users(o)' = Users(o) \cup {<<u, n>>}
<1>1. u \in Threads /\ n \in DOMAIN stack'[u] /\ Uses(stack'[u][n], o)
  BY DEF Using
<1>2. \A x : x \in Users(o)' <=> \E t, i : x = <<t, i>> /\ Using(o, t, i)'
  BY DEF Users, Using
<1>3. \A x : x \in Users(o) <=> \E t, i : x = <<t, i>> /\ Using(o, t, i)
  BY DEF Users, Using
<1> QED
  BY <1>2, <1>3

LEMMA UsersLess ==
  ASSUME NEW o, NEW u, NEW n, \A t, i : Using(o, t, i)' <=> Using(o, t, i) /\ ~(t = u /\ i = n)
  PROVE  Users(o)' = Users(o) \ {<<u, n>>}
<1>2. \A x : x \in Users(o)' <=> \E t, i : x = <<t, i>> /\ Using(o, t, i)'
  BY DEF Users, Using
<1>3. \A x : x \in Users(o) <=> \E t, i : x = <<t, i>> /\ Using(o, t, i)
  BY DEF Users, Using
<1> QED
  BY <1>2, <1>3

\* The users after a step of thread t whose function is at f before, and at g
\* after
UsersGo(t, o, f, g) ==
  /\ o # f.obj \/ (InUse(f) <=> InUse(g)) => Users(o)' = Users(o)
  /\ o = f.obj /\ InUse(g) /\ ~InUse(f) => /\ Users(o)' = Users(o) \cup {<<t, Len(stack[t])>>}
                                           /\ <<t, Len(stack[t])>> \notin Users(o)
  /\ o = f.obj /\ InUse(f) /\ ~InUse(g) => /\ Users(o)' = Users(o) \ {<<t, Len(stack[t])>>}
                                           /\ <<t, Len(stack[t])>> \in Users(o)

LEMMA UsersBecome ==
  ASSUME Basic, NEW t \in Threads, NEW f, NEW g, Becomes(t, f, g), NEW o
  PROVE  UsersGo(t, o, f, g)
<1>0. PICK n : n = Len(stack[t])
  OBVIOUS
<1>1. f.obj = g.obj
  BY DEF Becomes
<1>2. Using(o, t, n) <=> f.obj = o /\ InUse(f)
  BY <1>0, BecomesFrames, UsesInUse DEF Using
<1>3. Using(o, t, n)' <=> g.obj = o /\ InUse(g)
  BY <1>0, BecomesFrames, UsesInUse DEF Using
<1>4. \A u, i : ~(u = t /\ i = n) => (Using(o, u, i)' <=> Using(o, u, i))
  BY <1>0, BecomesFrames DEF Using
<1>5. <<t, n>> \in Users(o) <=> Using(o, t, n)
  BY UsersAre
<1>6. CASE o # f.obj \/ (InUse(f) <=> InUse(g))
  <2>1. \A u, i : Using(o, u, i)' <=> Using(o, u, i)
    BY <1>1, <1>2, <1>3, <1>4, <1>6
  <2>2. Users(o)' = Users(o)
    BY <2>1, UsersSame
  <2> QED
    BY <1>6, <2>2 DEF UsersGo
<1>7. CASE o = f.obj /\ InUse(g) /\ ~InUse(f)
  <2>1. \A u, i : Using(o, u, i)' <=> Using(o, u, i) \/ (u = t /\ i = n)
    BY <1>1, <1>2, <1>3, <1>4, <1>7
  <2>2. Users(o)' = Users(o) \cup {<<t, n>>} /\ <<t, n>> \notin Users(o)
    BY <1>2, <1>5, <1>7, <2>1, UsersMore
  <2> QED
    BY <1>0, <1>7, <2>2 DEF UsersGo
<1>8. CASE o = f.obj /\ InUse(f) /\ ~InUse(g)
  <2>1. \A u, i : Using(o, u, i)' <=> Using(o, u, i) /\ ~(u = t /\ i = n)
    BY <1>1, <1>2, <1>3, <1>4, <1>8
  <2>2. Users(o)' = Users(o) \ {<<t, n>>} /\ <<t, n>> \in Users(o)
    BY <1>2, <1>5, <1>8, <2>1, UsersLess
  <2> QED
    BY <1>0, <1>8, <2>2 DEF UsersGo
<1> QED
  BY <1>6, <1>7, <1>8

LEMMA UsersReturn ==
  ASSUME Basic, NEW t \in Threads, stack[t] # <<>>, Returns(t), NEW o
  PROVE  /\ o # Top(t).obj \/ ~InUse(Top(t)) => Users(o)' = Users(o)
         /\ o = Top(t).obj /\ InUse(Top(t)) => /\ Users(o)' = Users(o) \ {<<t, Len(stack[t])>>}
                                               /\ <<t, Len(stack[t])>> \in Users(o)
<1>0. PICK n : n = Len(stack[t])
  OBVIOUS
<1>2. Using(o, t, n) <=> Top(t).obj = o /\ InUse(Top(t))
  BY <1>0, ReturnsFrames, UsesInUse DEF Using
<1>4. \A u, i : Using(o, u, i)' <=> Using(o, u, i) /\ ~(u = t /\ i = n)
  BY <1>0, ReturnsFrames DEF Using
<1>5. <<t, n>> \in Users(o) <=> Using(o, t, n)
  BY UsersAre
<1>6. CASE o # Top(t).obj \/ ~InUse(Top(t))
  <2>1. \A u, i : Using(o, u, i)' <=> Using(o, u, i)
    BY <1>2, <1>4, <1>6
  <2>2. Users(o)' = Users(o)
    BY <2>1, UsersSame
  <2> QED
    BY <1>6, <2>2
<1>8. CASE o = Top(t).obj /\ InUse(Top(t))
  <2>2. Users(o)' = Users(o) \ {<<t, n>>} /\ <<t, n>> \in Users(o)
    BY <1>2, <1>4, <1>5, <1>8, UsersLess
  <2> QED
    BY <1>0, <1>8, <2>2
<1> QED
  BY <1>6, <1>8

LEMMA UsersPush ==
  ASSUME Basic, NEW t \in Threads, NEW g \in Frame, Enters(t, g), ~InUse(g), NEW o
  PROVE  Users(o)' = Users(o)
<1>1. \A u, i : Using(o, u, i)' <=> Using(o, u, i)
  BY EntersFrames, UsesInUse DEF Using
<1> QED
  BY <1>1, UsersSame

LEMMA UsersDeleteCall ==
  ASSUME Basic, NEW t \in Threads, NEW p \in Objects, DeleteCall(t, p), NEW o
  PROVE  Users(o)' = Users(o)
<1>1. \A f : /\ f.op = "delete" /\ f.at = "begin" => ~Uses(f, o)
             /\ f.op = "emit" /\ f.at = "begin" => ~Uses(f, o)
  BY DEF Uses
<1>2. \A u, i : Using(o, u, i)' <=> Using(o, u, i)
  BY <1>1, DeleteCallFrames DEF Using
<1> QED
  BY <1>2, UsersSame

\* A function begins and ends to use the lists.
LEMMA CountedEnter ==
  ASSUME NEW v, NEW w, NEW U, NEW x, Counted(v, U), x \notin U, v.at \in {"used", "orphaned"},
         w.at = v.at, w.inUse = v.inUse + 1
  PROVE  Counted(w, U \cup {x})
<1>1. IsFiniteSet(U \cup {x}) /\ Cardinality(U \cup {x}) = Cardinality(U) + 1
  BY FS_AddElement DEF Counted
<1> QED
  BY <1>1 DEF Counted

LEMMA CountedLeave ==
  ASSUME NEW v, NEW w, NEW U, NEW x, Counted(v, U), x \in U,
         IF v.inUse = 1 /\ v.at = "orphaned" THEN w.at = "deleted" /\ w.inUse = 0
                                            ELSE w.at = v.at /\ w.inUse = v.inUse - 1
  PROVE  Counted(w, U \ {x})
<1>1. /\ IsFiniteSet(U \ {x}) /\ Cardinality(U \ {x}) = Cardinality(U) - 1
      /\ Cardinality(U) \in Nat /\ Cardinality(U \ {x}) \in Nat
  BY FS_RemoveElement, FS_CardinalityType DEF Counted
<1>2. U \ {x} = {} <=> Cardinality(U \ {x}) = 0
  BY <1>1, FS_EmptySet
<1> QED
  BY <1>1, <1>2 DEF Counted

\* What most steps do to the lists of o, as far as their use is concerned
SameUse(o) == lists'[o].at = lists[o].at /\ lists'[o].inUse = lists[o].inUse
Uninvolved(o) == SameUse(o) /\ Users(o)' = Users(o)

LEMMA CountedSame ==
  ASSUME NEW o \in Objects, Counted(lists[o], Users(o)), Uninvolved(o)
  PROVE  Counted(lists[o], Users(o))'
<1>1. Counted(lists'[o], Users(o)')
  BY DEF Uninvolved, SameUse, Counted
<1> QED
  BY <1>1

\* The frame of a step that is not at its first or last use of the lists
LEMMA UsersKept ==
  ASSUME Basic, NEW t \in Threads, NEW g, Becomes(t, Top(t), g), InUse(Top(t)) <=> InUse(g),
         NEW o
  PROVE  Users(o)' = Users(o)
BY UsersBecome DEF UsersGo

LEMMA UninvolvedSteps ==
  ASSUME Basic, SendersKnown, UnlinksFirst, NEW t \in Threads, Step(t),
         ~ConnectEnd(t), ~DisconnectBegin(t), ~DisconnectEnd(t), ~EmitBegin(t), ~EmitEnd(t),
         ~DeleteLists(t), ~DeleteListsEnd(t), NEW o \in Objects
  PROVE  Uninvolved(o)
<1>1. CASE Lock(t)
  <2>1. PICK g \in Frame : Becomes(t, Top(t), g) /\ Alike(Top(t), g)
    BY <1>1, LockFrame
  <2>2. Users(o)' = Users(o)
    BY <2>1, UsersKept DEF Alike, InUse
  <2> QED
    BY <1>1, <2>2 DEF Lock, Uninvolved, SameUse
<1>2. CASE DisconnectList(t)
  <2>1. PICK g \in Frame : Becomes(t, Top(t), g) /\ Top(t).op = "disconnect" /\ Top(t).at = "scan"
                           /\ g.at = "scan"
    BY <1>2, DisconnectListFrame
  <2>2. Users(o)' = Users(o)
    BY <2>1, UsersKept DEF Becomes, InUse
  <2> QED
    BY <1>2, <2>2 DEF DisconnectList, Uninvolved, SameUse
<1>3. CASE DisconnectScan(t)
  <2>1. PICK g \in Frame : Becomes(t, Top(t), g) /\ Top(t).op = "disconnect" /\ Top(t).at = "scan"
                           /\ g.at \in {"scan", "unlink"}
    BY <1>3, DisconnectScanFrame
  <2>2. Users(o)' = Users(o)
    BY <2>1, UsersKept DEF Becomes, InUse
  <2> QED
    BY <1>3, <2>2 DEF DisconnectScan, Uninvolved, SameUse
<1>4. CASE DisconnectUnlink(t)
  <2>1. PICK g \in Frame : Becomes(t, Top(t), g) /\ Top(t).op = "disconnect" /\ Top(t).at = "unlink"
                           /\ g.at = "zero"
    BY <1>4, DisconnectUnlinkFrame
  <2>2. Users(o)' = Users(o)
    BY <2>1, UsersKept DEF Becomes, InUse
  <2> QED
    BY <1>4, <2>2 DEF DisconnectUnlink, Uninvolved, SameUse
<1>5. CASE DisconnectZero(t)
  <2>1. PICK g \in Frame : Becomes(t, Top(t), g) /\ Top(t).op = "disconnect" /\ Top(t).at = "zero"
                           /\ g.at = "scan"
    BY <1>5, DisconnectZeroFrame
  <2>2. Users(o)' = Users(o)
    BY <2>1, UsersKept DEF Becomes, InUse
  <2> QED
    BY <1>5, <2>2 DEF DisconnectZero, Uninvolved, SameUse
<1>6. CASE EmitLook(t)
  <2>1. PICK g \in Frame : Becomes(t, Top(t), g) /\ Top(t).op = "emit" /\ Top(t).at = "look"
                           /\ g.at \in {"look", "slot"}
    BY <1>6, EmitLookFrame DEF GoneOn
  <2>2. Users(o)' = Users(o)
    BY <2>1, UsersKept DEF Becomes, InUse
  <2> QED
    BY <1>6, <2>2 DEF EmitLook, Uninvolved, SameUse
<1>7. CASE SlotReturn(t)
  <2>1. PICK g \in Frame : Becomes(t, Top(t), g) /\ Top(t).op = "emit" /\ Top(t).at = "slot"
                           /\ g.at = "relock"
    BY <1>7, SlotReturnFrame
  <2>2. Users(o)' = Users(o)
    BY <2>1, UsersKept DEF Becomes, InUse
  <2> QED
    BY <1>7, <2>2 DEF SlotReturn, Uninvolved, SameUse
<1>8. CASE EmitResume(t)
  <2>1. PICK g \in Frame : Becomes(t, Top(t), g) /\ Top(t).op = "emit" /\ Top(t).at = "relock"
                           /\ g.at = "look"
    BY <1>8, EmitResumeFrame
  <2>2. Users(o)' = Users(o)
    BY <2>1, UsersKept DEF Becomes, InUse
  <2> QED
    BY <1>8, <2>2 DEF EmitResume, Uninvolved, SameUse
<1>9. CASE DeliverEnd(t)
  <2>1. stack[t] # <<>> /\ Top(t).op = "event" /\ Returns(t)
    BY <1>9 DEF DeliverEnd, At
  <2>2. Users(o)' = Users(o)
    BY <2>1, UsersReturn DEF InUse
  <2> QED
    BY <1>9, <2>2 DEF DeliverEnd, Uninvolved, SameUse
<1>10. CASE DeleteBegin(t)
  <2>1. PICK g \in Frame : Becomes(t, Top(t), g) /\ Top(t).op = "delete" /\ Top(t).at = "begin"
                           /\ g.at \in {"lists", "free"}
    BY <1>10, DeleteBeginFrame
  <2>2. Users(o)' = Users(o)
    BY <2>1, UsersKept DEF Becomes, InUse
  <2> QED
    BY <1>10, <2>2 DEF DeleteBegin, Uninvolved, SameUse
<1>11. CASE DeleteReceivers(t)
  <2>1. Top(t).obj \in Objects /\ Top(t).op = "delete" /\ Top(t).at = "receivers"
    BY <1>11, ReturnsFrame DEF DeleteReceivers
  <2>2. PICK s \in Signals, c \in Conns :
          /\ lists[Top(t).obj].of[s] # <<>>
          /\ \/ DropFirst(Top(t).obj, s, c, conn[c]) /\ UNCHANGED stack
             \/ /\ UNCHANGED lists
                /\ \E g \in Frame : Becomes(t, Top(t), g) /\ g.at = "unlink"
    BY <1>11, DeleteReceiversFrame
  <2>3. CASE DropFirst(Top(t).obj, s, c, conn[c]) /\ UNCHANGED stack
    <3>1. conn[c] \in SomeConnection
      BY ConnTyped DEF Basic
    <3>2. SameUse(o)
      BY <2>1, <2>2, <2>3, <3>1, DropFirstTyped DEF Basic, SameUse
    <3>3. Users(o)' = Users(o)
      BY <2>3 DEF Users
    <3> QED
      BY <3>2, <3>3 DEF Uninvolved
  <2>4. CASE UNCHANGED lists /\ \E g \in Frame : Becomes(t, Top(t), g) /\ g.at = "unlink"
    <3>1. Users(o)' = Users(o)
      BY <2>1, <2>4, UsersKept DEF Becomes, InUse
    <3> QED
      BY <2>4, <3>1 DEF Uninvolved, SameUse
  <2> QED
    BY <2>2, <2>3, <2>4
<1>12. CASE DeleteUnlink(t)
  <2>1. PICK g \in Frame : Becomes(t, Top(t), g) /\ Top(t).op = "delete" /\ Top(t).at = "unlink"
                           /\ g.at = "receivers"
    BY <1>12, DeleteUnlinkFrame
  <2>2. Users(o)' = Users(o)
    BY <2>1, UsersKept DEF Becomes, InUse
  <2>3. PICK p \in Objects, s \in Signals, c \in Conns :
           /\ lists[p].of[s] # <<>>
           /\ \E k \in SomeConnection : DropFirst(p, s, c, k)
    BY <1>12, DeleteUnlinkLists
  <2>4. SameUse(o)
    BY <2>3, DropFirstTyped DEF Basic, SameUse
  <2> QED
    BY <2>2, <2>4 DEF Uninvolved
<1>13. CASE DeleteSenders(t)
  <2>0. Top(t).obj \in Objects
    BY <1>13, ReturnsFrame DEF DeleteSenders
  <2>1. PICK g \in Frame : Becomes(t, Top(t), g) /\ Top(t).op = "delete" /\ Top(t).at = "senders"
                           /\ g.at \in {"node", "free"}
    BY <1>13, <2>0, DeleteSendersFrame DEF SendersKnown
  <2>2. Users(o)' = Users(o)
    BY <2>1, UsersKept DEF Becomes, InUse
  <2> QED
    BY <1>13, <2>2 DEF DeleteSenders, Uninvolved, SameUse
<1>14. CASE DeleteNode(t)
  <2>1. PICK g \in Frame : Becomes(t, Top(t), g) /\ Top(t).op = "delete" /\ Top(t).at = "node"
                           /\ g.at = "senders"
    BY <1>14, DeleteNodeFrame
  <2>2. Users(o)' = Users(o)
    BY <2>1, UsersKept DEF Becomes, InUse
  <2>3. PICK f : f = Top(t)
    OBVIOUS
  <2>4. f.other \in Objects
    BY <1>14, <2>3, ReturnsFrame DEF DeleteNode, FrameOK, DeleteFrame
  <2>5. \/ UNCHANGED lists
        \/ lists' = [lists EXCEPT ![f.other].dirty = @ \/ lists[f.other].at = "used"]
    BY <1>14, <2>3 DEF DeleteNode
  <2>6. PICK b \in BOOLEAN : b = (lists[f.other].dirty \/ lists[f.other].at = "used")
    OBVIOUS
  <2>7. UNCHANGED lists \/ lists' = [lists EXCEPT ![f.other].dirty = b]
    BY <2>5, <2>6
  <2>8. SameUse(o)
    <3>1. CASE UNCHANGED lists
      BY <3>1 DEF SameUse
    <3>2. CASE lists' = [lists EXCEPT ![f.other].dirty = b]
      <4>1. PICK v : v = [lists[f.other] EXCEPT !.dirty = b]
        OBVIOUS
      <4>2. v \in SomeLists /\ v.at = lists[f.other].at /\ v.inUse = lists[f.other].inUse
        <5>1. lists[f.other] \in SomeLists
          BY <2>4, ListTyped DEF Basic
        <5>2. v \in SomeLists
          BY <2>6, <4>1, <5>1, Zenon DEF SomeLists
        <5> QED
          BY <4>1, <5>1, <5>2 DEF SomeLists
      <4>3. lists' = [lists EXCEPT ![f.other] = v]
        BY <3>2, <4>1
      <4> QED
        BY <2>4, <4>2, <4>3, ChangedLists DEF Basic, SameUse
    <3> QED
      BY <2>7, <3>1, <3>2
  <2> QED
    BY <2>2, <2>8 DEF Uninvolved
<1>15. CASE DeleteEnd(t)
  <2>1. stack[t] # <<>> /\ Top(t).op = "delete" /\ Top(t).at = "free" /\ Returns(t)
    BY <1>15 DEF DeleteEnd, At
  <2>2. Users(o)' = Users(o)
    BY <2>1, UsersReturn DEF InUse
  <2> QED
    BY <1>15, <2>2 DEF DeleteEnd, Uninvolved, SameUse
<1> QED
  BY <1>1, <1>2, <1>3, <1>4, <1>5, <1>6, <1>7, <1>8, <1>9, <1>10, <1>11, <1>12, <1>13, <1>14,
     <1>15 DEF Step

LEMMA UninvolvedCalls ==
  ASSUME Basic, NEW t \in Threads, UserCall(t), NEW o \in Objects
  PROVE  Uninvolved(o)
<1>1. CASE \E p \in Objects : DeleteCall(t, p)
  <2>1. UNCHANGED lists
    BY <1>1 DEF DeleteCall
  <2> QED
    BY <1>1, <2>1, UsersDeleteCall DEF Uninvolved, SameUse
<1>2. ASSUME NEW s \in Objects, NEW g \in Signals, EmitCall(t, s, g)
      PROVE  Uninvolved(o)
  <2>1. PICK f \in Frame : Enters(t, f) /\ f.op = "emit" /\ f.at = "begin"
    BY <1>2, EmitCallBasic
  <2> QED
    BY <1>2, <2>1, UsersPush DEF EmitCall, InUse, Uninvolved, SameUse
<1>3. ASSUME NEW s \in Objects, NEW r \in Objects, NEW g \in Signals, ConnectCall(t, s, r, g)
      PROVE  Uninvolved(o)
  <2>1. PICK f \in Frame : Enters(t, f) /\ f.op = "connect"
    BY <1>3, ConnectCallBasic
  <2> QED
    BY <1>3, <2>1, UsersPush DEF ConnectCall, InUse, Uninvolved, SameUse
<1>4. ASSUME NEW s \in Objects, NEW r \in Objects \cup {None}, NEW g \in Scopes,
             DisconnectCall(t, s, r, g)
      PROVE  Uninvolved(o)
  <2>1. PICK f \in Frame : Enters(t, f) /\ f.op = "disconnect" /\ f.at = "begin"
    BY <1>4, DisconnectCallBasic
  <2> QED
    BY <1>4, <2>1, UsersPush DEF DisconnectCall, InUse, Uninvolved, SameUse
<1>5. ASSUME NEW p \in Objects, Deliver(t, p)
      PROVE  Uninvolved(o)
  <2>1. PICK f \in Frame : Enters(t, f) /\ f.op = "event"
    BY <1>5, DeliverBasic
  <2> QED
    BY <1>5, <2>1, UsersPush DEF Deliver, InUse, Uninvolved, SameUse
<1>6. ASSUME NEW c \in Conns, DropHandle(t, c)
      PROVE  Uninvolved(o)
  BY <1>6 DEF DropHandle, Uninvolved, SameUse, Users
<1>7. ASSUME NEW c \in Conns, DisconnectHandle(t, c)
      PROVE  Uninvolved(o)
  <2>1. PICK s : s = conn[c].sender
    OBVIOUS
  <2>2. lists' = [lists EXCEPT ![s].dirty = TRUE] /\ UNCHANGED stack
    BY <1>7, <2>1 DEF DisconnectHandle
  <2>3. SameUse(o)
    BY <2>2, ListTyped DEF Basic, Typed, SomeLists, SameUse
  <2> QED
    BY <2>2, <2>3 DEF Uninvolved, Users
<1> QED
  BY <1>1, <1>2, <1>3, <1>4, <1>5, <1>6, <1>7 DEF UserCall

\* The object of an emission or a disconnection that begins, or is connected,
\* still has its lists, if it ever had some.
LEMMA ListsOfNamed ==
  ASSUME Basic, LifeOK, NamedLive, ListsShape, NEW t \in Threads,
         \E op \in {"connect", "disconnect", "emit"} : At(t, op, "begin")
  PROVE  /\ Top(t).obj \in Objects /\ stack[t] # <<>>
         /\ lists[Top(t).obj].at \in {"none", "used"}
<1>1. PICK op \in {"connect", "disconnect", "emit"} : At(t, op, "begin")
  OBVIOUS
<1>2. PICK f : f = Top(t)
  OBVIOUS
<1>3. /\ stack[t] # <<>> /\ f.op = op /\ f.at = "begin" /\ f.obj \in Objects
      /\ FrameOK(t, f)
  BY <1>1, <1>2, ReturnsFrame
<1>4. f = stack[t][Len(stack[t])] /\ Len(stack[t]) \in DOMAIN stack[t]
  BY <1>2, <1>3, TopFrame DEF Basic, Typed
<1>5. Lively(life, t, f)
  BY <1>4 DEF NamedLive
<1>6. op = "emit" => Home[f.obj] = t
  BY <1>3 DEF FrameOK, EmitFrame
<1>7. life[f.obj] \in {"alive", "dying", "dead"}
  BY <1>3 DEF Basic, Typed
<1>8. Usable(t, f.obj)
  BY <1>3, <1>5, <1>6, <1>7 DEF Lively, UsableIn, Usable
<1>9. ~Past(f.obj)
  BY <1>1, <1>2, <1>3, <1>8, UsableNotPast
<1>10. lists[f.obj].at \notin {"orphaned", "deleted"}
  BY <1>3, <1>9 DEF ListsShape, ShapeOf
<1> QED
  BY <1>2, <1>3, <1>10, ListTyped DEF Basic

LEMMA UsersEnter ==
  ASSUME Basic, UsersOK, NEW t \in Threads, NEW g, Becomes(t, Top(t), g),
         ~InUse(Top(t)), InUse(g), NEW p \in Objects, p = Top(t).obj,
         lists[p].at \in {"used", "orphaned"}, lists' = [lists EXCEPT ![p] = Enter(lists[p])]
  PROVE  UsersOK'
<1> SUFFICES ASSUME NEW o \in Objects PROVE Counted(lists[o], Users(o))'
  BY DEF UsersOK
<1>1. UsersGo(t, o, Top(t), g)
  BY UsersBecome
<1>2. Counted(lists[o], Users(o))
  BY DEF UsersOK
<1>3. /\ lists'[o].at = lists[o].at
      /\ lists'[o].inUse = IF o = p THEN lists[o].inUse + 1 ELSE lists[o].inUse
  <2>1. /\ \A q \in Objects : /\ q # p => lists'[q] = lists[q]
                              /\ lists'[q].at = lists[q].at
        /\ lists'[p].inUse = lists[p].inUse + 1
    BY EntersLists DEF Basic
  <2> QED
    BY <2>1
<1>4. CASE o = p
  <2>1. Users(o)' = Users(o) \cup {<<t, Len(stack[t])>>} /\ <<t, Len(stack[t])>> \notin Users(o)
    BY <1>1, <1>4 DEF UsersGo
  <2>2. Counted(lists'[o], Users(o) \cup {<<t, Len(stack[t])>>})
    BY <1>2, <1>3, <1>4, <2>1, CountedEnter
  <2> QED
    BY <2>1, <2>2
<1>5. CASE o # p
  <2>1. Users(o)' = Users(o)
    BY <1>1, <1>5 DEF UsersGo
  <2> QED
    BY <1>2, <1>3, <1>5, <2>1, CountedSame DEF Uninvolved, SameUse
<1> QED
  BY <1>4, <1>5

LEMMA UsersLeave ==
  ASSUME Basic, UsersOK, NEW t \in Threads, stack[t] # <<>>, Returns(t), InUse(Top(t)),
         NEW p \in Objects, p = Top(t).obj, NEW b \in BOOLEAN,
         lists' = [lists EXCEPT ![p] = Leave(Dirtied(lists[p], b))]
  PROVE  UsersOK'
<1> SUFFICES ASSUME NEW o \in Objects PROVE Counted(lists[o], Users(o))'
  BY DEF UsersOK
<1>2. Counted(lists[o], Users(o))
  BY DEF UsersOK
<1>3. /\ \A q \in Objects : q # p => lists'[q] = lists[q]
      /\ IF lists[p].inUse = 1 /\ lists[p].at = "orphaned"
           THEN lists'[p].at = "deleted" /\ lists'[p].inUse = 0
           ELSE lists'[p].at = lists[p].at /\ lists'[p].inUse = lists[p].inUse - 1
  BY LeavesLists DEF Basic
<1>4. CASE o = p
  <2>1. Users(o)' = Users(o) \ {<<t, Len(stack[t])>>} /\ <<t, Len(stack[t])>> \in Users(o)
    BY <1>4, UsersReturn
  <2>2. Counted(lists'[o], Users(o) \ {<<t, Len(stack[t])>>})
    BY <1>2, <1>3, <1>4, <2>1, CountedLeave
  <2> QED
    BY <2>1, <2>2
<1>5. CASE o # p
  <2>1. Users(o)' = Users(o)
    BY <1>5, UsersReturn
  <2> QED
    BY <1>2, <1>3, <1>5, <2>1, CountedSame DEF Uninvolved, SameUse
<1> QED
  BY <1>4, <1>5

LEMMA UsersNext ==
  ASSUME Basic, LifeOK, NamedLive, SendersKnown, UnlinksFirst, ListsShape, UsersOK,
         NEW t \in Threads, Step(t) \/ UserCall(t)
  PROVE  UsersOK'
<1>0. ASSUME \A o \in Objects : Uninvolved(o) PROVE UsersOK'
  BY <1>0, CountedSame DEF UsersOK
<1>1. CASE UserCall(t)
  BY <1>0, <1>1, UninvolvedCalls
<1>2. CASE Step(t) /\ ~ConnectEnd(t) /\ ~DisconnectBegin(t) /\ ~DisconnectEnd(t) /\ ~EmitBegin(t)
           /\ ~EmitEnd(t) /\ ~DeleteLists(t) /\ ~DeleteListsEnd(t)
  BY <1>0, <1>2, UninvolvedSteps
<1>3. CASE ConnectEnd(t)
  <2>1. PICK f \in Frame : /\ f = Top(t) /\ stack[t] # <<>> /\ Returns(t) /\ f.op = "connect"
                           /\ f.obj \in Objects
    BY <1>3, ConnectTop
  <2>2. \A o : Users(o)' = Users(o)
    BY <2>1, UsersReturn DEF InUse
  <2>3. At(t, "connect", "begin")
    BY <1>3 DEF ConnectEnd
  <2>4. lists[f.obj].at \in {"none", "used"}
    BY <2>1, <2>3, ListsOfNamed
  <2>5. ASSUME NEW o \in Objects PROVE Counted(lists[o], Users(o))'
    <3>1. Counted(lists[o], Users(o))
      BY DEF UsersOK
    <3>2. CASE lists'[o] = lists[o]
      BY <2>2, <3>1, <3>2, CountedSame DEF Uninvolved, SameUse
    <3>3. CASE lists'[o] # lists[o]
      <4>1. o = f.obj /\ lists'[o].at = "used" /\ lists'[o].inUse = lists[o].inUse
        BY <1>3, <2>1, <3>3, ConnectEndLists DEF Connects
      <4>2. Counted(lists'[o], Users(o)')
        BY <2>2, <2>4, <3>1, <4>1 DEF Counted
      <4> QED
        BY <4>2
    <3> QED
      BY <3>2, <3>3
  <2> QED
    BY <2>5 DEF UsersOK
<1>4. CASE DisconnectBegin(t) \/ EmitBegin(t)
  <2>1. At(t, "disconnect", "begin") \/ At(t, "emit", "begin")
    BY <1>4 DEF DisconnectBegin, EmitBegin
  <2>2. PICK p \in Objects : p = Top(t).obj /\ stack[t] # <<>> /\ lists[p].at \in {"none", "used"}
    BY <2>1, ListsOfNamed
  <2>3. ~InUse(Top(t))
    BY <2>1 DEF At, InUse
  <2>4. CASE lists[p].at = "none"
    <3>1. Returns(t) /\ UNCHANGED lists
      BY <1>4, <2>2, <2>4 DEF DisconnectBegin, EmitBegin
    <3>2. \A o : Users(o)' = Users(o)
      BY <2>2, <2>3, <3>1, UsersReturn
    <3> QED
      BY <1>0, <3>1, <3>2 DEF Uninvolved, SameUse
  <2>5. CASE lists[p].at = "used"
    <3>1. lists' = [lists EXCEPT ![p] = Enter(lists[p])]
      BY <1>4, <2>2, <2>5 DEF DisconnectBegin, EmitBegin
    <3>2. CASE DisconnectBegin(t)
      <4>1. PICK g \in Frame : /\ Becomes(t, Top(t), g) /\ Top(t).op = "disconnect" /\ g.at = "scan"
        BY <2>2, <2>5, <3>2, DisconnectBeginFrame
      <4>2. InUse(g)
        BY <4>1 DEF Becomes, InUse
      <4> QED
        BY <2>2, <2>3, <2>5, <3>1, <4>1, <4>2, UsersEnter
    <3>3. CASE EmitBegin(t)
      <4>1. PICK g \in Frame : /\ Becomes(t, Top(t), g) /\ Top(t).op = "emit" /\ g.at = "look"
        BY <2>2, <2>5, <3>3, EmitBeginFrame
      <4>2. InUse(g)
        BY <4>1 DEF Becomes, InUse
      <4> QED
        BY <2>2, <2>3, <2>5, <3>1, <4>1, <4>2, UsersEnter
    <3> QED
      BY <1>4, <3>2, <3>3
  <2> QED
    BY <2>2, <2>4, <2>5
<1>5. CASE DeleteLists(t)
  <2>1. PICK g \in Frame :
          /\ Becomes(t, Top(t), g) /\ Top(t).op = "delete" /\ Top(t).at = "lists"
          /\ g.at = IF lists[g.obj].at = "used" THEN "receivers" ELSE "senders"
    BY <1>5, DeleteListsFrame
  <2>2. PICK p \in Objects : p = Top(t).obj
    BY <1>5, ReturnsFrame DEF DeleteLists
  <2>3. ~InUse(Top(t)) /\ g.op = "delete" /\ g.obj = p
    BY <2>1, <2>2 DEF InUse, Becomes
  <2>4. CASE lists[p].at = "used"
    <3>1. lists' = [lists EXCEPT ![p] = Enter(lists[p])]
      BY <1>5, <2>2, <2>4 DEF DeleteLists
    <3>2. InUse(g)
      BY <2>1, <2>3, <2>4 DEF InUse
    <3> QED
      BY <2>1, <2>2, <2>3, <2>4, <3>1, <3>2, UsersEnter
  <2>5. CASE lists[p].at # "used"
    <3>1. UNCHANGED lists
      BY <1>5, <2>2, <2>5 DEF DeleteLists
    <3>2. ~InUse(g)
      BY <2>1, <2>3, <2>5 DEF InUse
    <3>3. \A o : Users(o)' = Users(o)
      BY <2>1, <2>3, <3>2, UsersKept
    <3> QED
      BY <1>0, <3>1, <3>3 DEF Uninvolved, SameUse
  <2> QED
    BY <2>4, <2>5
<1>6. CASE DisconnectEnd(t)
  <2>1. stack[t] # <<>> /\ Returns(t) /\ InUse(Top(t))
    BY <1>6 DEF DisconnectEnd, At, InUse
  <2> QED
    BY <1>6, <2>1, DisconnectEndLists, UsersLeave
<1>7. CASE EmitEnd(t)
  <2>1. stack[t] # <<>> /\ Returns(t) /\ InUse(Top(t))
    BY <1>7 DEF EmitEnd, At, InUse
  <2> QED
    BY <1>7, <2>1, EmitEndLists, UsersLeave
<1>8. CASE DeleteListsEnd(t)
  <2>1. PICK g \in Frame :
           /\ Becomes(t, Top(t), g) /\ Top(t).op = "delete" /\ Top(t).at = "receivers"
           /\ g.at = "senders"
    BY <1>8, DeleteListsEndFrame
  <2>2. PICK p \in Objects :
           /\ p = Top(t).obj /\ lists[p].at = "used"
           /\ \A o \in Objects : o # p => lists'[o] = lists[o]
           /\ IF lists[p].inUse = 1
                THEN lists'[p].at = "deleted" /\ lists'[p].inUse = 0
                ELSE lists'[p].at = "orphaned" /\ lists'[p].inUse = lists[p].inUse - 1
    BY <1>8, DeleteListsEndLists
  <2>3. InUse(Top(t)) /\ ~InUse(g)
    BY <2>1 DEF InUse, Becomes
  <2>4. ASSUME NEW o \in Objects PROVE Counted(lists[o], Users(o))'
    <3>1. Counted(lists[o], Users(o)) /\ UsersGo(t, o, Top(t), g)
      BY <2>1, UsersBecome DEF UsersOK
    <3>2. CASE o # p
      BY <2>2, <3>1, <3>2, CountedSame DEF Uninvolved, SameUse, UsersGo
    <3>3. CASE o = p
      <4>1. PICK x : x = <<t, Len(stack[t])>>
        OBVIOUS
      <4>2. Users(p)' = Users(p) \ {x} /\ x \in Users(p)
        BY <2>2, <2>3, <3>1, <3>3, <4>1 DEF UsersGo
      <4>3. PICK v : v = [at |-> "orphaned", inUse |-> lists[p].inUse]
        OBVIOUS
      <4>4. Counted(v, Users(p))
        BY <3>1, <3>3, <4>2, <4>3 DEF Counted
      <4>5. Counted(lists'[p], Users(p) \ {x})
        BY <2>2, <4>2, <4>3, <4>4, CountedLeave
      <4> QED
        BY <3>3, <4>2, <4>5
    <3> QED
      BY <3>2, <3>3
  <2> QED
    BY <2>4 DEF UsersOK
<1> QED
  BY <1>1, <1>2, <1>3, <1>4, <1>5, <1>6, <1>7, <1>8
=============================================================================
