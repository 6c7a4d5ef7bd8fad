---------------------------- MODULE Connections ----------------------------
(***************************************************************************)
(* Signals and slots (kernel/qobject.cpp, qobject_p.h): the connection     *)
(* lists of senders, the lists of connections of receivers, emission,      *)
(* connect, disconnect and the destructor of QObject, in several threads   *)
(* under the pool of mutexes that signalSlotLock picks from.  Connections  *)
(* are Qt::AutoConnections.                                                *)
(*                                                                         *)
(* A step is what runs between two operations on the mutexes, or less: the *)
(* steps of a call that holds a mutex are kept apart from it by the mutex. *)
(***************************************************************************)
EXTENDS Integers, FiniteSets, SequencesExt

CONSTANTS
  Threads, Objects,
  Home,         \* the thread each object lives in
  Mutexes,      \* their addresses
  MutexOf,      \* signalSlotLock
  Signals, Destroyed,
  Conns,        \* memory for QObjectPrivate::Connection
  Scopes,       \* of disconnections: one signal, or all (None)
  Kept,         \* the connections whose QMetaObject::Connection user code keeps
  Connected,    \* what may have been connected before: sequences of
                \* connections with their senders, receivers and signals
  None, Free,
  MaxDepth,     \* bound on the calls that are nested in one thread
  MaxCalls      \* bound on the calls of user code

ASSUME ConnectionsAssumption ==
  /\ Home \in [Objects -> Threads] /\ MutexOf \in [Objects -> Mutexes]
  /\ Mutexes \subseteq Nat /\ Free \notin Threads
  /\ Scopes \subseteq Signals \cup {None} /\ Kept \subseteq Conns
  /\ None \notin Objects \cup Conns \cup Mutexes \cup Signals
  /\ Connected \subseteq
       Seq([conn : Conns, sender : Objects, receiver : Objects, sig : Signals])
  /\ \A made \in Connected : \A i, j \in DOMAIN made :
       made[i].conn = made[j].conn => i = j
  /\ MaxDepth \in Nat /\ MaxCalls \in Nat

VARIABLES
  life,          \* objects are alive, dying (in the destructor) or dead
  lists,         \* QObjectConnectionListVector of each object
  senders,       \* QObjectPrivate::senders
  conn,          \* the connections
  handles,       \* the QMetaObject::Connections that user code keeps
  currentSender, \* frame of the thread that an object's currentSender is in
  dropped,       \* frames of each thread whose Sender has ref 0
  metaCalls,     \* senders of the QMetaCallEvents posted to an object
  stack,         \* the calls each thread is in
  holder,        \* of the mutexes
  calls

vars == <<life, lists, senders, conn, handles, currentSender, dropped, metaCalls,
          stack, holder, calls>>
switchers == <<currentSender, dropped>>

-----------------------------------------------------------------------------
\* from: none yet, d->connectionLists, orphaned or deleted.
Lists == [at : {"none", "used", "orphaned", "deleted"}, inUse : Nat,
          dirty : BOOLEAN, of : [Signals -> Seq(Conns)]]
NoLists == [at |-> "none", inUse |-> 0, dirty |-> FALSE,
            of |-> [g \in Signals |-> <<>>]]

Connection == [sender : Objects \cup {None}, receiver : Objects \cup {None},
               ref : 0 .. 2]
NoConnection == [sender |-> None, receiver |-> None, ref |-> 0]
NewConnection(c, s, r) ==
  [sender |-> s, receiver |-> r, ref |-> IF c \in Kept THEN 2 ELSE 1]

\* A call.  obj is the sender, or the object deleted; other is the receiver a
\* call is about, or the sender of a queued call; left are the signals whose
\* lists a disconnection has yet to go through; want are the mutexes it is
\* about to lock; mutex is one to unlock before the others.  An emission has
\* its last connection; due are those it finds when it begins and called those
\* it has called (history).  prev is the frame of the previous of its Sender.
Frame == [op : {"connect", "disconnect", "emit", "event", "delete"},
          at : {"begin", "scan", "unlink", "zero", "look", "slot", "relock", "lists",
                "receivers", "senders", "node", "free"},
          obj : Objects, other : Objects \cup {None}, sig : Signals \cup {None},
          left : SUBSET Signals,
          conn : Conns \cup {None}, last : Conns \cup {None},
          want : Seq(Mutexes), mutex : Mutexes \cup {None},
          due : Seq(Conns), called : Seq(Conns), broken : BOOLEAN,
          prev : Nat]
NewFrame(op, obj) ==
  [op |-> op, at |-> "begin", obj |-> obj, other |-> None, sig |-> None,
   left |-> {}, conn |-> None, last |-> None, want |-> <<>>, mutex |-> None,
   due |-> <<>>, called |-> <<>>, broken |-> FALSE, prev |-> 0]

Top(t) == Last(stack[t])
At(t, op, at) ==
  stack[t] # <<>> /\ Top(t).op = op /\ Top(t).at = at /\ Top(t).want = <<>>
Goes(t, frame) == stack' = [stack EXCEPT ![t] = Append(Front(@), frame)]
Enters(t, frame) == stack' = [stack EXCEPT ![t] = Append(@, frame)]
Returns(t) == stack' = [stack EXCEPT ![t] = Front(@)]

\* s without the elements of S
Without(s, S) ==
  LET kept[n \in 0 .. Len(s)] ==
        IF n = 0 THEN <<>>
        ELSE IF s[n] \in S THEN kept[n - 1] ELSE Append(kept[n - 1], s[n])
  IN  kept[Len(s)]

\* The connections, in order, of some of those made before
Made(made, some) ==
  LET kept == Without(made, ToSet(made) \ some) IN [i \in DOMAIN kept |-> kept[i].conn]

Init ==
  /\ life = [o \in Objects |-> "alive"]
  /\ \E made \in Connected :
       /\ handles = Kept \cap {made[i].conn : i \in DOMAIN made}
       /\ conn = [c \in Conns |->
            IF \A i \in DOMAIN made : made[i].conn # c THEN NoConnection
            ELSE LET m == made[CHOOSE i \in DOMAIN made : made[i].conn = c] IN
                 NewConnection(c, m.sender, m.receiver)]
       /\ lists = [o \in Objects |->
            IF \E i \in DOMAIN made : made[i].sender = o
              THEN [NoLists EXCEPT !.at = "used", !.of = [g \in Signals |->
                      Made(made, {m \in ToSet(made) : m.sender = o /\ m.sig = g})]]
              ELSE NoLists]
       /\ senders = [o \in Objects |->
            Reverse(Made(made, {m \in ToSet(made) : m.receiver = o}))]
  /\ currentSender = [o \in Objects |-> 0] /\ dropped = [t \in Threads |-> {}]
  /\ metaCalls = [o \in Objects |-> <<>>]
  /\ stack = [t \in Threads |-> <<>>]
  /\ holder = [m \in Mutexes |-> Free]
  /\ calls = 0

-----------------------------------------------------------------------------
(* Mutexes: QOrderedMutexLocker                                            *)

Ordered_First(m, n) == <<m>>
Ordered(m, n) == IF m = n THEN <<m>> ELSE IF m < n THEN <<m, n>> ELSE <<n, m>>

Lock(t) ==
  /\ stack[t] # <<>> /\ Top(t).want # <<>>
  /\ holder[Head(Top(t).want)] = Free
  /\ holder' = [holder EXCEPT ![Head(Top(t).want)] = t]
  /\ Goes(t, [Top(t) EXCEPT !.want = Tail(@)])
  /\ UNCHANGED <<life, lists, senders, conn, handles, switchers, metaCalls, calls>>

\* relock(m, n), m being locked: tryLock, or which mutexes are to be locked in
\* which order
TriesLock(m, n) == m > n /\ holder[n] = Free
RelockOrder_Unordered(m, n) == <<n>>
RelockOrder(m, n) == IF m < n THEN <<n>> ELSE <<n, m>>
Relocks(t, m, n, frame) ==
  \/ m = n /\ Goes(t, frame) /\ UNCHANGED holder
  \/ /\ TriesLock(m, n)
     /\ holder' = [holder EXCEPT ![n] = t]
     /\ Goes(t, [frame EXCEPT !.mutex = n])
  \/ /\ m # n /\ ~TriesLock(m, n)
     /\ holder' = IF m \in ToSet(RelockOrder(m, n)) THEN [holder EXCEPT ![m] = Free] ELSE holder
     /\ Goes(t, [frame EXCEPT !.mutex = n, !.want = RelockOrder(m, n)])

UnlockAll(t) == holder' = [m \in Mutexes |-> IF holder[m] = t THEN Free ELSE holder[m]]
\* if (needToUnlock) m->unlock()
UnlockOther(f) == holder' = [m \in Mutexes |-> IF m = f.mutex THEN Free ELSE holder[m]]

-----------------------------------------------------------------------------
(* Lists of connections                                                    *)

InSome(v) == UNION {ToSet(v.of[g]) : g \in Signals}
First(s) == IF s = <<>> THEN None ELSE Head(s)
\* c->nextConnectionList; what a connection leads to that is in no list is
\* undefined, and NoFreedConnectionUsed shows that nobody looks.
NextIn(s, c) ==
  IF c \notin ToSet(s) THEN c
  ELSE LET i == CHOOSE i \in DOMAIN s : s[i] = c IN IF i = Len(s) THEN None ELSE s[i + 1]

Broken(c) == conn[c].receiver = None
Deref(c) == IF c.ref = 1 THEN NoConnection ELSE [c EXCEPT !.ref = @ - 1]
Unlinked(c) == [senders EXCEPT ![conn[c].receiver] = Without(@, {c})]

\* cleanConnectionLists: what it removes, and what it leaves
Cleans_InUse(v) == v.dirty
Cleans(v) == v.dirty /\ v.inUse = 0
Cleaned(v) == IF Cleans(v) THEN {c \in InSome(v) : Broken(c)} ELSE {}
Clean(v) ==
  [v EXCEPT !.dirty = @ /\ ~Cleans(v),
            !.of = [g \in Signals |-> Without(v.of[g], Cleaned(v))]]

\* A function begins to use the lists; it ends to use them, and deletes them
\* if their object has been deleted and nobody else uses them.
Enter_Forgotten(v) == v
Enter(v) == [v EXCEPT !.inUse = @ + 1]
Leave_Deletes(v) ==
  IF v.at = "orphaned" THEN [NoLists EXCEPT !.at = "deleted"]
                       ELSE [v EXCEPT !.inUse = @ - 1]
Leave(v) ==
  IF v.inUse = 1 /\ v.at = "orphaned" THEN [NoLists EXCEPT !.at = "deleted"]
                                      ELSE [v EXCEPT !.inUse = @ - 1]

-----------------------------------------------------------------------------
(* User code: any thread that is in no call, or in a slot                  *)

InUserCode(t) == stack[t] # <<>> => Top(t).at = "slot"
Calls(t) == InUserCode(t) /\ Len(stack[t]) < MaxDepth
            /\ calls < MaxCalls /\ calls' = calls + 1

\* The objects a thread may name: its own until they are deleted, those of
\* other threads until their destructor begins.
Usable(t, o) == life[o] = "alive" \/ (life[o] = "dying" /\ Home[o] = t)
Named(t, o) == \E f \in ToSet(stack[t]) :
                 f.op \in {"connect", "disconnect"} /\ o \in {f.obj, f.other}

Unused(c) == conn[c].ref = 0 /\ \A t \in Threads : \A f \in ToSet(stack[t]) :
                                   ~(f.op = "connect" /\ f.conn = c)

ConnectCall(t, s, r, g) ==
  /\ Calls(t) /\ Usable(t, s) /\ Usable(t, r)
  /\ \E c \in Conns :
       /\ Unused(c)
       /\ Enters(t, [NewFrame("connect", s) EXCEPT !.other = r, !.sig = g, !.conn = c,
                       !.want = Ordered(MutexOf[s], MutexOf[r])])
  /\ UNCHANGED <<life, lists, senders, conn, handles, switchers, metaCalls, holder>>

\* QMetaObjectPrivate::connect and addConnection, or the connection exists and
\* was to be unique.  User code keeps the handle or drops it.
ConnectEnd(t) ==
  LET f == Top(t)
      v == lists[f.obj]
  IN
  /\ At(t, "connect", "begin")
  /\ \/ /\ \E c \in ToSet(v.of[f.sig]) : conn[c].receiver = f.other
        /\ UNCHANGED <<lists, senders, conn, handles>>
     \/ /\ conn' = [c \in Conns |->
             IF c = f.conn THEN NewConnection(c, f.obj, f.other)
             ELSE IF c \in Cleaned(v) THEN Deref(conn[c]) ELSE conn[c]]
        /\ handles' = handles \cup (Kept \cap {f.conn})
        /\ lists' = [lists EXCEPT ![f.obj] =
             [Clean(v) EXCEPT !.at = "used", !.of[f.sig] = Append(@, f.conn)]]
        /\ senders' = [senders EXCEPT ![f.other] = <<f.conn>> \o @]
  /\ UnlockAll(t) /\ Returns(t)
  /\ UNCHANGED <<life, switchers, metaCalls, calls>>

\* QMetaObject::Connection::~Connection
DropHandle(t, c) ==
  /\ InUserCode(t) /\ c \in handles
  /\ handles' = handles \ {c}
  /\ conn' = [conn EXCEPT ![c] = Deref(@)]
  /\ UNCHANGED <<life, lists, senders, switchers, metaCalls, stack, holder, calls>>

\* QObject::disconnect(Connection): not marked as thread-safe, so the caller
\* sees to it that nobody breaks the connection between its test and its locks.
DisconnectHandle(t, c) ==
  LET s == conn[c].sender  r == conn[c].receiver IN
  /\ Calls(t) /\ c \in handles /\ ~Broken(c)
  /\ Usable(t, s) /\ Usable(t, r)
  /\ holder[MutexOf[s]] = Free /\ holder[MutexOf[r]] = Free
  /\ lists' = [lists EXCEPT ![s].dirty = TRUE]
  /\ senders' = Unlinked(c)
  /\ conn' = [conn EXCEPT ![c].receiver = None]
  /\ UNCHANGED <<life, handles, switchers, metaCalls, stack, holder>>

-----------------------------------------------------------------------------
(* QMetaObjectPrivate::disconnect and disconnectHelper                     *)

\* Of one signal or of all (None), from one receiver or from all (None)
DisconnectCall(t, s, r, g) ==
  /\ Calls(t) /\ Usable(t, s) /\ (r # None => Usable(t, r))
  /\ Enters(t, [NewFrame("disconnect", s) EXCEPT !.other = r, !.sig = g,
       !.want = IF r = None THEN <<MutexOf[s]>> ELSE Ordered(MutexOf[s], MutexOf[r])])
  /\ UNCHANGED <<life, lists, senders, conn, handles, switchers, metaCalls, holder>>

DisconnectBegin(t) ==
  LET f == Top(t) IN
  /\ At(t, "disconnect", "begin")
  /\ IF lists[f.obj].at = "none"
       THEN UnlockAll(t) /\ Returns(t) /\ UNCHANGED lists
       ELSE /\ lists' = [lists EXCEPT ![f.obj] = Enter(@)]
            /\ Goes(t, [f EXCEPT !.at = "scan",
                          !.left = IF f.sig = None THEN Signals ELSE {f.sig}])
            /\ UNCHANGED holder
  /\ UNCHANGED <<life, senders, conn, handles, switchers, metaCalls, calls>>

\* The next list, in the order of the signals, which is not modelled
DisconnectList(t) ==
  LET f == Top(t) IN
  /\ At(t, "disconnect", "scan") /\ f.conn = None
  /\ \E g \in f.left : Goes(t, [f EXCEPT !.sig = g, !.left = @ \ {g},
                                          !.conn = First(lists[f.obj].of[g])])
  /\ UNCHANGED <<life, lists, senders, conn, handles, switchers, metaCalls, holder, calls>>

\* The connections from c on that are to be broken
Breaks(f, c) == ~Broken(c) /\ f.other \in {None, conn[c].receiver}
NextOf(f) == NextIn(lists[f.obj].of[f.sig], f.conn)

DisconnectScan(t) ==
  LET f == Top(t)  r == conn[f.conn].receiver IN
  /\ At(t, "disconnect", "scan") /\ f.conn # None
  /\ IF ~Breaks(f, f.conn)
       THEN Goes(t, [f EXCEPT !.conn = NextOf(f)]) /\ UNCHANGED holder
       ELSE IF f.other = None
              THEN Relocks(t, MutexOf[f.obj], MutexOf[r], [f EXCEPT !.at = "unlink"])
              ELSE Goes(t, [f EXCEPT !.at = "unlink"]) /\ UNCHANGED holder
  /\ UNCHANGED <<life, lists, senders, conn, handles, switchers, metaCalls, calls>>

DisconnectUnlink(t) ==
  LET f == Top(t) IN
  /\ At(t, "disconnect", "unlink")
  /\ senders' = IF Broken(f.conn) THEN senders ELSE Unlinked(f.conn)
  /\ UnlockOther(f)
  /\ Goes(t, [f EXCEPT !.at = "zero", !.mutex = None])
  /\ UNCHANGED <<life, lists, conn, handles, switchers, metaCalls, calls>>

\* c->receiver = 0, when the receiver's mutex is unlocked again
DisconnectZero(t) ==
  LET f == Top(t) IN
  /\ At(t, "disconnect", "zero")
  /\ conn' = [conn EXCEPT ![f.conn].receiver = None]
  /\ Goes(t, [f EXCEPT !.at = "scan", !.broken = TRUE, !.conn = NextOf(f)])
  /\ UNCHANGED <<life, lists, senders, handles, switchers, metaCalls, holder, calls>>

\* if (disconnectHelper(...)) dirty = true
Dirtied_Overwritten(v, broken) == [v EXCEPT !.dirty = broken]
Dirtied(v, broken) == [v EXCEPT !.dirty = @ \/ broken]

DisconnectEnd(t) ==
  LET f == Top(t) IN
  /\ At(t, "disconnect", "scan") /\ f.conn = None /\ f.left = {}
  /\ lists' = [lists EXCEPT ![f.obj] = Leave(Dirtied(@, f.broken))]
  /\ UnlockAll(t) /\ Returns(t)
  /\ UNCHANGED <<life, senders, conn, handles, switchers, metaCalls, calls>>

-----------------------------------------------------------------------------
(* QMetaObject::activate and queued_activate                               *)

\* The frame of an emission that is to begin
Emission(s, g) == [NewFrame("emit", s) EXCEPT !.sig = g, !.want = <<MutexOf[s]>>]

EmitCall(t, s, g) ==
  /\ Calls(t) /\ Home[s] = t /\ life[s] # "dead"
  /\ Enters(t, Emission(s, g))
  /\ UNCHANGED <<life, lists, senders, conn, handles, switchers, metaCalls, holder>>

EmitBegin(t) ==
  LET f == Top(t)  all == lists[f.obj].of[f.sig] IN
  /\ At(t, "emit", "begin")
  /\ IF lists[f.obj].at = "none"
       THEN UnlockAll(t) /\ Returns(t) /\ UNCHANGED lists
       ELSE /\ lists' = [lists EXCEPT ![f.obj] = Enter(@)]
            /\ Goes(t, [f EXCEPT !.at = "look", !.conn = First(all),
                          !.last = IF all = <<>> THEN None ELSE Last(all),
                          !.due = Without(all, {c \in ToSet(all) : Broken(c)})])
            /\ UNCHANGED holder
  /\ UNCHANGED <<life, senders, conn, handles, switchers, metaCalls, calls>>

AtLast_Unchecked(f) == FALSE
AtLast(f) == f.conn = f.last
Advanced(f) == [f EXCEPT !.at = "look", !.conn = IF AtLast(f) THEN None ELSE NextOf(f)]

\* QConnectionSenderSwitcher, in the frame of the call
Switch(t, f, receiver) ==
  /\ currentSender' = [currentSender EXCEPT ![receiver] = Len(stack[t])]
  /\ Goes(t, [f EXCEPT !.at = "slot", !.prev = currentSender[receiver]])

EmitLook(t) ==
  LET f == Top(t)  r == conn[f.conn].receiver IN
  /\ At(t, "emit", "look") /\ f.conn # None
  /\ \/ /\ Broken(f.conn) /\ Goes(t, Advanced(f))
        /\ UNCHANGED <<holder, switchers, metaCalls>>
     \/ /\ ~Broken(f.conn) /\ Home[r] # t
        /\ metaCalls' = [metaCalls EXCEPT ![r] = Append(@, f.obj)]
        /\ Goes(t, [Advanced(f) EXCEPT !.called = Append(@, f.conn)])
        /\ UNCHANGED <<holder, switchers>>
     \/ /\ ~Broken(f.conn) /\ Home[r] = t
        /\ UnlockAll(t)
        /\ Switch(t, [f EXCEPT !.called = Append(@, f.conn), !.other = r], r)
        /\ UNCHANGED metaCalls
  /\ UNCHANGED <<life, lists, senders, conn, handles, dropped, calls>>

\* What the Sender of frame n, with previous p, tells p when its receiver has
\* been deleted
Told_Nothing(t, n, p) == {}
Told(t, n, p) == IF n \in dropped[t] /\ p # 0 THEN {p} ELSE {}

\* ~QConnectionSenderSwitcher: resetCurrentSender, of receiver r
SlotEnd(t, r) ==
  LET n == Len(stack[t])  p == Top(t).prev IN
  /\ currentSender' = IF n \in dropped[t] THEN currentSender
                      ELSE [currentSender EXCEPT ![r] = p]
  /\ dropped' = [dropped EXCEPT ![t] = (@ \ {n, p}) \cup Told(t, n, p)]

SlotReturn(t) ==
  LET f == Top(t) IN
  /\ At(t, "emit", "slot")
  /\ Goes(t, [f EXCEPT !.at = "relock", !.want = <<MutexOf[f.obj]>>])
  /\ UNCHANGED <<life, lists, senders, conn, handles, switchers, metaCalls,
                 holder, calls>>

EmitResume(t) ==
  LET f == Top(t) IN
  /\ At(t, "emit", "relock")
  /\ SlotEnd(t, f.other)
  /\ Goes(t, IF lists[f.obj].at = "orphaned" THEN [f EXCEPT !.at = "look", !.conn = None]
                                             ELSE Advanced(f))
  /\ UNCHANGED <<life, lists, senders, conn, handles, metaCalls, holder, calls>>

\* ~ConnectionListsRef
EmitEnd(t) ==
  LET f == Top(t) IN
  /\ At(t, "emit", "look") /\ f.conn = None
  /\ lists' = [lists EXCEPT ![f.obj] = Leave(@)]
  /\ UnlockAll(t) /\ Returns(t)
  /\ UNCHANGED <<life, senders, conn, handles, switchers, metaCalls, calls>>

\* QObject::event of a QMetaCallEvent; obj is the receiver and other the sender.
Deliver(t, o) ==
  /\ InUserCode(t) /\ Len(stack[t]) < MaxDepth
  /\ Home[o] = t /\ life[o] = "alive" /\ metaCalls[o] # <<>>
  /\ metaCalls' = [metaCalls EXCEPT ![o] = Tail(@)]
  /\ currentSender' = [currentSender EXCEPT ![o] = Len(stack[t]) + 1]
  /\ Enters(t, [NewFrame("event", o) EXCEPT !.at = "slot", !.other = Head(metaCalls[o]),
                  !.prev = currentSender[o]])
  /\ UNCHANGED <<life, lists, senders, conn, handles, dropped, holder, calls>>

DeliverEnd(t) ==
  /\ At(t, "event", "slot")
  /\ SlotEnd(t, Top(t).obj) /\ Returns(t)
  /\ UNCHANGED <<life, lists, senders, conn, handles, metaCalls, holder, calls>>

-----------------------------------------------------------------------------
(* QObject::~QObject, up to removePostedEvents in ~QObjectPrivate          *)

\* The destructor, in the thread of the object, emits destroyed first.
DeleteCall(t, o) ==
  /\ Calls(t) /\ Home[o] = t /\ life[o] = "alive"
  /\ \A u \in Threads : ~Named(u, o)
  /\ life' = [life EXCEPT ![o] = "dying"]
  /\ stack' = [stack EXCEPT ![t] = @ \o <<NewFrame("delete", o)>> \o
       IF Destroyed \in Signals /\ lists[o].of[Destroyed] # <<>>
         THEN <<Emission(o, Destroyed)>> ELSE <<>>]
  /\ UNCHANGED <<lists, senders, conn, handles, switchers, metaCalls, holder>>

HasConnections_AsSender(o) == lists[o].at = "used"
HasConnections(o) == lists[o].at = "used" \/ senders[o] # <<>>

\* d->currentSender->ref = 0; d->currentSender = 0; then the lists are looked
\* at without the mutex.
DeleteBegin(t) ==
  LET f == Top(t)  o == f.obj IN
  /\ At(t, "delete", "begin")
  /\ dropped' = [dropped EXCEPT ![t] = @ \cup ({currentSender[o]} \ {0})]
  /\ currentSender' = [currentSender EXCEPT ![o] = 0]
  /\ Goes(t, IF HasConnections(o) THEN [f EXCEPT !.at = "lists", !.want = <<MutexOf[o]>>]
                                  ELSE [f EXCEPT !.at = "free"])
  /\ UNCHANGED <<life, lists, senders, conn, handles, metaCalls, holder, calls>>

DeleteLists(t) ==
  LET f == Top(t) IN
  /\ At(t, "delete", "lists")
  /\ IF lists[f.obj].at = "used"
       THEN /\ lists' = [lists EXCEPT ![f.obj] = Enter(@)]
            /\ Goes(t, [f EXCEPT !.at = "receivers"])
       ELSE Goes(t, [f EXCEPT !.at = "senders"]) /\ UNCHANGED lists
  /\ UNCHANGED <<life, senders, conn, handles, switchers, metaCalls, holder, calls>>

\* The first connection of signal g leaves its list, and its use by the list
\* ends.
DropFirst(o, g, c, k) ==
  /\ lists' = [lists EXCEPT ![o].of[g] = Tail(@)]
  /\ conn' = [conn EXCEPT ![c] = Deref(k)]

DeleteReceivers(t) ==
  LET f == Top(t)  o == f.obj IN
  /\ At(t, "delete", "receivers")
  /\ \E g \in Signals :
       LET c == Head(lists[o].of[g]) IN
       /\ lists[o].of[g] # <<>>
       /\ IF Broken(c)
            THEN DropFirst(o, g, c, conn[c]) /\ UNCHANGED <<stack, holder>>
            ELSE /\ Relocks(t, MutexOf[o], MutexOf[conn[c].receiver],
                            [f EXCEPT !.at = "unlink", !.sig = g, !.conn = c])
                 /\ UNCHANGED <<lists, conn>>
  /\ UNCHANGED <<life, senders, handles, switchers, metaCalls, calls>>

DeleteUnlink(t) ==
  LET f == Top(t)  c == f.conn IN
  /\ At(t, "delete", "unlink")
  /\ senders' = IF Broken(c) THEN senders ELSE Unlinked(c)
  /\ DropFirst(f.obj, f.sig, c, [conn[c] EXCEPT !.receiver = None])
  /\ UnlockOther(f)
  /\ Goes(t, [f EXCEPT !.at = "receivers", !.sig = None, !.conn = None, !.mutex = None])
  /\ UNCHANGED <<life, handles, switchers, metaCalls, calls>>

DeleteListsEnd(t) ==
  LET f == Top(t)  o == f.obj IN
  /\ At(t, "delete", "receivers") /\ InSome(lists[o]) = {}
  /\ lists' = [lists EXCEPT ![o] = Leave([@ EXCEPT !.at = "orphaned"])]
  /\ Goes(t, [f EXCEPT !.at = "senders"])
  /\ UNCHANGED <<life, senders, conn, handles, switchers, metaCalls, holder, calls>>

\* node is always the first of the object's senders.
DeleteSenders(t) ==
  LET f == Top(t)  o == f.obj  s == conn[Head(senders[o])].sender IN
  /\ At(t, "delete", "senders")
  /\ IF senders[o] = <<>>
       THEN UnlockAll(t) /\ Goes(t, [f EXCEPT !.at = "free"])
       ELSE Relocks(t, MutexOf[o], MutexOf[s], [f EXCEPT !.at = "node", !.other = s])
  /\ UNCHANGED <<life, lists, senders, conn, handles, switchers, metaCalls, calls>>

\* The node may have been removed while the mutex was unlocked in relock.
NodeGone(o, s) == senders[o] = <<>> \/ conn[Head(senders[o])].sender # s

DeleteNode(t) ==
  LET f == Top(t)  o == f.obj IN
  /\ At(t, "delete", "node")
  /\ IF NodeGone(o, f.other)
       THEN UNCHANGED <<conn, lists, senders>>
       ELSE /\ conn' = [conn EXCEPT ![Head(senders[o])].receiver = None]
            /\ lists' = [lists EXCEPT ![f.other].dirty = @ \/ lists[f.other].at = "used"]
            /\ senders' = [senders EXCEPT ![o] = Tail(@)]
  /\ UnlockOther(f)
  /\ Goes(t, [f EXCEPT !.at = "senders", !.other = None, !.mutex = None])
  /\ UNCHANGED <<life, handles, switchers, metaCalls, calls>>

DeleteEnd(t) ==
  LET o == Top(t).obj IN
  /\ At(t, "delete", "free")
  /\ life' = [life EXCEPT ![o] = "dead"]
  /\ metaCalls' = [metaCalls EXCEPT ![o] = <<>>]
  /\ Returns(t)
  /\ UNCHANGED <<lists, senders, conn, handles, switchers, holder, calls>>

-----------------------------------------------------------------------------
Step(t) ==
  \/ Lock(t) \/ ConnectEnd(t)
  \/ DisconnectBegin(t) \/ DisconnectList(t) \/ DisconnectScan(t) \/ DisconnectUnlink(t)
  \/ DisconnectZero(t) \/ DisconnectEnd(t)
  \/ EmitBegin(t) \/ EmitLook(t) \/ SlotReturn(t) \/ EmitResume(t) \/ EmitEnd(t)
  \/ DeliverEnd(t)
  \/ DeleteBegin(t) \/ DeleteLists(t) \/ DeleteReceivers(t) \/ DeleteUnlink(t)
  \/ DeleteListsEnd(t) \/ DeleteSenders(t) \/ DeleteNode(t) \/ DeleteEnd(t)

UserCall(t) ==
  \/ \E s \in Objects, g \in Signals :
       EmitCall(t, s, g) \/ \E r \in Objects : ConnectCall(t, s, r, g)
  \/ \E s \in Objects, r \in Objects \cup {None}, g \in Scopes :
       DisconnectCall(t, s, r, g)
  \/ \E o \in Objects : Deliver(t, o) \/ DeleteCall(t, o)
  \/ \E c \in Conns : DropHandle(t, c) \/ DisconnectHandle(t, c)

Next == \E t \in Threads : Step(t) \/ UserCall(t)

Spec == Init /\ [][Next]_vars

\* Every thread goes on, and every slot returns.
FairSpec == Spec /\ \A t \in Threads : WF_vars(Step(t))

-----------------------------------------------------------------------------
(* Properties                                                              *)

Frames(t) == ToSet(stack[t])
AllFrames == UNION {Frames(t) : t \in Threads}

\* The variables have their types; inUse is never negative.
TypeOK ==
  /\ life \in [Objects -> {"alive", "dying", "dead"}]
  /\ lists \in [Objects -> Lists] /\ senders \in [Objects -> Seq(Conns)]
  /\ conn \in [Conns -> Connection] /\ handles \subseteq Conns
  /\ currentSender \in [Objects -> Nat] /\ dropped \in [Threads -> SUBSET Nat]
  /\ metaCalls \in [Objects -> Seq(Objects)]
  /\ stack \in [Threads -> Seq(Frame)] /\ holder \in [Mutexes -> Threads \cup {Free}]
  /\ calls \in 0 .. MaxCalls

\* Functions that have incremented inUse and not yet decremented it
Uses(f, o) ==
  /\ f.obj = o
  /\ \/ f.op = "emit" /\ f.at # "begin"
     \/ f.op = "disconnect" /\ f.at # "begin"
     \/ f.op = "delete" /\ f.at \in {"receivers", "unlink"}
Users(o) == UNION {{<<t, i>> : i \in {i \in DOMAIN stack[t] : Uses(stack[t][i], o)}} : t \in Threads}

\* QObjectConnectionListVector: inUse counts the functions that use the lists,
\* also when emissions are nested and slots delete the sender; the lists are
\* deleted with the last of them, neither before nor never.
ListsLiveWhileUsed ==
  \A o \in Objects : /\ lists[o].inUse = Cardinality(Users(o))
                     /\ lists[o].at \in {"none", "deleted"} => Users(o) = {}
                     /\ lists[o].at = "orphaned" => Users(o) # {}

\* ~QObject of a sender frees its connections under the emissions that run; they
\* find the lists orphaned before they look at a connection again.
Gone(o) == lists[o].at = "orphaned" \/ \E f \in AllFrames :
             f.op = "delete" /\ f.obj = o /\ f.at \in {"receivers", "unlink"}
\* QObjectPrivate::Connection: ref_ counts the list and the handle; a connection
\* in a receiver's list of senders has this receiver; whoever walks a list,
\* through slots and relocks that change it, finds itself in the list still.
NoFreedConnectionUsed ==
  /\ \A c \in Conns : conn[c].ref =
       Cardinality({o \in Objects : c \in InSome(lists[o])}) + Cardinality(handles \cap {c})
  /\ \A o \in Objects : \A c \in ToSet(senders[o]) : conn[c].receiver = o
  /\ \A o \in Objects : \A f \in AllFrames :
       Uses(f, o) /\ f.conn # None /\ ~(f.at \in {"slot", "relock"} /\ Gone(o)) =>
         {f.conn, f.last} \subseteq InSome(lists[o]) \cup {None}

\* f has unlinked c and is about to reset its receiver.
Zeroing(c) == \E f \in AllFrames : f.op = "disconnect" /\ f.at = "zero" /\ f.conn = c

\* What activate reads under the sender's mutex alone: the receiver of a
\* connection exists, and its destructor will find the connection, however
\* destructors and disconnections of several threads relock the mutexes.
ReceiversLive ==
  \A o \in Objects : \A c \in InSome(lists[o]) :
    ~Broken(c) /\ ~Zeroing(c) =>
      life[conn[c].receiver] # "dead" /\ c \in ToSet(senders[conn[c].receiver])

\* No broken connection stays in a list that the next connect does not clean.
BrokenAreDirty ==
  \A o \in Objects : (\E c \in InSome(lists[o]) : Broken(c)) =>
    lists[o].dirty \/ \E f \in AllFrames : Uses(f, o) /\ f.op # "emit"

\* What activate reads of an object under its mutex is about to change.
Touched(o) ==
  \/ lists'[o] # lists[o] \/ senders'[o] # senders[o]
  \/ \E c \in InSome(lists[o]) : conn'[c].receiver # conn[c].receiver
\* signalSlotLock: the lists of an object, their connections' receivers and its
\* senders change only in a thread that holds its mutex, whatever a relock has
\* unlocked on the way (QObject::disconnect(Connection) is one step here).
ListsGuarded ==
  [][\A o \in Objects : Touched(o) => \E t \in Threads :
       \/ Step(t) /\ holder[MutexOf[o]] = t
       \/ holder[MutexOf[o]] = Free /\ \E c \in Conns : DisconnectHandle(t, c)]_vars

\* "We need to check against last here to ensure that signals added during the
\* signal emission are not emitted in this emission" (activate): an emission
\* calls what was connected when it began, each once and in order, and leaves
\* out only what has been disconnected meanwhile.
EachOnce ==
  \A f \in AllFrames : f.op = "emit" =>
    /\ f.called = Without(f.due, ToSet(f.due) \ ToSet(f.called))
    /\ f.at = "look" /\ f.conn = None /\ lists[f.obj].at = "used" =>
         \A c \in ToSet(f.due) \ ToSet(f.called) : Broken(c)

\* The frames of an object's thread that run a slot of it
ReceiverOf(f) == IF f.op = "event" THEN f.obj ELSE f.other
Slots(o) == {i \in DOMAIN stack[Home[o]] :
               LET f == stack[Home[o]][i] IN f.op \in {"emit", "event"}
                 /\ f.at \in {"slot", "relock"} /\ ReceiverOf(f) = o}
\* QObject::sender in a slot, also when the slot is entered again and when its
\* object is deleted: currentSender is that of the innermost slot of the object,
\* and no switcher writes to an object that has been deleted.
CurrentSenderIsTop ==
  \A o \in Objects : LET top == CHOOSE i \in Slots(o) : \A j \in Slots(o) : j <= i IN
    IF Slots(o) = {} THEN life[o] = "alive" => currentSender[o] = 0
    ELSE /\ life[o] = "alive" => currentSender[o] = top
         /\ life[o] = "dead" => top \in dropped[Home[o]]

\* Emissions, connections, disconnections and destructors that lock the mutexes
\* of two objects in any combination do not wait for one another for ever.
EveryCallReturns == \A t \in Threads : stack[t] # <<>> ~> stack[t] = <<>>
=============================================================================
