------------------------ MODULE ReadWriteLockProofs ------------------------
(***************************************************************************)
(* Proofs that QReadWriteLock excludes and that its counters and those of  *)
(* its conditions stay natural numbers, and that no writer is left asleep  *)
(* beside a free lock, for any set of threads, infinite ones included,     *)
(* recursive or not, with time-outs.                                       *)
(*                                                                         *)
(* The counters count: accessCount the locks held, waitingReaders and      *)
(* waitingWriters the threads in the lock functions, waiters the threads   *)
(* in a condition.  Each is the cardinality of a set that a step changes   *)
(* by one element.                                                         *)
(***************************************************************************)
EXTENDS ReadWriteLock, FiniteSetTheorems, TLAPS

\* The locks of one kind, each thread's numbered from 1
Reads == [t \in Threads |-> held[t].read]
Writes == [t \in Threads |-> held[t].write]
Units(h) == UNION {{t} \X (1 .. h[t]) : t \in Threads}

\* Threads that are in a lock function, and in the wait of it, by their operations o
In(o, kind) == {t \in Threads : o[t].kind = kind}
Waits(o, kind) == {t \in Threads : o[t].kind = kind /\ o[t].at = "waiting"}

LocksCounted ==
  /\ IsFiniteSet(Units(Reads)) /\ IsFiniteSet(Units(Writes))
  /\ accessCount = Cardinality(Units(Reads)) - Cardinality(Units(Writes))

OneKind == \A t, u \in Threads : held[t].read > 0 => held[u].write = 0

OneWriter ==
  \A t, u \in Threads : held[t].write > 0 /\ held[u].write > 0 => t = u

RecursionKnown ==
  Recursive => \A t \in Threads : /\ currentReaders[t] = held[t].read
                                  /\ currentWriter = t <=> held[t].write > 0

FunctionsCounted ==
  /\ IsFiniteSet(In(op, "read")) /\ waitingReaders = Cardinality(In(op, "read"))
  /\ IsFiniteSet(In(op, "write")) /\ waitingWriters = Cardinality(In(op, "write"))

\* Condition c has been entered, and not left, by the threads of set w.
WaitedFor(c, w) ==
  /\ c.asleep \cup c.signalled \cup c.expired = w
  /\ c.asleep \cap c.signalled = {} /\ c.asleep \cap c.expired = {}
  /\ c.signalled \cap c.expired = {}
  /\ IsFiniteSet(w) /\ c.waiters = Cardinality(w)

LockTypes ==
  /\ accessCount \in Int
  /\ currentWriter \in Threads \cup {NoThread} /\ currentReaders \in [Threads -> Nat]
  /\ held \in [Threads -> [read : Nat, write : Nat]]
WaitTypes ==
  /\ readerWait \in ConditionOf(Threads) /\ writerWait \in ConditionOf(Threads)
  /\ op \in [Threads -> Op]

LockInv == LockTypes /\ LocksCounted /\ OneKind /\ OneWriter /\ RecursionKnown
WaitInv == /\ WaitTypes /\ FunctionsCounted
           /\ WaitedFor(readerWait, Waits(op, "read")) /\ WaitedFor(writerWait, Waits(op, "write"))
IInv == LockInv /\ WaitInv

-----------------------------------------------------------------------------
(* Counting                                                                *)

\* The locks of t are numbered from 1 to h[t].
LEMMA UnitsMember ==
  ASSUME NEW h, NEW t, NEW n
  PROVE  <<t, n>> \in Units(h) <=> t \in Threads /\ n \in 1 .. h[t]
BY DEF Units

\* A member of Units is a thread with a number.
LEMMA UnitsShape ==
  ASSUME NEW h, NEW u \in Units(h)
  PROVE  u = <<u[1], u[2]>> /\ u[1] \in Threads /\ u[2] \in 1 .. h[u[1]]
BY DEF Units

\* A thread takes one lock more.
LEMMA UnitTaken ==
  ASSUME NEW h \in [Threads -> Nat], NEW t \in Threads, IsFiniteSet(Units(h))
  PROVE  /\ IsFiniteSet(Units([h EXCEPT ![t] = h[t] + 1]))
         /\ Cardinality(Units([h EXCEPT ![t] = h[t] + 1])) = Cardinality(Units(h)) + 1
<1> DEFINE new == [h EXCEPT ![t] = h[t] + 1]
           unit == <<t, h[t] + 1>>
<1>1. /\ h[t] \in Nat /\ new[t] = h[t] + 1
      /\ \A s \in Threads : s # t => new[s] = h[s]
  OBVIOUS
<1>2. \A s \in Threads : \A n : n \in 1 .. new[s] <=> n \in 1 .. h[s] \/ <<s, n>> = unit
  BY <1>1
<1>3. unit \notin Units(h)
  BY <1>1, UnitsMember
<1> HIDE DEF new, unit
<1>4. Units(new) = Units(h) \cup {unit}
  <2>1. \A s, n : <<s, n>> \in Units(new) <=> <<s, n>> \in Units(h) \cup {unit}
    BY <1>2, UnitsMember DEF unit
  <2>2. \A u \in Units(new) : u = <<u[1], u[2]>>
    BY UnitsShape
  <2>3. \A u \in Units(h) \cup {unit} : u = <<u[1], u[2]>>
    BY UnitsShape DEF unit
  <2> QED
    BY <2>1, <2>2, <2>3
<1>5. IsFiniteSet(Units(new)) /\ Cardinality(Units(new)) = Cardinality(Units(h)) + 1
  BY <1>3, <1>4, FS_AddElement
<1> QED
  BY <1>5 DEF new

\* A thread that has a lock releases one.
LEMMA UnitReleased ==
  ASSUME NEW h \in [Threads -> Nat], NEW t \in Threads, IsFiniteSet(Units(h)), h[t] > 0
  PROVE  /\ IsFiniteSet(Units([h EXCEPT ![t] = h[t] - 1]))
         /\ Cardinality(Units([h EXCEPT ![t] = h[t] - 1])) = Cardinality(Units(h)) - 1
<1> DEFINE new == [h EXCEPT ![t] = h[t] - 1]
           unit == <<t, h[t]>>
<1>1. /\ h[t] \in Nat /\ new[t] = h[t] - 1
      /\ \A s \in Threads : s # t => new[s] = h[s]
  OBVIOUS
<1>2. \A s \in Threads : \A n : n \in 1 .. new[s] <=> n \in 1 .. h[s] /\ <<s, n>> # unit
  BY <1>1
<1>3. unit \in Units(h)
  BY <1>1, UnitsMember
<1> HIDE DEF new, unit
<1>4. Units(new) = Units(h) \ {unit}
  <2>1. \A s, n : <<s, n>> \in Units(new) <=> <<s, n>> \in Units(h) \ {unit}
    BY <1>2, UnitsMember DEF unit
  <2>2. \A u \in Units(new) : u = <<u[1], u[2]>>
    BY UnitsShape
  <2>3. \A u \in Units(h) \ {unit} : u = <<u[1], u[2]>>
    BY UnitsShape
  <2> QED
    BY <2>1, <2>2, <2>3
<1>5. IsFiniteSet(Units(new)) /\ Cardinality(Units(new)) = Cardinality(Units(h)) - 1
  BY <1>3, <1>4, FS_RemoveElement
<1> QED
  BY <1>5 DEF new

\* No lock is held exactly when none is counted.
LEMMA NoUnits ==
  ASSUME NEW h \in [Threads -> Nat], IsFiniteSet(Units(h))
  PROVE  /\ Cardinality(Units(h)) \in Nat
         /\ Cardinality(Units(h)) = 0 <=> \A t \in Threads : h[t] = 0
<1>1. Cardinality(Units(h)) \in Nat
  BY FS_CardinalityType
<1>2. Cardinality(Units(h)) = 0 <=> Units(h) = {}
  BY FS_EmptySet
<1>3. ASSUME Units(h) = {}, NEW t \in Threads
      PROVE  h[t] = 0
  <2>1. 1 \notin 1 .. h[t]
    BY <1>3, UnitsMember
  <2> QED
    BY <2>1
<1>4. ASSUME \A t \in Threads : h[t] = 0, Units(h) # {}
      PROVE  FALSE
  <2>1. PICK u \in Units(h) : TRUE
    BY <1>4
  <2>2. u[2] \in 1 .. h[u[1]] /\ h[u[1]] = 0
    BY <1>4, UnitsShape
  <2> QED
    BY <2>2
<1> QED
  BY <1>1, <1>2, <1>3, <1>4

-----------------------------------------------------------------------------
(* The locks                                                               *)

\* What is held are natural numbers of locks of either kind.
LEMMA HeldTypes ==
  ASSUME LockTypes
  PROVE  /\ Reads \in [Threads -> Nat] /\ Writes \in [Threads -> Nat]
         /\ \A t \in Threads : /\ held[t] \in [read : Nat, write : Nat]
                               /\ Reads[t] = held[t].read /\ Reads[t] \in Nat
                               /\ Writes[t] = held[t].write /\ Writes[t] \in Nat
BY DEF LockTypes, Reads, Writes

\* accessCount tells by its sign which locks are held.
LEMMA SignTells ==
  ASSUME LockInv
  PROVE  /\ accessCount = 0 => \A t \in Threads : held[t].read = 0 /\ held[t].write = 0
         /\ accessCount > 0 => /\ \E t \in Threads : held[t].read > 0
                               /\ \A t \in Threads : held[t].write = 0
         /\ accessCount < 0 => /\ \E t \in Threads : held[t].write > 0
                               /\ \A t \in Threads : held[t].read = 0
<1> DEFINE r == Cardinality(Units(Reads))
           w == Cardinality(Units(Writes))
<1>1. /\ Reads \in [Threads -> Nat] /\ Writes \in [Threads -> Nat]
      /\ \A t \in Threads : /\ Reads[t] = held[t].read /\ Reads[t] \in Nat
                            /\ Writes[t] = held[t].write /\ Writes[t] \in Nat
  BY HeldTypes DEF LockInv
<1>2. r \in Nat /\ (r = 0 <=> \A t \in Threads : Reads[t] = 0)
  BY <1>1, NoUnits DEF LockInv, LocksCounted
<1>3. w \in Nat /\ (w = 0 <=> \A t \in Threads : Writes[t] = 0)
  BY <1>1, NoUnits DEF LockInv, LocksCounted
<1>4. accessCount = r - w
  BY DEF LockInv, LocksCounted
<1> HIDE DEF r, w
<1>5. r = 0 \/ w = 0
  BY <1>1, <1>2, <1>3 DEF LockInv, OneKind
<1> QED
  BY <1>1, <1>2, <1>3, <1>4, <1>5

lockVars == <<accessCount, currentWriter, currentReaders, held>>

\* A step that does not touch the lock keeps LockInv.
LEMMA LocksKept ==
  ASSUME LockInv, UNCHANGED lockVars
  PROVE  LockInv'
BY DEF LockInv, lockVars, LockTypes, LocksCounted, OneKind, OneWriter,
       RecursionKnown, Reads, Writes, Units

\* A thread obtains the lock for reading when no thread writes.
LEMMA ReadTaken ==
  ASSUME LockInv, NEW t \in Threads, TakeRead(t), accessCount >= 0 \/ AlreadyReading(t)
  PROVE  LockInv'
<1> USE DEF LockInv
<1>1. /\ Reads \in [Threads -> Nat] /\ Writes \in [Threads -> Nat]
      /\ \A s \in Threads : /\ held[s] \in [read : Nat, write : Nat]
                            /\ Reads[s] = held[s].read /\ Writes[s] = held[s].write
  BY HeldTypes
<1>2. \A s \in Threads : held[s].write = 0
  <2>1. CASE AlreadyReading(t)
    BY <2>1 DEF AlreadyReading, RecursionKnown, OneKind
  <2>2. CASE accessCount >= 0
    BY <2>2, SignTells DEF LockTypes
  <2> QED
    BY <2>1, <2>2
<1>3. /\ held' \in [Threads -> [read : Nat, write : Nat]]
      /\ \A s \in Threads : /\ held'[s].write = held[s].write
                            /\ held'[s].read = IF s = t THEN held[s].read + 1 ELSE held[s].read
  BY <1>1 DEF TakeRead, LockTypes
<1>4. Reads' = [Reads EXCEPT ![t] = Reads[t] + 1] /\ Writes' = Writes
  BY <1>1, <1>3 DEF Reads, Writes
<1>5. LockTypes'
  BY <1>3 DEF TakeRead, LockTypes
<1>6. LocksCounted'
  <2>1. /\ IsFiniteSet(Units([Reads EXCEPT ![t] = Reads[t] + 1]))
        /\ Cardinality(Units([Reads EXCEPT ![t] = Reads[t] + 1])) = Cardinality(Units(Reads)) + 1
    BY <1>1, UnitTaken DEF LocksCounted
  <2>2. Cardinality(Units(Reads)) \in Nat /\ Cardinality(Units(Writes)) \in Nat
    BY FS_CardinalityType DEF LocksCounted
  <2>3. Units(Reads)' = Units(Reads') /\ Units(Writes)' = Units(Writes')
    BY DEF Units
  <2>4. accessCount' = accessCount + 1
    BY DEF TakeRead
  <2> QED
    BY <1>4, <2>1, <2>2, <2>3, <2>4 DEF LocksCounted
<1>7. OneKind' /\ OneWriter'
  BY <1>2, <1>3 DEF OneKind, OneWriter
<1>8. RecursionKnown'
  BY <1>3 DEF RecursionKnown, TakeRead, LockTypes
<1> QED
  BY <1>5, <1>6, <1>7, <1>8

\* A thread obtains the lock for writing when nobody else has it.
LEMMA WriteTaken ==
  ASSUME LockInv, NEW t \in Threads, TakeWrite(t), accessCount = 0 \/ AlreadyWriting(t)
  PROVE  LockInv'
<1> USE DEF LockInv
<1>1. /\ Reads \in [Threads -> Nat] /\ Writes \in [Threads -> Nat]
      /\ \A s \in Threads : /\ held[s] \in [read : Nat, write : Nat]
                            /\ Reads[s] = held[s].read /\ Writes[s] = held[s].write
  BY HeldTypes
<1>2. \A s \in Threads : held[s].read = 0 /\ (s # t => held[s].write = 0)
  <2>1. CASE AlreadyWriting(t)
    <3>1. held[t].write > 0
      BY <2>1 DEF AlreadyWriting, RecursionKnown
    <3>2. \A s \in Threads : held[s].read \in Nat /\ held[s].write \in Nat
      BY <1>1
    <3> QED
      BY <3>1, <3>2 DEF OneKind, OneWriter
  <2>2. CASE accessCount = 0
    BY <2>2, SignTells
  <2> QED
    BY <2>1, <2>2
<1>3. /\ held' \in [Threads -> [read : Nat, write : Nat]]
      /\ \A s \in Threads : /\ held'[s].read = held[s].read
                            /\ held'[s].write = IF s = t THEN held[s].write + 1 ELSE held[s].write
  BY <1>1 DEF TakeWrite, LockTypes
<1>4. Writes' = [Writes EXCEPT ![t] = Writes[t] + 1] /\ Reads' = Reads
  BY <1>1, <1>3 DEF Reads, Writes
<1>5. LockTypes'
  BY <1>3 DEF TakeWrite, LockTypes
<1>6. LocksCounted'
  <2>1. /\ IsFiniteSet(Units([Writes EXCEPT ![t] = Writes[t] + 1]))
        /\ Cardinality(Units([Writes EXCEPT ![t] = Writes[t] + 1])) = Cardinality(Units(Writes)) + 1
    BY <1>1, UnitTaken DEF LocksCounted
  <2>2. Cardinality(Units(Reads)) \in Nat /\ Cardinality(Units(Writes)) \in Nat
    BY FS_CardinalityType DEF LocksCounted
  <2>3. Units(Reads)' = Units(Reads') /\ Units(Writes)' = Units(Writes')
    BY DEF Units
  <2>4. accessCount' = accessCount - 1
    BY DEF TakeWrite
  <2> QED
    BY <1>4, <2>1, <2>2, <2>3, <2>4 DEF LocksCounted
<1>7. OneKind' /\ OneWriter'
  BY <1>1, <1>2, <1>3 DEF OneKind, OneWriter
<1>8. RecursionKnown'
  BY <1>1, <1>2, <1>3 DEF RecursionKnown, TakeWrite, LockTypes
<1> QED
  BY <1>5, <1>6, <1>7, <1>8

\* unlock takes back a lock of the kind that the thread holds.
LEMMA Unlocked ==
  ASSUME LockInv, NEW t \in Threads, Unlock(t)
  PROVE  LockInv'
<1> USE DEF LockInv
<1>1. /\ Reads \in [Threads -> Nat] /\ Writes \in [Threads -> Nat]
      /\ \A s \in Threads : /\ held[s] \in [read : Nat, write : Nat]
                            /\ held[s].read \in Nat /\ held[s].write \in Nat
                            /\ Reads[s] = held[s].read /\ Writes[s] = held[s].write
  BY HeldTypes
<1>2. held[t].read > 0 \/ held[t].write > 0
  BY <1>1 DEF Unlock
<1>3. accessCount \in Int
  BY DEF LockTypes
<1>4. Units(Reads)' = Units(Reads') /\ Units(Writes)' = Units(Writes')
  BY DEF Units
<1>5. Cardinality(Units(Reads)) \in Nat /\ Cardinality(Units(Writes)) \in Nat
  BY FS_CardinalityType DEF LocksCounted
<1>6. CASE accessCount > 0
  <2>1. held[t].read > 0 /\ \A s \in Threads : held[s].write = 0
    BY <1>2, <1>6, SignTells
  <2>2. /\ accessCount' = accessCount - 1
        /\ held' = [held EXCEPT ![t].read = @ - 1]
        /\ currentReaders' = IF AlreadyReading(t) THEN [currentReaders EXCEPT ![t] = @ - 1]
                                                  ELSE currentReaders
        /\ currentWriter' = currentWriter
    BY <1>6 DEF Unlock
  <2>3. /\ held' \in [Threads -> [read : Nat, write : Nat]]
        /\ \A s \in Threads : /\ held'[s].write = held[s].write
                              /\ held'[s].read = IF s = t THEN held[s].read - 1 ELSE held[s].read
    BY <1>1, <2>1, <2>2 DEF LockTypes
  <2>4. Reads' = [Reads EXCEPT ![t] = Reads[t] - 1] /\ Writes' = Writes
    BY <1>1, <2>3 DEF Reads, Writes
  <2>5. LockTypes'
    BY <2>2, <2>3 DEF LockTypes, AlreadyReading
  <2>6. LocksCounted'
    <3>1. /\ IsFiniteSet(Units([Reads EXCEPT ![t] = Reads[t] - 1]))
          /\ Cardinality(Units([Reads EXCEPT ![t] = Reads[t] - 1])) = Cardinality(Units(Reads)) - 1
      BY <1>1, <2>1, UnitReleased DEF LocksCounted
    <3> QED
      BY <1>4, <1>5, <2>2, <2>4, <3>1 DEF LocksCounted
  <2>7. OneKind' /\ OneWriter'
    BY <2>1, <2>3 DEF OneKind, OneWriter
  <2>8. RecursionKnown'
    BY <2>1, <2>2, <2>3 DEF RecursionKnown, AlreadyReading, LockTypes
  <2> QED
    BY <2>5, <2>6, <2>7, <2>8
<1>7. CASE ~(accessCount > 0)
  <2>1. /\ held[t].write > 0
        /\ \A s \in Threads : held[s].read = 0 /\ (s # t => held[s].write = 0)
    <3>1. accessCount < 0
      BY <1>1, <1>2, <1>3, <1>7, SignTells
    <3>2. \A s \in Threads : held[s].read = 0
      BY <3>1, SignTells
    <3> QED
      BY <1>1, <1>2, <3>2 DEF OneWriter
  <2>2. /\ accessCount' = accessCount + 1
        /\ held' = [held EXCEPT ![t].write = @ - 1]
        /\ currentWriter' = IF accessCount' = 0 THEN NoThread ELSE currentWriter
        /\ currentReaders' = currentReaders
    BY <1>3, <1>7 DEF Unlock
  <2>3. /\ held' \in [Threads -> [read : Nat, write : Nat]]
        /\ \A s \in Threads : /\ held'[s].read = held[s].read
                              /\ held'[s].write = IF s = t THEN held[s].write - 1 ELSE held[s].write
    BY <1>1, <2>1, <2>2 DEF LockTypes
  <2>4. Writes' = [Writes EXCEPT ![t] = Writes[t] - 1] /\ Reads' = Reads
    BY <1>1, <2>3 DEF Reads, Writes
  <2>5. LockTypes'
    BY <2>2, <2>3, <1>3 DEF LockTypes
  <2>6. LocksCounted'
    <3>1. /\ IsFiniteSet(Units([Writes EXCEPT ![t] = Writes[t] - 1]))
          /\ Cardinality(Units([Writes EXCEPT ![t] = Writes[t] - 1])) = Cardinality(Units(Writes)) - 1
      BY <1>1, <2>1, UnitReleased DEF LocksCounted
    <3> QED
      BY <1>4, <1>5, <2>2, <2>4, <3>1 DEF LocksCounted
  <2>7. OneKind' /\ OneWriter'
    BY <1>1, <2>1, <2>3 DEF OneKind, OneWriter
  <2>8. accessCount' = 0 <=> held'[t].write = 0
    <3>1. /\ Cardinality(Units(Reads')) = 0
          /\ Cardinality(Units(Writes')) = 0 <=> \A s \in Threads : Writes'[s] = 0
      <4>1. /\ Reads' \in [Threads -> Nat] /\ Writes' \in [Threads -> Nat]
            /\ \A s \in Threads : Reads'[s] = 0 /\ Writes'[s] = held'[s].write
        BY <2>1, <2>3 DEF Reads, Writes
      <4>2. IsFiniteSet(Units(Reads')) /\ IsFiniteSet(Units(Writes'))
        BY <1>4, <2>6 DEF LocksCounted
      <4> QED
        BY <4>1, <4>2, NoUnits
    <3>2. \A s \in Threads : Writes'[s] = IF s = t THEN held'[t].write ELSE 0
      BY <2>1, <2>3 DEF Writes
    <3>3. accessCount' = Cardinality(Units(Reads')) - Cardinality(Units(Writes'))
      BY <1>4, <2>6 DEF LocksCounted
    <3>4. Cardinality(Units(Writes')) \in Nat
      BY <1>4, <2>6, FS_CardinalityType DEF LocksCounted
    <3> QED
      BY <3>1, <3>2, <3>3, <3>4
  <2>9. RecursionKnown'
    <3>1. \A s \in Threads : s # NoThread
      BY LockAssumption
    <3> QED
      BY <1>1, <2>1, <2>2, <2>3, <2>8, <3>1 DEF RecursionKnown
  <2> QED
    BY <2>5, <2>6, <2>7, <2>9
<1> QED
  BY <1>6, <1>7

-----------------------------------------------------------------------------
(* The conditions                                                          *)

\* A thread goes to sleep in a condition.
LEMMA WaitEntered ==
  ASSUME NEW c \in ConditionOf(Threads), NEW w, WaitedFor(c, w), NEW t \in Threads \ w
  PROVE  Sleep(c, t) \in ConditionOf(Threads) /\ WaitedFor(Sleep(c, t), w \cup {t})
<1>1. IsFiniteSet(w \cup {t}) /\ Cardinality(w \cup {t}) = Cardinality(w) + 1
  BY FS_AddElement DEF WaitedFor
<1>2. c.waiters \in Nat /\ c.waiters + 1 \in Nat
  BY DEF ConditionOf
<1>3. /\ Sleep(c, t) \in ConditionOf(Threads) /\ Sleep(c, t).waiters = c.waiters + 1
      /\ Sleep(c, t).asleep = c.asleep \cup {t} /\ Sleep(c, t).signalled = c.signalled
      /\ Sleep(c, t).expired = c.expired
  BY <1>2 DEF Sleep, ConditionOf
<1> QED
  BY <1>1, <1>3 DEF WaitedFor

\* wakeOne moves threads among those of the condition.
LEMMA WaitWoken ==
  ASSUME NEW c \in ConditionOf(Threads), NEW w, WaitedFor(c, w), NEW new \in WokenOne(c)
  PROVE  new \in ConditionOf(Threads) /\ WaitedFor(new, w)
<1> DEFINE n == IF c.wakeups < c.waiters THEN c.wakeups + 1 ELSE c.waiters
<1>1. n \in Nat
  BY DEF ConditionOf
<1>2. CASE c.asleep = {}
  <2>1. new = [c EXCEPT !.wakeups = n]
    BY <1>2 DEF WokenOne
  <2> QED
    BY <1>1, <2>1 DEF WaitedFor, ConditionOf
<1>3. CASE c.asleep # {}
  <2>1. PICK t \in c.asleep :
          new = [[c EXCEPT !.wakeups = n] EXCEPT !.asleep = @ \ {t}, !.signalled = @ \cup {t}]
    BY <1>3 DEF WokenOne
  <2>2. /\ new \in ConditionOf(Threads) /\ new.waiters = c.waiters
        /\ new.asleep = c.asleep \ {t} /\ new.signalled = c.signalled \cup {t}
        /\ new.expired = c.expired
    BY <1>1, <2>1 DEF ConditionOf
  <2> QED
    BY <2>2 DEF WaitedFor
<1> QED
  BY <1>2, <1>3

\* So does wakeAll.
LEMMA WaitAllWoken ==
  ASSUME NEW c \in ConditionOf(Threads), NEW w, WaitedFor(c, w)
  PROVE  WokenAll(c) \in ConditionOf(Threads) /\ WaitedFor(WokenAll(c), w)
BY DEF WaitedFor, WokenAll, ConditionOf

\* So does a time-out, a spurious wake-up, or one more sleep.
LEMMA WaitStepped ==
  ASSUME NEW c \in ConditionOf(Threads), NEW w, WaitedFor(c, w), NEW t \in Threads, NEW new,
         Steps(c, t, new)
  PROVE  new \in ConditionOf(Threads) /\ WaitedFor(new, w)
<1>1. CASE t \in c.asleep /\ new = Expired(c, t)
  BY <1>1 DEF WaitedFor, Expired, ConditionOf
<1>2. CASE t \in c.asleep /\ new = Spurious(c, t)
  BY <1>2 DEF WaitedFor, Spurious, ConditionOf
<1>3. CASE SleepsAgain(c, t) /\ new = AsleepAgain(c, t)
  BY <1>3 DEF WaitedFor, SleepsAgain, AsleepAgain, ConditionOf
<1> QED
  BY <1>1, <1>2, <1>3 DEF Steps

\* A thread returns from a condition.
LEMMA WaitLeft ==
  ASSUME NEW c \in ConditionOf(Threads), NEW w, WaitedFor(c, w), NEW t, Leaves(c, t)
  PROVE  t \in w /\ Left(c, t) \in ConditionOf(Threads) /\ WaitedFor(Left(c, t), w \ {t})
<1>1. t \in w /\ t \notin c.asleep
  BY DEF WaitedFor, Leaves
<1>2. IsFiniteSet(w \ {t}) /\ Cardinality(w \ {t}) = Cardinality(w) - 1
  BY <1>1, FS_RemoveElement DEF WaitedFor
<1>3. Cardinality(w \ {t}) \in Nat
  BY <1>2, FS_CardinalityType
<1>4. c.waiters - 1 \in Nat
  BY <1>2, <1>3 DEF WaitedFor
<1>5. c.wakeups - (IF t \in c.signalled THEN 1 ELSE 0) \in Nat
  BY DEF WaitedFor, Leaves, ConditionOf
<1>6. /\ Left(c, t) \in ConditionOf(Threads) /\ Left(c, t).waiters = c.waiters - 1
      /\ Left(c, t).asleep = c.asleep /\ Left(c, t).signalled = c.signalled \ {t}
      /\ Left(c, t).expired = c.expired \ {t}
  BY <1>4, <1>5 DEF Left, ConditionOf
<1>7. Left(c, t).asleep \cup Left(c, t).signalled \cup Left(c, t).expired = w \ {t}
  BY <1>1, <1>6 DEF WaitedFor
<1> QED
  BY <1>1, <1>2, <1>6, <1>7 DEF WaitedFor

-----------------------------------------------------------------------------
(* The lock functions                                                      *)

waitVars == <<waitingReaders, waitingWriters, readerWait, writerWait, op>>

\* A step that does not touch the waits keeps WaitInv.
LEMMA WaitsKept ==
  ASSUME WaitInv, UNCHANGED waitVars
  PROVE  WaitInv'
BY DEF WaitInv, waitVars, WaitTypes, FunctionsCounted, WaitedFor, In, Waits

\* A thread that is in no lock function stays out of them.
LEMMA StaysOut ==
  ASSUME WaitInv, NEW t \in Threads, op[t].kind = "none", op' = [op EXCEPT ![t] = NoOp],
         UNCHANGED <<waitingReaders, waitingWriters, readerWait, writerWait>>
  PROVE  WaitInv'
<1>op. op \in [Threads -> Op]
  BY DEF WaitInv, WaitTypes
<1>1. NoOp \in Op /\ NoOp.kind = "none"
  BY DEF NoOp, Op
<1>2. \A kind \in {"read", "write"} : t \notin In(op, kind) /\ t \notin Waits(op, kind)
  BY DEF In, Waits
<1>opNew. op' \in [Threads -> Op] /\ \A s \in Threads : op'[s] = IF s = t THEN NoOp ELSE op[s]
  BY <1>op, <1>1
<1>3. \A kind \in {"read", "write"} : In(op', kind) = In(op, kind) /\ Waits(op', kind) = Waits(op, kind)
  BY <1>1, <1>2, <1>opNew DEF In, Waits
<1> QED
  BY <1>opNew, <1>3 DEF WaitInv, WaitTypes, FunctionsCounted, WaitedFor

\* A reader is counted and begins to wait.
LEMMA ReaderWaits ==
  ASSUME WaitInv, NEW t \in Threads, op[t].kind = "none", NEW mode,
         waitingReaders' = waitingReaders + 1, readerWait' = Sleep(readerWait, t),
         op' = [op EXCEPT ![t] = Waiting("read", mode)],
         UNCHANGED <<waitingWriters, writerWait>>
  PROVE  WaitInv'
<1>op. op \in [Threads -> Op]
  BY DEF WaitInv, WaitTypes
<1> DEFINE new == Waiting("read", mode)
<1>1. new \in Op /\ new.kind = "read" /\ new.at = "waiting"
  BY DEF Waiting, Op
<1>2. \A kind \in {"read", "write"} : t \notin In(op, kind) /\ t \notin Waits(op, kind)
  BY DEF In, Waits
<1>opNew. op' \in [Threads -> Op] /\ \A s \in Threads : op'[s] = IF s = t THEN new ELSE op[s]
  BY <1>op, <1>1
<1>3. In(op', "read") = In(op, "read") \cup {t} /\ In(op', "write") = In(op, "write")
      /\ Waits(op', "read") = Waits(op, "read") \cup {t} /\ Waits(op', "write") = Waits(op, "write")
  BY <1>1, <1>2, <1>opNew DEF In, Waits
<1>4. /\ Sleep(readerWait, t) \in ConditionOf(Threads)
      /\ WaitedFor(Sleep(readerWait, t), Waits(op, "read") \cup {t})
  BY <1>2, WaitEntered DEF WaitInv, WaitTypes
<1>5. FunctionsCounted'
  <2>1. FunctionsCounted
    BY DEF WaitInv
  <2>2. /\ IsFiniteSet(In(op, "read") \cup {t})
        /\ Cardinality(In(op, "read") \cup {t}) = Cardinality(In(op, "read")) + 1
    BY <1>2, <2>1, FS_AddElement DEF FunctionsCounted
  <2> QED
    BY <1>3, <2>1, <2>2 DEF FunctionsCounted
<1> QED
  BY <1>opNew, <1>3, <1>4, <1>5 DEF WaitInv, WaitTypes, WaitedFor

\* A writer is counted and begins to wait.
LEMMA WriterWaits ==
  ASSUME WaitInv, NEW t \in Threads, op[t].kind = "none", NEW mode,
         waitingWriters' = waitingWriters + 1, writerWait' = Sleep(writerWait, t),
         op' = [op EXCEPT ![t] = Waiting("write", mode)],
         UNCHANGED <<waitingReaders, readerWait>>
  PROVE  WaitInv'
<1>op. op \in [Threads -> Op]
  BY DEF WaitInv, WaitTypes
<1> DEFINE new == Waiting("write", mode)
<1>1. new \in Op /\ new.kind = "write" /\ new.at = "waiting"
  BY DEF Waiting, Op
<1>2. \A kind \in {"read", "write"} : t \notin In(op, kind) /\ t \notin Waits(op, kind)
  BY DEF In, Waits
<1>opNew. op' \in [Threads -> Op] /\ \A s \in Threads : op'[s] = IF s = t THEN new ELSE op[s]
  BY <1>op, <1>1
<1>3. In(op', "write") = In(op, "write") \cup {t} /\ In(op', "read") = In(op, "read")
      /\ Waits(op', "write") = Waits(op, "write") \cup {t} /\ Waits(op', "read") = Waits(op, "read")
  BY <1>1, <1>2, <1>opNew DEF In, Waits
<1>4. /\ Sleep(writerWait, t) \in ConditionOf(Threads)
      /\ WaitedFor(Sleep(writerWait, t), Waits(op, "write") \cup {t})
  BY <1>2, WaitEntered DEF WaitInv, WaitTypes
<1>5. FunctionsCounted'
  <2>1. FunctionsCounted
    BY DEF WaitInv
  <2>2. /\ IsFiniteSet(In(op, "write") \cup {t})
        /\ Cardinality(In(op, "write") \cup {t}) = Cardinality(In(op, "write")) + 1
    BY <1>2, <2>1, FS_AddElement DEF FunctionsCounted
  <2> QED
    BY <1>3, <2>1, <2>2 DEF FunctionsCounted
<1> QED
  BY <1>opNew, <1>3, <1>4, <1>5 DEF WaitInv, WaitTypes, WaitedFor

\* A thread that is back from its wait leaves the lock function.
LEMMA ReaderLeaves ==
  ASSUME WaitInv, NEW t \in Threads, op[t].kind = "read", op[t].at # "waiting",
         waitingReaders' = waitingReaders - 1, op' = [op EXCEPT ![t] = NoOp],
         UNCHANGED <<waitingWriters, readerWait, writerWait>>
  PROVE  WaitInv'
<1>op. op \in [Threads -> Op]
  BY DEF WaitInv, WaitTypes
<1>1. NoOp \in Op /\ NoOp.kind = "none"
  BY DEF NoOp, Op
<1>2. /\ t \in In(op, "read") /\ t \notin In(op, "write")
      /\ t \notin Waits(op, "read") /\ t \notin Waits(op, "write")
  BY DEF In, Waits
<1>opNew. op' \in [Threads -> Op] /\ \A s \in Threads : op'[s] = IF s = t THEN NoOp ELSE op[s]
  BY <1>op, <1>1
<1>3. In(op', "read") = In(op, "read") \ {t} /\ In(op', "write") = In(op, "write")
      /\ Waits(op', "read") = Waits(op, "read") /\ Waits(op', "write") = Waits(op, "write")
  BY <1>1, <1>2, <1>opNew DEF In, Waits
<1>4. FunctionsCounted'
  BY <1>2, <1>3, FS_RemoveElement DEF WaitInv, FunctionsCounted
<1> QED
  BY <1>opNew, <1>3, <1>4 DEF WaitInv, WaitTypes, WaitedFor

\* So does a writer.
LEMMA WriterLeaves ==
  ASSUME WaitInv, NEW t \in Threads, op[t].kind = "write", op[t].at # "waiting",
         waitingWriters' = waitingWriters - 1, op' = [op EXCEPT ![t] = NoOp],
         UNCHANGED <<waitingReaders, readerWait, writerWait>>
  PROVE  WaitInv'
<1>op. op \in [Threads -> Op]
  BY DEF WaitInv, WaitTypes
<1>1. NoOp \in Op /\ NoOp.kind = "none"
  BY DEF NoOp, Op
<1>2. /\ t \in In(op, "write") /\ t \notin In(op, "read")
      /\ t \notin Waits(op, "read") /\ t \notin Waits(op, "write")
  BY DEF In, Waits
<1>opNew. op' \in [Threads -> Op] /\ \A s \in Threads : op'[s] = IF s = t THEN NoOp ELSE op[s]
  BY <1>op, <1>1
<1>3. In(op', "write") = In(op, "write") \ {t} /\ In(op', "read") = In(op, "read")
      /\ Waits(op', "read") = Waits(op, "read") /\ Waits(op', "write") = Waits(op, "write")
  BY <1>1, <1>2, <1>opNew DEF In, Waits
<1>4. FunctionsCounted'
  BY <1>2, <1>3, FS_RemoveElement DEF WaitInv, FunctionsCounted
<1> QED
  BY <1>opNew, <1>3, <1>4 DEF WaitInv, WaitTypes, WaitedFor

\* It finds the lock taken and waits again.
LEMMA WaitsAgain ==
  ASSUME WaitInv, NEW t \in Threads, op[t].kind \in {"read", "write"}, op[t].at # "waiting",
         op' = [op EXCEPT ![t].at = "waiting"], UNCHANGED <<waitingReaders, waitingWriters>>,
         IF op[t].kind = "read"
           THEN readerWait' = Sleep(readerWait, t) /\ UNCHANGED writerWait
           ELSE writerWait' = Sleep(writerWait, t) /\ UNCHANGED readerWait
  PROVE  WaitInv'
<1>op. op \in [Threads -> Op]
  BY DEF WaitInv, WaitTypes
<1> DEFINE new == [op[t] EXCEPT !.at = "waiting"]
<1>1. op[t] \in Op
  BY <1>op
<1>2. /\ new \in Op /\ new.kind = op[t].kind /\ new.at = "waiting"
      /\ op' = [op EXCEPT ![t] = new]
  BY <1>1 DEF Op
<1>3. \A kind : t \notin Waits(op, kind) /\ (t \in In(op, kind) <=> kind = op[t].kind)
  BY DEF In, Waits
<1> HIDE DEF new
<1>opNew. op' \in [Threads -> Op] /\ \A s \in Threads : op'[s] = IF s = t THEN new ELSE op[s]
  BY <1>op, <1>1, <1>2
<1>4. \A kind : /\ In(op', kind) = In(op, kind)
                   /\ Waits(op', kind) = IF kind = op[t].kind THEN Waits(op, kind) \cup {t}
                                                          ELSE Waits(op, kind)
  BY <1>2, <1>3, <1>opNew DEF In, Waits
<1>5. FunctionsCounted'
  BY <1>4 DEF WaitInv, FunctionsCounted
<1>6. CASE op[t].kind = "read"
  <2>1. Waits(op', "read") = Waits(op, "read") \cup {t} /\ Waits(op', "write") = Waits(op, "write")
    BY <1>4, <1>6
  <2>2. /\ readerWait' \in ConditionOf(Threads)
        /\ WaitedFor(readerWait', Waits(op, "read") \cup {t})
    BY <1>3, <1>6, WaitEntered DEF WaitInv, WaitTypes
  <2> QED
    BY <1>opNew, <1>4, <1>5, <1>6, <2>1, <2>2 DEF WaitInv, WaitTypes, WaitedFor
<1>7. CASE op[t].kind = "write"
  <2>1. Waits(op', "write") = Waits(op, "write") \cup {t} /\ Waits(op', "read") = Waits(op, "read")
    BY <1>4, <1>7
  <2>2. /\ writerWait' \in ConditionOf(Threads)
        /\ WaitedFor(writerWait', Waits(op, "write") \cup {t})
    BY <1>3, <1>7, WaitEntered DEF WaitInv, WaitTypes
  <2> QED
    BY <1>opNew, <1>4, <1>5, <1>7, <2>1, <2>2 DEF WaitInv, WaitTypes, WaitedFor
<1> QED
  BY <1>6, <1>7

-----------------------------------------------------------------------------
(* The operations                                                          *)

\* Each action keeps the invariant.  lockForRead either takes the lock or waits.
LEMMA LockForReadStep ==
  ASSUME IInv, NEW t \in Threads, NEW mode, LockForRead(t, mode)
  PROVE  IInv'
<1>1. op[t].kind = "none" /\ LockInv /\ WaitInv
  BY DEF LockForRead, MayLock, IInv
<1>2. CASE /\ AlreadyReading(t) \/ ~ReadBlocked(mode)
           /\ TakeRead(t)
           /\ UNCHANGED <<waitingReaders, readerWait, writerWait>>
  <2>1. accessCount >= 0 \/ AlreadyReading(t)
    BY <1>1, <1>2 DEF ReadBlocked, LockInv, LockTypes
  <2>2. op' = [op EXCEPT ![t] = NoOp] /\ UNCHANGED waitingWriters
    BY <1>2 DEF TakeRead
  <2>3. LockInv'
    BY <1>1, <1>2, <2>1, ReadTaken
  <2>4. WaitInv'
    BY <1>1, <1>2, <2>2, StaysOut
  <2> QED
    BY <2>3, <2>4 DEF IInv
<1>3. CASE /\ waitingReaders' = waitingReaders + 1
           /\ readerWait' = Sleep(readerWait, t)
           /\ op' = [op EXCEPT ![t] = Waiting("read", mode)]
           /\ UNCHANGED <<accessCount, waitingWriters, currentWriter,
                          currentReaders, writerWait, held>>
  <2>1. LockInv'
    BY <1>1, <1>3, LocksKept DEF lockVars
  <2>2. WaitInv'
    BY <1>1, <1>3, ReaderWaits
  <2> QED
    BY <2>1, <2>2 DEF IInv
<1> QED
  BY <1>2, <1>3 DEF LockForRead

\* A reader that is back gives up, takes the lock, or waits again.
LEMMA ResumeReadStep ==
  ASSUME IInv, NEW t \in Threads, ResumeRead(t)
  PROVE  IInv'
<1> DEFINE mode == IF op[t].timed THEN "timed" ELSE "lock"
<1>1. op[t].kind = "read" /\ LockInv /\ WaitInv
  BY DEF ResumeRead, IInv
<1>2. CASE /\ op[t].at = "timedOut"
           /\ waitingReaders' = waitingReaders - 1
           /\ op' = [op EXCEPT ![t] = NoOp]
           /\ UNCHANGED <<accessCount, waitingWriters, currentWriter,
                          currentReaders, readerWait, writerWait, held>>
  <2>1. LockInv'
    BY <1>1, <1>2, LocksKept DEF lockVars
  <2>2. WaitInv'
    BY <1>1, <1>2, ReaderLeaves
  <2> QED
    BY <2>1, <2>2 DEF IInv
<1>3. CASE /\ op[t].at = "woken" /\ ~ReadBlocked(mode)
           /\ waitingReaders' = waitingReaders - 1
           /\ TakeRead(t)
           /\ UNCHANGED <<readerWait, writerWait>>
  <2>1. accessCount >= 0
    BY <1>1, <1>3 DEF ReadBlocked, LockInv, LockTypes
  <2>2. op' = [op EXCEPT ![t] = NoOp] /\ UNCHANGED waitingWriters
    BY <1>3 DEF TakeRead
  <2>3. LockInv'
    BY <1>1, <1>3, <2>1, ReadTaken
  <2>4. WaitInv'
    BY <1>1, <1>3, <2>2, ReaderLeaves
  <2> QED
    BY <2>3, <2>4 DEF IInv
<1>4. CASE /\ op[t].at = "woken"
           /\ readerWait' = Sleep(readerWait, t)
           /\ op' = [op EXCEPT ![t].at = "waiting"]
           /\ UNCHANGED <<countVars, writerWait, held>>
  <2>1. UNCHANGED lockVars /\ UNCHANGED <<waitingReaders, waitingWriters>>
    BY <1>4 DEF lockVars, countVars
  <2>2. LockInv'
    BY <1>1, <2>1, LocksKept
  <2>3. WaitInv'
    BY <1>1, <1>4, <2>1, WaitsAgain
  <2> QED
    BY <2>2, <2>3 DEF IInv
<1> QED
  BY <1>2, <1>3, <1>4 DEF ResumeRead

\* lockForWrite either takes the lock or waits.
LEMMA LockForWriteStep ==
  ASSUME IInv, NEW t \in Threads, NEW mode, LockForWrite(t, mode)
  PROVE  IInv'
<1>1. op[t].kind = "none" /\ LockInv /\ WaitInv
  BY DEF LockForWrite, MayLock, IInv
<1>2. CASE /\ AlreadyWriting(t) \/ ~WriteBlocked
           /\ TakeWrite(t)
           /\ UNCHANGED <<waitingWriters, readerWait, writerWait>>
  <2>1. accessCount = 0 \/ AlreadyWriting(t)
    BY <1>2 DEF WriteBlocked
  <2>2. op' = [op EXCEPT ![t] = NoOp] /\ UNCHANGED waitingReaders
    BY <1>2 DEF TakeWrite
  <2>3. LockInv'
    BY <1>1, <1>2, <2>1, WriteTaken
  <2>4. WaitInv'
    BY <1>1, <1>2, <2>2, StaysOut
  <2> QED
    BY <2>3, <2>4 DEF IInv
<1>3. CASE /\ waitingWriters' = waitingWriters + 1
           /\ writerWait' = Sleep(writerWait, t)
           /\ op' = [op EXCEPT ![t] = Waiting("write", mode)]
           /\ UNCHANGED <<accessCount, waitingReaders, currentWriter,
                          currentReaders, readerWait, held>>
  <2>1. LockInv'
    BY <1>1, <1>3, LocksKept DEF lockVars
  <2>2. WaitInv'
    BY <1>1, <1>3, WriterWaits
  <2> QED
    BY <2>1, <2>2 DEF IInv
<1> QED
  BY <1>2, <1>3 DEF LockForWrite

\* A writer that is back gives up, takes the lock, or waits again.
LEMMA ResumeWriteStep ==
  ASSUME IInv, NEW t \in Threads, ResumeWrite(t)
  PROVE  IInv'
<1>1. op[t].kind = "write" /\ LockInv /\ WaitInv
  BY DEF ResumeWrite, IInv
<1>2. CASE /\ op[t].at = "timedOut"
           /\ waitingWriters' = waitingWriters - 1
           /\ op' = [op EXCEPT ![t] = NoOp]
           /\ UNCHANGED <<accessCount, waitingReaders, currentWriter,
                          currentReaders, readerWait, writerWait, held>>
  <2>1. LockInv'
    BY <1>1, <1>2, LocksKept DEF lockVars
  <2>2. WaitInv'
    BY <1>1, <1>2, WriterLeaves
  <2> QED
    BY <2>1, <2>2 DEF IInv
<1>3. CASE /\ op[t].at = "woken" /\ ~WriteBlocked
           /\ waitingWriters' = waitingWriters - 1
           /\ TakeWrite(t)
           /\ UNCHANGED <<readerWait, writerWait>>
  <2>1. accessCount = 0
    BY <1>3 DEF WriteBlocked
  <2>2. op' = [op EXCEPT ![t] = NoOp] /\ UNCHANGED waitingReaders
    BY <1>3 DEF TakeWrite
  <2>3. LockInv'
    BY <1>1, <1>3, <2>1, WriteTaken
  <2>4. WaitInv'
    BY <1>1, <1>3, <2>2, WriterLeaves
  <2> QED
    BY <2>3, <2>4 DEF IInv
<1>4. CASE /\ op[t].at = "woken"
           /\ writerWait' = Sleep(writerWait, t)
           /\ op' = [op EXCEPT ![t].at = "waiting"]
           /\ UNCHANGED <<countVars, readerWait, held>>
  <2>1. UNCHANGED lockVars /\ UNCHANGED <<waitingReaders, waitingWriters>>
    BY <1>4 DEF lockVars, countVars
  <2>2. LockInv'
    BY <1>1, <2>1, LocksKept
  <2>3. WaitInv'
    BY <1>1, <1>4, <2>1, WaitsAgain
  <2> QED
    BY <2>2, <2>3 DEF IInv
<1> QED
  BY <1>2, <1>3, <1>4 DEF ResumeWrite

\* unlock releases a lock and wakes only those who wait.
LEMMA UnlockStep ==
  ASSUME IInv, NEW t \in Threads, Unlock(t)
  PROVE  IInv'
<1>1. LockInv /\ WaitInv
  BY DEF IInv
<1>2. LockInv'
  BY <1>1, Unlocked
<1>3. UNCHANGED <<waitingReaders, waitingWriters, op>>
  BY DEF Unlock
<1>4. /\ readerWait' \in {readerWait, WokenAll(readerWait)}
      /\ writerWait' = writerWait \/ writerWait' \in WokenOne(writerWait)
  BY DEF Unlock, WakeWaiting
<1>5. readerWait' \in ConditionOf(Threads) /\ WaitedFor(readerWait', Waits(op, "read"))
  BY <1>1, <1>4, WaitAllWoken DEF WaitInv, WaitTypes
<1>6. writerWait' \in ConditionOf(Threads) /\ WaitedFor(writerWait', Waits(op, "write"))
  BY <1>1, <1>4, WaitWoken DEF WaitInv, WaitTypes
<1>7. WaitInv'
  BY <1>1, <1>3, <1>5, <1>6 DEF WaitInv, WaitTypes, FunctionsCounted, WaitedFor
<1> QED
  BY <1>2, <1>7 DEF IInv

\* A step inside a condition leaves the lock alone.
LEMMA WaitStepStep ==
  ASSUME IInv, NEW t \in Threads, WaitStep(t)
  PROVE  IInv'
<1>1. LockInv /\ WaitInv /\ UNCHANGED <<countVars, op, held>>
  BY DEF IInv, WaitStep
<1>2. LockInv'
  BY <1>1, LocksKept DEF lockVars, countVars
<1>3. /\ readerWait' = readerWait \/ Steps(readerWait, t, readerWait')
      /\ writerWait' = writerWait \/ Steps(writerWait, t, writerWait')
  BY DEF WaitStep
<1>4. readerWait' \in ConditionOf(Threads) /\ WaitedFor(readerWait', Waits(op, "read"))
  BY <1>1, <1>3, WaitStepped DEF WaitInv, WaitTypes
<1>5. writerWait' \in ConditionOf(Threads) /\ WaitedFor(writerWait', Waits(op, "write"))
  BY <1>1, <1>3, WaitStepped DEF WaitInv, WaitTypes
<1>6. WaitInv'
  BY <1>1, <1>4, <1>5 DEF WaitInv, WaitTypes, FunctionsCounted, WaitedFor, countVars
<1> QED
  BY <1>2, <1>6 DEF IInv

\* A thread that returns from a condition stays in its lock function.
LEMMA WaitReturnStep ==
  ASSUME IInv, NEW t \in Threads, WaitReturn(t)
  PROVE  IInv'
<1> DEFINE back(c) == [op[t] EXCEPT !.at = IF t \in c.expired THEN "timedOut" ELSE "woken"]
<1>1. LockInv /\ WaitInv /\ UNCHANGED <<countVars, held>>
  BY DEF IInv, WaitReturn
<1>2. LockInv'
  BY <1>1, LocksKept DEF lockVars, countVars
<1>3. op \in [Threads -> Op] /\ op[t] \in Op
  BY <1>1 DEF WaitInv, WaitTypes
<1>4. ASSUME NEW at \in {"timedOut", "woken"}, op' = [op EXCEPT ![t].at = at]
      PROVE  /\ op' \in [Threads -> Op]
             /\ \A s \in Threads : op'[s].kind = op[s].kind
             /\ \A s \in Threads : op'[s].at = "waiting" <=> s # t /\ op[s].at = "waiting"
  BY <1>3, <1>4 DEF Op
<1>5. ASSUME op' \in [Threads -> Op], \A s \in Threads : op'[s].kind = op[s].kind,
             \A s \in Threads : op'[s].at = "waiting" <=> s # t /\ op[s].at = "waiting"
      PROVE  /\ \A kind \in {"read", "write"} : /\ In(op', kind) = In(op, kind)
                                                /\ Waits(op', kind) = Waits(op, kind) \ {t}
             /\ FunctionsCounted'
  <2>1. \A kind \in {"read", "write"} : /\ In(op', kind) = In(op, kind)
                                        /\ Waits(op', kind) = Waits(op, kind) \ {t}
    BY <1>5 DEF In, Waits
  <2>2. FunctionsCounted'
    BY <1>1, <2>1 DEF WaitInv, FunctionsCounted, countVars
  <2> QED
    BY <2>1, <2>2
<1>6. op' \in [Threads -> Op] /\ FunctionsCounted'
      /\ \A kind \in {"read", "write"} : Waits(op', kind) = Waits(op, kind) \ {t}
  <2>1. \E at \in {"timedOut", "woken"} : op' = [op EXCEPT ![t].at = at]
    BY DEF WaitReturn
  <2> QED
    BY <1>4, <1>5, <2>1
<1>7. CASE /\ Leaves(readerWait, t)
           /\ readerWait' = Left(readerWait, t) /\ UNCHANGED writerWait
  <2>1. /\ t \in Waits(op, "read") /\ readerWait' \in ConditionOf(Threads)
        /\ WaitedFor(readerWait', Waits(op, "read") \ {t})
    BY <1>1, <1>7, WaitLeft DEF WaitInv, WaitTypes
  <2>2. Waits(op, "write") \ {t} = Waits(op, "write")
    BY <2>1 DEF Waits
  <2> QED
    BY <1>1, <1>2, <1>6, <1>7, <2>1, <2>2 DEF IInv, WaitInv, WaitTypes, WaitedFor
<1>8. CASE /\ Leaves(writerWait, t)
           /\ writerWait' = Left(writerWait, t) /\ UNCHANGED readerWait
  <2>1. /\ t \in Waits(op, "write") /\ writerWait' \in ConditionOf(Threads)
        /\ WaitedFor(writerWait', Waits(op, "write") \ {t})
    BY <1>1, <1>8, WaitLeft DEF WaitInv, WaitTypes
  <2>2. Waits(op, "read") \ {t} = Waits(op, "read")
    BY <2>1 DEF Waits
  <2> QED
    BY <1>1, <1>2, <1>6, <1>8, <2>1, <2>2 DEF IInv, WaitInv, WaitTypes, WaitedFor
<1> QED
  BY <1>7, <1>8 DEF WaitReturn

-----------------------------------------------------------------------------
(* The theorems                                                            *)

\* A new lock is held by nobody, and nobody waits for it.
LEMMA InitialInvariant == Init => IInv
<1> SUFFICES ASSUME Init PROVE IInv
  OBVIOUS
<1>1. LockTypes /\ WaitTypes /\ OneKind /\ OneWriter /\ RecursionKnown
  BY LockAssumption DEF Init, LockTypes, WaitTypes, OneKind, OneWriter, RecursionKnown,
     NewCondition, ConditionOf, NoOp, Op
<1>2. Units(Reads) = {} /\ Units(Writes) = {}
  <2>1. \A t \in Threads : Reads[t] = 0 /\ Writes[t] = 0
    BY DEF Init, Reads, Writes
  <2>2. 1 .. 0 = {}
    OBVIOUS
  <2> QED
    BY <2>1, <2>2 DEF Units
<1>3. LocksCounted
  BY <1>2, FS_EmptySet DEF Init, LocksCounted
<1>4. \A kind \in {"read", "write"} : In(op, kind) = {} /\ Waits(op, kind) = {}
  BY DEF Init, In, Waits, NoOp
<1>5. FunctionsCounted
  BY <1>4, FS_EmptySet DEF Init, FunctionsCounted
<1>6. WaitedFor(NewCondition, {})
  BY FS_EmptySet DEF WaitedFor, NewCondition
<1> QED
  BY <1>1, <1>3, <1>4, <1>5, <1>6 DEF IInv, LockInv, WaitInv, Init

\* Every step of every thread keeps the invariant.
LEMMA InvariantStep == IInv /\ [Next]_vars => IInv'
<1> SUFFICES ASSUME IInv, [Next]_vars PROVE IInv'
  OBVIOUS
<1>1. ASSUME NEW t \in Threads, NEW mode \in Modes[t], LockForRead(t, mode)
      PROVE  IInv'
  BY <1>1, LockForReadStep
<1>2. ASSUME NEW t \in Threads, NEW mode \in Modes[t], LockForWrite(t, mode)
      PROVE  IInv'
  BY <1>2, LockForWriteStep
<1>3. ASSUME NEW t \in Threads, Resume(t)
      PROVE  IInv'
  BY <1>3, ResumeReadStep, ResumeWriteStep DEF Resume
<1>4. ASSUME NEW t \in Threads, Unlock(t)
      PROVE  IInv'
  BY <1>4, UnlockStep
<1>5. ASSUME NEW t \in Threads, WaitStep(t)
      PROVE  IInv'
  BY <1>5, WaitStepStep
<1>6. ASSUME NEW t \in Threads, WaitReturn(t)
      PROVE  IInv'
  BY <1>6, WaitReturnStep
<1>7. CASE UNCHANGED vars
  BY <1>7, LocksKept, WaitsKept DEF IInv, vars, countVars, lockVars, waitVars
<1> QED
  BY <1>1, <1>2, <1>3, <1>4, <1>5, <1>6, <1>7 DEF Next

\* The counters of the lock and of its conditions count what they are to
\* count, for any threads that lock in any way.
THEOREM LockInvariance == Spec => []IInv
BY InitialInvariant, InvariantStep, PTL DEF Spec

\* The numbers of waiting threads, and those of a condition, are never
\* negative, whatever threads time out or are woken without reason.
THEOREM LockTypeCorrect == Spec => []TypeOK
<1>1. IInv => TypeOK
  <2> SUFFICES ASSUME IInv PROVE TypeOK
    OBVIOUS
  <2>1. waitingReaders \in Nat /\ waitingWriters \in Nat
    BY FS_CardinalityType DEF IInv, WaitInv, FunctionsCounted
  <2> QED
    BY <2>1 DEF IInv, LockInv, WaitInv, LockTypes, WaitTypes, TypeOK
<1> QED
  BY <1>1, LockInvariance, PTL

\* Whatever threads lock, recursively or not, and in every way, a writer is
\* alone, and accessCount tells who holds the lock.
THEOREM LockExcludes == Spec => []Exclusion
<1>1. IInv => Exclusion
  <2> SUFFICES ASSUME IInv PROVE Exclusion
    OBVIOUS
  <2>1. LockInv /\ accessCount \in Int
    BY DEF IInv, LockInv, LockTypes
  <2>2. \A t \in Threads : held[t].read \in Nat /\ held[t].write \in Nat
    BY <2>1 DEF LockInv, LockTypes
  <2>3. accessCount = 0 => Readers = {} /\ Writers = {}
    BY <2>1, <2>2, SignTells DEF Readers, Writers
  <2>4. accessCount > 0 => Readers # {} /\ Writers = {}
    BY <2>1, <2>2, SignTells DEF Readers, Writers
  <2>5. ASSUME accessCount < 0
        PROVE  Readers = {} /\ \E t \in Threads : Writers = {t}
    <3>1. PICK t \in Threads : held[t].write > 0
      BY <2>1, <2>5, SignTells
    <3>2. Writers = {t}
      BY <2>1, <3>1 DEF Writers, LockInv, OneWriter
    <3>3. Readers = {}
      BY <2>1, <2>2, <2>5, SignTells DEF Readers
    <3> QED
      BY <3>2, <3>3
  <2> QED
    BY <2>3, <2>4, <2>5 DEF Exclusion
<1> QED
  BY <1>1, LockInvariance, PTL

-----------------------------------------------------------------------------
(* No writer is left asleep beside a free lock, although a wake-up may be  *)
(* counted that nobody has been chosen for, and writers may time out at    *)
(* any moment.                                                             *)

\* Threads that only a wake-up brings back from writerWait
WantWakeUp == writerWait.asleep \cup writerWait.signalled

\* A writer will return from writerWait with a wake-up, or has done so.
WriterComes ==
  \/ writerWait.wakeups > 0 /\ writerWait.signalled # {}
  \/ \E t \in Threads : op[t].kind = "write" /\ op[t].at = "woken"

WriterWoken == accessCount = 0 => WantWakeUp = {} \/ WriterComes

\* Only unlock makes the lock free.
LEMMA StaysTaken ==
  ASSUME IInv, [Next]_vars, \A t \in Threads : ~Unlock(t), accessCount' = 0
  PROVE  accessCount = 0 /\ UNCHANGED accessCount
<1>1. accessCount \in Int
  BY DEF IInv, LockInv, LockTypes
<1>2. ASSUME NEW t \in Threads, TakeRead(t), accessCount >= 0 \/ AlreadyReading(t)
      PROVE  FALSE
  <2>1. accessCount' = accessCount + 1
    BY <1>2 DEF TakeRead
  <2>2. AlreadyReading(t) => held[t].read > 0
    BY DEF AlreadyReading, IInv, LockInv, RecursionKnown
  <2>3. ~(accessCount < 0)
    BY <1>1, <1>2, <2>2, SignTells DEF IInv
  <2> QED
    BY <1>1, <2>1, <2>3
<1>3. ASSUME NEW t \in Threads, TakeWrite(t), accessCount = 0 \/ AlreadyWriting(t)
      PROVE  FALSE
  <2>1. accessCount' = accessCount - 1
    BY <1>3 DEF TakeWrite
  <2>2. AlreadyWriting(t) => held[t].write > 0
    BY DEF AlreadyWriting, IInv, LockInv, RecursionKnown
  <2>3. ~(accessCount > 0)
    BY <1>1, <1>3, <2>2, SignTells DEF IInv
  <2> QED
    BY <1>1, <2>1, <2>3
<1>4. ASSUME NEW t \in Threads, NEW mode \in Modes[t], LockForRead(t, mode)
      PROVE  UNCHANGED accessCount
  BY <1>1, <1>2, <1>4 DEF LockForRead, ReadBlocked
<1>5. ASSUME NEW t \in Threads, NEW mode \in Modes[t], LockForWrite(t, mode)
      PROVE  UNCHANGED accessCount
  BY <1>3, <1>5 DEF LockForWrite, WriteBlocked
<1>6. ASSUME NEW t \in Threads, ResumeRead(t)
      PROVE  UNCHANGED accessCount
  BY <1>1, <1>2, <1>6 DEF ResumeRead, ReadBlocked, countVars
<1>7. ASSUME NEW t \in Threads, ResumeWrite(t)
      PROVE  UNCHANGED accessCount
  BY <1>3, <1>7 DEF ResumeWrite, WriteBlocked, countVars
<1>8. ASSUME NEW t \in Threads, WaitStep(t) \/ WaitReturn(t)
      PROVE  UNCHANGED accessCount
  BY <1>8 DEF WaitStep, WaitReturn, countVars
<1>9. CASE UNCHANGED vars
  BY <1>9 DEF vars, countVars
<1>10. UNCHANGED accessCount
  BY <1>4, <1>5, <1>6, <1>7, <1>8, <1>9 DEF Next, Resume
<1> QED
  BY <1>10

\* unlock wakes a writer that is asleep; if it finds none asleep, one that was
\* signalled before has a wake-up now.
LEMMA UnlockWakesWriter ==
  ASSUME IInv, NEW t \in Threads, Unlock(t), accessCount' = 0
  PROVE  WantWakeUp' = {} \/ WriterComes'
<1>1. /\ writerWait \in ConditionOf(Threads) /\ WaitedFor(writerWait, Waits(op, "write"))
      /\ waitingWriters = Cardinality(In(op, "write")) /\ IsFiniteSet(In(op, "write"))
  BY DEF IInv, WaitInv, WaitTypes, FunctionsCounted
<1>2. WakeWaiting
  BY DEF Unlock
<1>3. CASE waitingWriters > 0
  <2>1. writerWait' \in WokenOne(writerWait)
    BY <1>2, <1>3 DEF WakeWaiting
  <2> DEFINE n == IF writerWait.wakeups < writerWait.waiters
                    THEN writerWait.wakeups + 1 ELSE writerWait.waiters
             counted == [writerWait EXCEPT !.wakeups = n]
  <2>2. counted \in ConditionOf(Threads) /\ counted.wakeups = n
        /\ counted.asleep = writerWait.asleep /\ counted.signalled = writerWait.signalled
    BY <1>1 DEF ConditionOf
  <2>3. WantWakeUp # {} => n > 0
    <3>1. WantWakeUp \subseteq Waits(op, "write")
      BY <1>1 DEF WaitedFor, WantWakeUp
    <3>2. WantWakeUp # {} => Cardinality(Waits(op, "write")) # 0
      BY <1>1, <3>1, FS_EmptySet DEF WaitedFor
    <3> QED
      BY <1>1, <3>2 DEF WaitedFor, ConditionOf
  <2>4. CASE writerWait.asleep = {}
    <3>1. writerWait' = counted
      BY <2>1, <2>4 DEF WokenOne
    <3> QED
      BY <2>2, <2>3, <2>4, <3>1 DEF WantWakeUp, WriterComes
  <2>5. CASE writerWait.asleep # {}
    <3>1. PICK u \in writerWait.asleep :
            writerWait' = [counted EXCEPT !.asleep = @ \ {u}, !.signalled = @ \cup {u}]
      BY <2>1, <2>5 DEF WokenOne
    <3> HIDE DEF counted, n
    <3>2. u \in writerWait'.signalled /\ writerWait'.wakeups = n
      BY <2>2, <3>1 DEF ConditionOf
    <3>3. n > 0
      BY <2>3, <2>5 DEF WantWakeUp
    <3> QED
      BY <3>2, <3>3 DEF WriterComes
  <2> QED
    BY <2>4, <2>5
<1>4. CASE ~(waitingWriters > 0)
  <2>1. Cardinality(In(op, "write")) = 0
    BY <1>1, <1>4, FS_CardinalityType
  <2>2. In(op, "write") = {}
    BY <1>1, <2>1, FS_EmptySet
  <2>3. Waits(op, "write") = {}
    BY <2>2 DEF Waits, In
  <2>4. writerWait' = writerWait
    BY <1>2, <1>4 DEF WakeWaiting
  <2> QED
    BY <1>1, <2>3, <2>4 DEF WaitedFor, WantWakeUp
<1> QED
  BY <1>3, <1>4

\* While the lock is free, a writer that comes stays on its way.
LEMMA WriterStaysOnItsWay ==
  ASSUME IInv, [Next]_vars, accessCount = 0, accessCount' = 0, WantWakeUp = {} \/ WriterComes
  PROVE  WantWakeUp' = {} \/ WriterComes'
<1>1. /\ op \in [Threads -> Op] /\ writerWait \in ConditionOf(Threads)
      /\ WaitedFor(writerWait, Waits(op, "write")) /\ WaitedFor(readerWait, Waits(op, "read"))
      /\ accessCount \in Int
  BY DEF IInv, WaitInv, WaitTypes, LockInv, LockTypes
<1>2. ASSUME NEW t \in Threads, op[t].kind # "write" \/ op[t].at # "woken",
             op' = op \/ \E new \in Op : op' = [op EXCEPT ![t] = new],
             writerWait' = writerWait
      PROVE  WantWakeUp' = {} \/ WriterComes'
  <2>1. \A u \in Threads : u # t => op'[u] = op[u]
    BY <1>1, <1>2
  <2>2. op'[t] = op[t] \/ op[t].kind # "write" \/ op[t].at # "woken"
    BY <1>2
  <2> QED
    BY <1>2, <2>1, <2>2 DEF WantWakeUp, WriterComes
<1>3. NoOp \in Op /\ \A mode : \A kind \in {"read", "write"} : Waiting(kind, mode) \in Op
  BY DEF NoOp, Waiting, Op
<1>4. ASSUME NEW t \in Threads, NEW mode \in Modes[t], LockForRead(t, mode)
      PROVE  WantWakeUp' = {} \/ WriterComes'
  <2>1. op[t].kind = "none" /\ writerWait' = writerWait
    BY <1>4 DEF LockForRead, MayLock
  <2>2. op' = [op EXCEPT ![t] = NoOp] \/ op' = [op EXCEPT ![t] = Waiting("read", mode)]
    BY <1>4 DEF LockForRead, TakeRead
  <2> QED
    BY <1>2, <1>3, <2>1, <2>2
<1>5. ASSUME NEW t \in Threads, NEW mode \in Modes[t], LockForWrite(t, mode)
      PROVE  FALSE
  <2>1. accessCount' = accessCount - 1
    BY <1>5 DEF LockForWrite, WriteBlocked, TakeWrite
  <2> QED
    BY <2>1
<1>6. ASSUME NEW t \in Threads, ResumeRead(t)
      PROVE  WantWakeUp' = {} \/ WriterComes'
  <2>1. op[t].kind = "read" /\ writerWait' = writerWait
    BY <1>6 DEF ResumeRead
  <2>2. op[t] \in Op /\ [op[t] EXCEPT !.at = "waiting"] \in Op
    BY <1>1 DEF Op
  <2>3. op' = [op EXCEPT ![t] = NoOp] \/ op' = [op EXCEPT ![t] = [op[t] EXCEPT !.at = "waiting"]]
    BY <1>6 DEF ResumeRead, TakeRead
  <2> QED
    BY <1>2, <1>3, <2>1, <2>2, <2>3
<1>7. ASSUME NEW t \in Threads, ResumeWrite(t)
      PROVE  WantWakeUp' = {} \/ WriterComes'
  <2>1. op[t].at = "timedOut"
    BY <1>7 DEF ResumeWrite, WriteBlocked, TakeWrite
  <2>2. op' = [op EXCEPT ![t] = NoOp] /\ writerWait' = writerWait
    BY <1>7, <2>1 DEF ResumeWrite
  <2> QED
    BY <1>2, <1>3, <2>1, <2>2
<1>8. ASSUME NEW t \in Threads, Unlock(t)
      PROVE  WantWakeUp' = {} \/ WriterComes'
  BY <1>8, UnlockWakesWriter
<1>9. ASSUME NEW t \in Threads, WaitStep(t)
      PROVE  WantWakeUp' = {} \/ WriterComes'
  <2>1. op' = op /\ (writerWait' = writerWait \/ Steps(writerWait, t, writerWait'))
    BY <1>9 DEF WaitStep
  <2>2. CASE Steps(writerWait, t, writerWait')
    <3>1. CASE t \in writerWait.asleep /\ writerWait' = Expired(writerWait, t)
      BY <1>1, <2>1, <3>1 DEF Expired, ConditionOf, WantWakeUp, WriterComes
    <3>2. CASE t \in writerWait.asleep /\ writerWait' = Spurious(writerWait, t)
      BY <1>1, <2>1, <3>2 DEF Spurious, ConditionOf, WantWakeUp, WriterComes
    <3>3. CASE SleepsAgain(writerWait, t) /\ writerWait' = AsleepAgain(writerWait, t)
      BY <1>1, <2>1, <3>3
         DEF SleepsAgain, AsleepAgain, ConditionOf, WantWakeUp, WriterComes
    <3> QED
      BY <2>2, <3>1, <3>2, <3>3 DEF Steps
  <2> QED
    BY <2>1, <2>2 DEF WantWakeUp, WriterComes
<1>10. ASSUME NEW t \in Threads, WaitReturn(t)
       PROVE  WantWakeUp' = {} \/ WriterComes'
  <2>1. op[t].at = "waiting"
    BY <1>10 DEF WaitReturn
  <2>2. CASE writerWait' = writerWait
    <3>1. PICK at \in {"timedOut", "woken"} : op' = [op EXCEPT ![t].at = at]
      BY <1>10 DEF WaitReturn
    <3>2. [op[t] EXCEPT !.at = at] \in Op
      BY <1>1 DEF Op
    <3> QED
      BY <1>2, <2>1, <2>2, <3>1, <3>2
  <2>3. CASE /\ Leaves(writerWait, t) /\ writerWait' = Left(writerWait, t)
             /\ op' = [op EXCEPT ![t].at = IF t \in writerWait.expired THEN "timedOut"
                                                                      ELSE "woken"]
    <3>1. op[t].kind = "write"
      BY <1>1, <2>3 DEF Leaves, WaitedFor, Waits
    <3>2. CASE t \in writerWait.expired
      <4>1. t \notin writerWait.signalled /\ t \notin writerWait.asleep
        BY <1>1, <3>2 DEF WaitedFor
      <4>2. /\ writerWait'.asleep = writerWait.asleep
            /\ writerWait'.signalled = writerWait.signalled
            /\ writerWait'.wakeups = writerWait.wakeups
        BY <1>1, <2>3, <4>1 DEF Left, ConditionOf
      <4>3. \A u \in Threads : op[u].at = "woken" => op'[u] = op[u]
        BY <1>1, <2>1, <2>3
      <4> QED
        BY <4>2, <4>3 DEF WantWakeUp, WriterComes
    <3>3. CASE t \notin writerWait.expired
      <4>1. op'[t].kind = "write" /\ op'[t].at = "woken"
        BY <1>1, <2>3, <3>1, <3>3 DEF Op
      <4> QED
        BY <4>1 DEF WriterComes
    <3> QED
      BY <3>2, <3>3
  <2> QED
    BY <1>10, <2>2, <2>3 DEF WaitReturn
<1>11. CASE UNCHANGED vars
  BY <1>11 DEF vars, WantWakeUp, WriterComes
<1> QED
  BY <1>4, <1>5, <1>6, <1>7, <1>8, <1>9, <1>10, <1>11 DEF Next, Resume

\* When the lock is free and a writer waits for a wake-up, one is coming: the
\* wake-up of the last unlock is not lost by a writer that times out.
THEOREM WritersWoken == Spec => []WriterWoken
<1>1. Init => WriterWoken
  BY DEF Init, NewCondition, WriterWoken, WantWakeUp
<1>2. ASSUME IInv, [Next]_vars, WriterWoken
      PROVE  WriterWoken'
  <2>1. CASE \E t \in Threads : Unlock(t)
    BY <1>2, <2>1, UnlockWakesWriter DEF WriterWoken
  <2>2. CASE \A t \in Threads : ~Unlock(t)
    BY <1>2, <2>2, StaysTaken, WriterStaysOnItsWay DEF WriterWoken
  <2> QED
    BY <2>1, <2>2
<1>3. IInv /\ [Next]_vars /\ WriterWoken => WriterWoken'
  BY <1>2
<1> QED
  BY <1>1, <1>3, LockInvariance, PTL DEF Spec

\* No writer is left in its lock function beside a free lock, unless a thread
\* is on its way out of a condition.
THEOREM WritersNotForgotten == Spec => []NoWriterForgotten
<1>1. ASSUME IInv, WriterWoken, accessCount = 0, ~OnTheWay, NEW t \in Threads
      PROVE  op[t].kind # "write"
  <2>1. SUFFICES ASSUME op[t].kind = "write" PROVE FALSE
    OBVIOUS
  <2>2. t \in Waits(op, "write")
    BY <1>1, <2>1 DEF OnTheWay, Waits
  <2>3. t \in writerWait.asleep \cup writerWait.signalled \cup writerWait.expired
    BY <1>1, <2>2 DEF IInv, WaitInv, WaitedFor
  <2>4. t \in WantWakeUp
    BY <1>1, <2>3 DEF OnTheWay, WantWakeUp
  <2> QED
    BY <1>1, <2>4 DEF WriterWoken, WriterComes, OnTheWay
<1>2. IInv /\ WriterWoken => NoWriterForgotten
  BY <1>1 DEF NoWriterForgotten
<1> QED
  BY <1>2, LockInvariance, WritersWoken, PTL
=============================================================================
