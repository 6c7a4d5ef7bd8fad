--------------------------- MODULE ReadWriteLock ---------------------------
(***************************************************************************)
(* QReadWriteLock (thread/qreadwritelock.cpp, qreadwritelock_p.h) over two *)
(* QWaitConditions.  d->mutex is held for one step at a time: from the     *)
(* beginning of an operation, or from the return of a wait, to the end of  *)
(* the operation or the next wait.                                         *)
(***************************************************************************)
EXTENDS Integers, WaitCondition

CONSTANTS
  Threads,
  Recursive,   \* QReadWriteLock::Recursive
  Modes,       \* how each thread locks: "lock", "try", "timed"
  MaxLocks,    \* bound on the locks a thread holds of a recursive lock
  NoThread

ASSUME LockAssumption == /\ Recursive \in BOOLEAN /\ NoThread \notin Threads
                         /\ Modes \in [Threads -> SUBSET {"lock", "try", "timed"}]
                         /\ MaxLocks \in Nat \ {0}

VARIABLES
  accessCount, waitingReaders, waitingWriters,  \* QReadWriteLockPrivate
  currentWriter, currentReaders,
  readerWait, writerWait,
  op,     \* what each thread is doing with the lock
  held    \* history: the locks each thread has obtained and not released

countVars == <<accessCount, waitingReaders, waitingWriters, currentWriter,
               currentReaders>>
vars == <<countVars, readerWait, writerWait, op, held>>

\* An operation waits in a condition, or has come back from it, with or
\* without success.
Op == [kind : {"none", "read", "write"}, timed : BOOLEAN,
       at : {"waiting", "woken", "timedOut"}]
NoOp == [kind |-> "none", timed |-> FALSE, at |-> "waiting"]

Init ==
  /\ accessCount = 0 /\ waitingReaders = 0 /\ waitingWriters = 0
  /\ currentWriter = NoThread
  /\ currentReaders = [t \in Threads |-> 0]
  /\ readerWait = NewCondition /\ writerWait = NewCondition
  /\ op = [t \in Threads |-> NoOp]
  /\ held = [t \in Threads |-> [read |-> 0, write |-> 0]]

-----------------------------------------------------------------------------
(* The body of the lock functions, from the test of the while loop on:     *)
(* kept and waiting are the counters of waiting threads the caller has.    *)

ReadBlocked_Barging(mode) == accessCount < 0    \* mutant: overtakes writers
ReadBlocked(mode) ==
  accessCount < 0 \/ (mode # "try" /\ waitingWriters > 0)

TakeRead(t) ==
  /\ accessCount' = accessCount + 1
  /\ currentReaders' = IF Recursive
                         THEN [currentReaders EXCEPT ![t] = @ + 1]
                         ELSE currentReaders
  /\ held' = [held EXCEPT ![t].read = @ + 1]
  /\ op' = [op EXCEPT ![t] = NoOp]
  /\ UNCHANGED <<waitingWriters, currentWriter>>

TakeWrite(t) ==
  /\ accessCount' = accessCount - 1
  /\ currentWriter' = IF Recursive THEN t ELSE currentWriter
  /\ held' = [held EXCEPT ![t].write = @ + 1]
  /\ op' = [op EXCEPT ![t] = NoOp]
  /\ UNCHANGED <<waitingReaders, currentReaders>>

Waiting(kind, mode) == [kind |-> kind, timed |-> mode = "timed", at |-> "waiting"]

\* The application locks only what it may: a thread that holds a lock takes
\* another one of the same kind, and only of a recursive lock.
MayLock(t, kind) ==
  /\ op[t].kind = "none"
  /\ \/ held[t] = [read |-> 0, write |-> 0]
     \/ Recursive /\ held[t][kind] \in 1 .. MaxLocks - 1

-----------------------------------------------------------------------------
(* lockForRead, tryLockForRead(), tryLockForRead(timeout)                  *)

AlreadyReading(t) == Recursive /\ currentReaders[t] > 0

LockForRead(t, mode) ==
  /\ MayLock(t, "read")
  /\ \/ /\ AlreadyReading(t) \/ ~ReadBlocked(mode)
        /\ TakeRead(t)
        /\ UNCHANGED <<waitingReaders, readerWait, writerWait>>
     \/ /\ ~AlreadyReading(t) /\ ReadBlocked(mode) /\ mode # "try"
        /\ waitingReaders' = waitingReaders + 1
        /\ readerWait' = Sleep(readerWait, t)
        /\ op' = [op EXCEPT ![t] = Waiting("read", mode)]
        /\ UNCHANGED <<accessCount, waitingWriters, currentWriter,
                       currentReaders, writerWait, held>>

\* Back from readerWait, with d->mutex locked again.
ResumeRead(t) ==
  LET mode == IF op[t].timed THEN "timed" ELSE "lock" IN
  /\ op[t].kind = "read"
  /\ \/ /\ op[t].at = "timedOut"
        /\ waitingReaders' = waitingReaders - 1
        /\ op' = [op EXCEPT ![t] = NoOp]
        /\ UNCHANGED <<accessCount, waitingWriters, currentWriter,
                       currentReaders, readerWait, writerWait, held>>
     \/ /\ op[t].at = "woken" /\ ~ReadBlocked(mode)
        /\ waitingReaders' = waitingReaders - 1
        /\ TakeRead(t)
        /\ UNCHANGED <<readerWait, writerWait>>
     \/ /\ op[t].at = "woken" /\ ReadBlocked(mode)
        /\ readerWait' = Sleep(readerWait, t)
        /\ op' = [op EXCEPT ![t].at = "waiting"]
        /\ UNCHANGED <<countVars, writerWait, held>>

-----------------------------------------------------------------------------
(* lockForWrite, tryLockForWrite(), tryLockForWrite(timeout)               *)

AlreadyWriting(t) == Recursive /\ currentWriter = t

WriteBlocked_IgnoresWriter == accessCount > 0    \* mutant
WriteBlocked == accessCount # 0

LockForWrite(t, mode) ==
  /\ MayLock(t, "write")
  /\ \/ /\ AlreadyWriting(t) \/ ~WriteBlocked
        /\ TakeWrite(t)
        /\ UNCHANGED <<waitingWriters, readerWait, writerWait>>
     \/ /\ ~AlreadyWriting(t) /\ WriteBlocked /\ mode # "try"
        /\ waitingWriters' = waitingWriters + 1
        /\ writerWait' = Sleep(writerWait, t)
        /\ op' = [op EXCEPT ![t] = Waiting("write", mode)]
        /\ UNCHANGED <<accessCount, waitingReaders, currentWriter,
                       currentReaders, readerWait, held>>

ResumeWrite(t) ==
  /\ op[t].kind = "write"
  /\ \/ /\ op[t].at = "timedOut"
        /\ waitingWriters' = waitingWriters - 1
        /\ op' = [op EXCEPT ![t] = NoOp]
        /\ UNCHANGED <<accessCount, waitingReaders, currentWriter,
                       currentReaders, readerWait, writerWait, held>>
     \/ /\ op[t].at = "woken" /\ ~WriteBlocked
        /\ waitingWriters' = waitingWriters - 1
        /\ TakeWrite(t)
        /\ UNCHANGED <<readerWait, writerWait>>
     \/ /\ op[t].at = "woken" /\ WriteBlocked
        /\ writerWait' = Sleep(writerWait, t)
        /\ op' = [op EXCEPT ![t].at = "waiting"]
        /\ UNCHANGED <<countVars, readerWait, held>>

-----------------------------------------------------------------------------
(* unlock                                                                  *)

\* mutant: readers are woken although writers wait
WakeWaiting_ReadersFirst ==
  IF waitingReaders > 0 THEN readerWait' = WokenAll(readerWait) /\ UNCHANGED writerWait
  ELSE /\ UNCHANGED readerWait
       /\ IF waitingWriters > 0 THEN writerWait' \in WokenOne(writerWait)
                                ELSE UNCHANGED writerWait

\* A writer that waits is woken, or else all readers that wait.
WakeWaiting ==
  IF waitingWriters > 0 THEN writerWait' \in WokenOne(writerWait) /\ UNCHANGED readerWait
  ELSE /\ readerWait' = IF waitingReaders > 0 THEN WokenAll(readerWait) ELSE readerWait
       /\ UNCHANGED writerWait

Unlock(t) ==
  /\ op[t].kind = "none" /\ held[t] # [read |-> 0, write |-> 0]
  /\ accessCount' = accessCount - (IF accessCount > 0 THEN 1 ELSE -1)
  /\ IF accessCount > 0
       THEN /\ held' = [held EXCEPT ![t].read = @ - 1]
            /\ currentReaders' = IF AlreadyReading(t)
                 THEN [currentReaders EXCEPT ![t] = @ - 1] ELSE currentReaders
            /\ UNCHANGED currentWriter
       ELSE /\ held' = [held EXCEPT ![t].write = @ - 1]
            /\ currentWriter' = IF accessCount' = 0 THEN NoThread ELSE currentWriter
            /\ UNCHANGED currentReaders
  /\ IF accessCount' = 0 THEN WakeWaiting ELSE UNCHANGED <<readerWait, writerWait>>
  /\ UNCHANGED <<waitingReaders, waitingWriters, op>>

-----------------------------------------------------------------------------
(* Steps of the condition a thread waits in.                               *)

\* c is condition old with a step of thread t taken.
Steps(old, t, c) ==
  \/ t \in old.asleep /\ op[t].timed /\ c = Expired(old, t)
  \/ t \in old.asleep /\ c = Spurious(old, t)
  \/ SleepsAgain(old, t) /\ c = AsleepAgain(old, t)

WaitStep(t) ==
  /\ \/ /\ op[t].kind = "read" /\ UNCHANGED writerWait
        /\ \E c \in {Expired(readerWait, t), Spurious(readerWait, t),
                     AsleepAgain(readerWait, t)} :
             Steps(readerWait, t, c) /\ readerWait' = c
     \/ /\ op[t].kind = "write" /\ UNCHANGED readerWait
        /\ \E c \in {Expired(writerWait, t), Spurious(writerWait, t),
                     AsleepAgain(writerWait, t)} :
             Steps(writerWait, t, c) /\ writerWait' = c
  /\ UNCHANGED <<countVars, op, held>>

WaitReturn(t) ==
  LET back(c) == op' = [op EXCEPT ![t].at =
                          IF t \in c.expired THEN "timedOut" ELSE "woken"] IN
  /\ op[t].at = "waiting"
  /\ \/ /\ Leaves(readerWait, t) /\ back(readerWait)
        /\ readerWait' = Left(readerWait, t) /\ UNCHANGED writerWait
     \/ /\ Leaves(writerWait, t) /\ back(writerWait)
        /\ writerWait' = Left(writerWait, t) /\ UNCHANGED readerWait
  /\ UNCHANGED <<countVars, held>>

Resume(t) == ResumeRead(t) \/ ResumeWrite(t)

Next == \E t \in Threads :
          \/ \E mode \in Modes[t] : LockForRead(t, mode) \/ LockForWrite(t, mode)
          \/ Resume(t) \/ Unlock(t) \/ WaitStep(t) \/ WaitReturn(t)

Spec == Init /\ [][Next]_vars

\* Every thread runs when it can and releases what it holds in the end.
FairSpec ==
  /\ Spec
  /\ \A t \in Threads : WF_vars(Resume(t)) /\ WF_vars(WaitReturn(t)) /\ WF_vars(Unlock(t))

-----------------------------------------------------------------------------
(* Properties                                                              *)

TypeOK ==
  /\ accessCount \in Int /\ waitingReaders \in Nat /\ waitingWriters \in Nat
  /\ currentWriter \in Threads \cup {NoThread}
  /\ currentReaders \in [Threads -> Nat]
  /\ readerWait \in ConditionOf(Threads) /\ writerWait \in ConditionOf(Threads)
  /\ op \in [Threads -> Op]
  /\ held \in [Threads -> [read : Nat, write : Nat]]

Readers == {t \in Threads : held[t].read > 0}
Writers == {t \in Threads : held[t].write > 0}

\* One writer and no readers, or readers only, and accessCount has the sign
\* that goes with them, whichever way the locks were obtained.
Exclusion ==
  /\ accessCount = 0 => Readers = {} /\ Writers = {}
  /\ accessCount > 0 => Readers # {} /\ Writers = {}
  /\ accessCount < 0 => Readers = {} /\ \E t \in Threads : Writers = {t}

\* "This function will block the current thread if another thread has locked
\* for reading or writing": with the lock free, no writer is left asleep
\* unless some thread is on its way to take the lock or to give up.
OnTheWay == \/ \E t \in Threads : op[t].kind # "none" /\ op[t].at # "waiting"
            \/ readerWait.wakeups > 0 /\ readerWait.signalled # {}
            \/ writerWait.wakeups > 0 /\ writerWait.signalled # {}
            \/ readerWait.expired # {} \/ writerWait.expired # {}
NoWriterForgotten ==
  accessCount = 0 /\ ~OnTheWay => \A t \in Threads : op[t].kind # "write"

\* "will block the current thread if any thread has locked for writing": the
\* same of the readers; tryLockForWrite(timeout) breaks it, because the
\* writer that gives up leaves the readers asleep that waited behind it.
NoWaiterForgotten ==
  accessCount = 0 /\ ~OnTheWay => \A t \in Threads : op[t].kind = "none"

\* "To ensure that writers aren't blocked forever by readers, readers
\* attempting to obtain a lock will not succeed if there is a blocked writer
\* waiting for access": some writer gets in, or all give up, unless readers
\* keep getting in beside a waiting writer.  These are threads that use
\* tryLockForRead(), or that have the lock already, and no others.
AWriterWaits == \E t \in Threads : op[t].kind = "write"
ReadBeside ==
  /\ waitingWriters > 0
  /\ \E t \in Threads : /\ held'[t].read > held[t].read
                        /\ "try" \in Modes[t] \/ held[t].read > 0
WritersGetIn ==
  (AWriterWaits ~> Writers # {} \/ ~AWriterWaits) \/ []<><<ReadBeside>>_vars
=============================================================================
