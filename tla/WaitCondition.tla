--------------------------- MODULE WaitCondition ---------------------------
(***************************************************************************)
(* QWaitCondition on pthreads (thread/qwaitcondition_unix.cpp) as a value: *)
(* the state of one condition and what its operations make of it.  Every   *)
(* operation runs under the condition's own pthread mutex, which is never  *)
(* held while a thread blocks, so each is one step of the modules that use *)
(* the condition.                                                          *)
(*                                                                         *)
(* A thread that waits is asleep in pthread_cond_wait, or signalled (the   *)
(* call returns 0), or expired (it returns ETIMEDOUT); the latter two have *)
(* yet to lock the condition's mutex again and leave the wait.             *)
(***************************************************************************)
EXTENDS Integers

NewCondition == [waiters |-> 0, wakeups |-> 0,
                 asleep |-> {}, signalled |-> {}, expired |-> {}]

ConditionOf(Threads) ==
  [waiters : Nat, wakeups : Nat, asleep : SUBSET Threads,
   signalled : SUBSET Threads, expired : SUBSET Threads]

\* wait(): the thread is counted before it lets go of the caller's mutex.
Sleep(c, t) == [c EXCEPT !.waiters = @ + 1, !.asleep = @ \cup {t}]

\* wakeOne(): pthread_cond_signal picks any thread asleep.
WokenOne(c) ==
  LET w == IF c.wakeups < c.waiters THEN c.wakeups + 1 ELSE c.waiters
      counted == [c EXCEPT !.wakeups = w] IN
  IF c.asleep = {} THEN {counted}
  ELSE {[counted EXCEPT !.asleep = @ \ {t}, !.signalled = @ \cup {t}] : t \in c.asleep}

WokenAll(c) == [c EXCEPT !.wakeups = c.waiters, !.asleep = {},
                         !.signalled = @ \cup c.asleep]

\* pthread_cond_timedwait times out; pthread_cond_wait returns although no
\* one signalled it.
Expired(c, t) == [c EXCEPT !.asleep = @ \ {t}, !.expired = @ \cup {t}]
Spurious(c, t) == [c EXCEPT !.asleep = @ \ {t}, !.signalled = @ \cup {t}]

\* A signalled thread that finds no wakeup goes back to sleep.
SleepsAgain(c, t) == t \in c.signalled /\ c.wakeups = 0
AsleepAgain(c, t) == [c EXCEPT !.signalled = @ \ {t}, !.asleep = @ \cup {t}]

\* The wait returns; a thread that timed out leaves the wakeups alone.
Leaves(c, t) == t \in c.expired \/ (t \in c.signalled /\ c.wakeups > 0)
\* mutant: a thread that timed out takes a wakeup all the same
Left_TakesWakeup(c, t) ==
  [c EXCEPT !.waiters = @ - 1, !.wakeups = @ - 1,
            !.signalled = @ \ {t}, !.expired = @ \ {t}]
Left(c, t) ==
  [c EXCEPT !.waiters = @ - 1, !.wakeups = @ - (IF t \in c.signalled THEN 1 ELSE 0),
            !.signalled = @ \ {t}, !.expired = @ \ {t}]
=============================================================================
