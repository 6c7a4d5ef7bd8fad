-------------------------- MODULE MCReadWriteLock --------------------------
(* Instance of ReadWriteLock for TLC: every thread waits, with and without a *)
(* time-out, and one of them also tries to lock without waiting.             *)
EXTENDS ReadWriteLock

CONSTANTS a, b, c

OneTries ==
  [t \in Threads |-> IF t = c THEN {"lock", "timed", "try"} ELSE {"lock", "timed"}]
=============================================================================
