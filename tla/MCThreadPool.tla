---------------------------- MODULE MCThreadPool ----------------------------
(* Instances of ThreadPool for TLC: two threads, two tasks, of which one has *)
(* autoDelete, one caller and one waiter.                                    *)
EXTENDS ThreadPool

CONSTANTS t1, t2, r1, r2, caller, waiter
=============================================================================
