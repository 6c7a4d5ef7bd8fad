----------------------------- MODULE EventQueue -----------------------------
(***************************************************************************)
(* What the posted event queues promise: an event that is posted stays     *)
(* pending until the thread of its receiver takes it, once, to handle it,  *)
(* or until a removal that asks for it takes it.  Nothing else makes an    *)
(* event disappear, wherever the receiver moves, and nothing is delivered  *)
(* to an object that has been deleted.  No order is promised here.  Code   *)
(* that deletes a posted event itself is outside this promise.             *)
(***************************************************************************)
EXTENDS Naturals

CONSTANTS Threads, Objects, Types, None, Any

VARIABLES
  pending,    \* the events posted and neither taken nor removed
  handling,   \* the events each thread is handling
  owner,      \* the thread of each object
  alive,      \* whether the object has not been deleted
  removal,    \* the removal each thread is carrying out: <<receiver, type>>
  lastEvent   \* the number of events posted

vars == <<pending, handling, owner, alive, removal, lastEvent>>

Init == /\ pending = {}
        /\ handling = [t \in Threads |-> {}]
        /\ owner \in [Objects -> Threads]
        /\ alive = [r \in Objects |-> TRUE]
        /\ removal = [t \in Threads |-> <<>>]
        /\ lastEvent = 0

Post(r, ty) ==
  /\ alive[r]
  /\ lastEvent' = lastEvent + 1
  /\ pending' = pending \cup {[event |-> lastEvent', receiver |-> r, type |-> ty]}
  /\ UNCHANGED <<handling, owner, alive, removal>>

Deliver(t, e) ==
  /\ alive[e.receiver] /\ owner[e.receiver] = t
  /\ pending' = pending \ {e}
  /\ handling' = [handling EXCEPT ![t] = @ \cup {e.event}]
  /\ UNCHANGED <<owner, alive, removal, lastEvent>>

Handled(t) ==
  /\ \E n \in handling[t] : handling' = [handling EXCEPT ![t] = @ \ {n}]
  /\ UNCHANGED <<pending, owner, alive, removal, lastEvent>>

StartRemoval(t, r, ty) ==
  /\ removal[t] = <<>>
  /\ removal' = [removal EXCEPT ![t] = <<r, ty>>]
  /\ UNCHANGED <<pending, handling, owner, alive, lastEvent>>

Remove(t, e) ==
  /\ removal[t] # <<>>
  /\ removal[t][1] \in {None, e.receiver} /\ removal[t][2] \in {Any, e.type}
  /\ pending' = pending \ {e}
  /\ UNCHANGED <<handling, owner, alive, removal, lastEvent>>

EndRemoval(t) ==
  /\ removal' = [removal EXCEPT ![t] = <<>>]
  /\ UNCHANGED <<pending, handling, owner, alive, lastEvent>>

Move(r, t) ==
  /\ alive[r]
  /\ owner' = [owner EXCEPT ![r] = t]
  /\ UNCHANGED <<pending, handling, alive, removal, lastEvent>>

Destroy(r) ==
  /\ alive' = [alive EXCEPT ![r] = FALSE]
  /\ UNCHANGED <<pending, handling, owner, removal, lastEvent>>

Next ==
  \/ \E r \in Objects, ty \in Types : Post(r, ty)
  \/ \E t \in Threads : \/ \E e \in pending : Deliver(t, e) \/ Remove(t, e)
                        \/ Handled(t) \/ EndRemoval(t)
                        \/ \E r \in Objects \cup {None}, ty \in Types \cup {Any} :
                             StartRemoval(t, r, ty)
  \/ \E r \in Objects : Destroy(r) \/ \E t \in Threads : Move(r, t)

Spec == Init /\ [][Next]_vars
=============================================================================
