--------------------------- MODULE MCPostedEvents ---------------------------
(* Instances of PostedEvents for TLC: which calls the application makes.   *)
EXTENDS PostedEventsProperties

TLCModule == INSTANCE TLC

CONSTANTS t1, t2, r1, r2, Plain

NoRequests == {}
EverySend == {<<None, Any>>, <<r1, Any>>, <<None, DeferredDelete>>}
ReceiverSends == {<<None, Any>>, <<r1, Any>>, <<r2, Any>>}
SomeRemovals == {<<r1, Any>>, <<None, Plain>>}
ReceiverRemovals == {<<r1, Any>>}

\* Objects that every call treats alike.
Symmetry == TLCModule!Permutations({r1, r2})
=============================================================================
