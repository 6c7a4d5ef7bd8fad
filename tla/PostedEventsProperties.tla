----------------------- MODULE PostedEventsProperties -----------------------
(***************************************************************************)
(* What is checked, and partly proved, of PostedEvents.                    *)
(***************************************************************************)
EXTENDS PostedEvents

\* An event is posted to an object, and an object moved to another thread.
CallOf(t) ==
  {c \in Call : (c.fn = "post" => c.receiver # None) /\ (c.fn = "moving" => c.to # t)}

\* The types of the queues and of the locals of sendPostedEvents, postEvent,
\* removePostedEvents and moveToThread: the counters are never negative,
\* though exceptions unwind them; startOffset is a position in the list, and
\* insertionOffset not before it, though nested sends erase the front of the
\* list and set both and removals shorten it (~CleanUp asserts
\* insertionOffset >= 0 after it has subtracted startOffset); and the two
\* positions of a removal that runs are in order within the list.
TypeOK ==
  /\ list \in [Threads -> Seq(Entry)]
  /\ \A t \in Threads : /\ startOffset[t] \in 0 .. Len(list[t])
                        /\ insertionOffset[t] \in Nat
                        /\ insertionOffset[t] >= startOffset[t]
  /\ recursion \in [Threads -> Nat]
  /\ canWait \in [Threads -> BOOLEAN]
  /\ loopLevel \in [Threads -> Nat]
  /\ threadData \in [Objects -> Threads]
  /\ postedEvents \in [Objects -> Nat]
  /\ alive \in [Objects -> BOOLEAN]
  /\ stack \in [Threads -> Seq(Frame)]
  /\ call \in [Threads -> Call]
  /\ \A t \in Threads : /\ call[t] \in CallOf(t)
                        /\ call[t].fn = "removing" =>
                             /\ call[t].i \in 0 .. Len(list[call[t].data])
                             /\ call[t].j \in 0 .. call[t].i
  /\ woken \subseteq Threads
  /\ lastEvent \in Nat

\* What a send of everything has passed, and the end of such a send will
\* erase, has been taken out of the list: nothing that handlers, other sends
\* or other threads post, move or post again comes before startOffset
\* ("insertionOffset == set by sendPostedEvents to tell postEvent() where to
\* start insertions").
PassedAreTaken ==
  \A t \in Threads : /\ startOffset[t] <= Len(list[t])
                     /\ \A k \in 1 .. startOffset[t] : ~Live(list[t][k])

LiveIn(t) == {k \in 1 .. Len(list[t]) : Live(list[t][k])}
PendingFor(r, t) == {k \in LiveIn(t) : list[t][k].receiver = r}

\* The counter by which postEvent, sendPostedEvents, removePostedEvents and
\* the destructor decide to skip the list counts the entries of the object,
\* all of which are in the list of the object's thread unless moveToThread
\* is moving them (Q_ASSERT(r->d_func()->postedEvents >= 0)).
PostedEventsCounted ==
  \A r \in Objects :
    LET moving(t) == \E u \in Threads : /\ call[u].fn = "moving"
                                       /\ call[u].receiver = r
                                       /\ call[u].to = t IN
    /\ postedEvents[r] =
         Cardinality(UNION {{t} \X PendingFor(r, t) : t \in Threads})
    /\ \A t \in Threads :
         PendingFor(r, t) # {} => threadData[r] = t \/ moving(t)

\* The part of the list that addEvent searches with qUpperBound is sorted,
\* whatever nested sends, exceptions and re-posts have done to the list and
\* its offset.  Not so when other threads remove: a removal that sees a send
\* begin leaves its compaction half done, entries swapped.
SortedTail ==
  \A t \in Threads : \A j, k \in insertionOffset[t] + 1 .. Len(list[t]) :
    j < k /\ MutexFree(t) => list[t][j].priority >= list[t][k].priority

\* A thread that blocks in its dispatcher leaves nothing to deliver: it has
\* a wake-up to consume, or the thread that posts or moves something to it is
\* about to wake it, or all that is posted are deferred deletes.
WillBeWoken(t) ==
  \/ t \in woken
  \/ \E u \in Threads : \/ call[u].fn = "wake" /\ call[u].data = t
                        \/ call[u].fn = "moving" /\ call[u].to = t

NoEventStranded ==
  \A t \in Threads :
    InLoop(t, "wait") /\ ~WillBeWoken(t) =>
      \A k \in LiveIn(t) : list[t][k].type = DeferredDelete

\* "The object will be deleted when control returns to the event loop"
\* (QObject::deleteLater): a thread does not block with a deferred delete
\* it is allowed to deliver.
NoDeferredDeleteStranded ==
  \A t \in Threads :
    InLoop(t, "wait") /\ ~WillBeWoken(t) =>
      \A k \in LiveIn(t) : ~AllowDeferredDelete(list[t][k], Any, loopLevel[t])

\* Between sends, in a thread that only sends everything, higher priorities
\* are before lower ones in the whole list (postEvent: "events with a high
\* priority are queued before events with a lower priority").
QueuedByPriority ==
  \A t \in Threads : recursion[t] = 0 =>
    \A j, k \in LiveIn(t) :
      j < k => list[t][j].priority >= list[t][k].priority

\* Nothing is posted to a deleted object once its destructor is through
\* ("any pending events for the object are removed from the event queue").
NothingForTheDead ==
  \A r \in Objects : \A t \in Threads :
    ~alive[r] /\ PendingFor(r, t) # {} =>
      \E u \in Threads : /\ call[u].fn \in {"remove", "removing"}
                         /\ call[u].receiver = r

\* However often deleteLater is called, re-posted and moved, at most one
\* deferred delete of an object is posted.
OneDeferredDelete ==
  \A r \in Objects : \A t, u \in Threads :
    \A j \in PendingFor(r, t), k \in PendingFor(r, u) :
      list[t][j].type = DeferredDelete /\ list[u][k].type = DeferredDelete =>
        t = u /\ j = k

\* A deferred delete is not delivered as long as the handler that called
\* deleteLater runs, in whatever loops and sends it has entered, unless
\* that handler itself sends the DeferredDelete events.
Handlers(t) == {stack[t][k].event.event :
                  k \in {n \in 1 .. Len(stack[t]) : stack[t][n].at = "deliver"}}
Delivery(t) == /\ InSend(t, "scan") /\ InSend(t, "deliver")'
               /\ Len(stack'[t]) = Len(stack[t])

DeferredDeleteWaits ==
  [][\A t \in Threads : Delivery(t) =>
       LET e == Top(t)'.event IN
       e.type = DeferredDelete /\ e.by \in Handlers(t) =>
         Top(t).type = DeferredDelete /\ e.d = loopLevel[t]]_vars

\* Events of one priority posted to an object are delivered in the order
\* they were posted ("Events with equal priority will be processed in the
\* order posted").  Deferred deletes wait for their level.
PostedOrder ==
  [][\A t \in Threads : Delivery(t) =>
       LET e == Top(t)'.event IN
       \A k \in PendingFor(e.receiver, t) :
         LET o == list[t][k] IN
         o.priority = e.priority /\ o.type = e.type /\ o.type # DeferredDelete
           => o.event >= e.event]_vars
-----------------------------------------------------------------------------
(* The lists implement the queues of EventQueue: every event that is       *)
(* posted is pending until it is delivered once, by the receiver's thread  *)
(* to a living receiver, or removed by a removal that matches it; sends,   *)
(* re-posts, exceptions, compaction and moves lose and duplicate nothing.  *)
(* This is claimed of code that deletes no posted event itself             *)
(* (MayDeleteEvents = FALSE).                                              *)

PendingEvents ==
  UNION {{[event |-> list[t][k].event, receiver |-> list[t][k].receiver,
           type |-> list[t][k].type] : k \in LiveIn(t)} : t \in Threads}

Queue == INSTANCE EventQueue WITH
  pending <- PendingEvents,
  handling <- [t \in Threads |-> Handlers(t)],
  owner <- threadData,
  removal <- [t \in Threads |-> IF call[t].fn = "removing"
                THEN <<call[t].receiver, call[t].type>> ELSE <<>>]

ImplementsEventQueue == Queue!Spec

=============================================================================
