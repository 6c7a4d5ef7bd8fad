-------------------------- MODULE ThreadPoolProofs --------------------------
(***************************************************************************)
(* Proofs about QThreadPool for any number of threads, tasks, callers and  *)
(* callers of waitForDone, any priorities and limits, with expiry and      *)
(* failing pthread_create.                                                 *)
(*                                                                         *)
(* The invariant relates the pool's counters to the sets they stand for,   *)
(* of threads, of threads in the condition and of uses of a task, each the *)
(* cardinality of a set that a step changes by one element.                *)
(***************************************************************************)
EXTENDS ThreadPool, FiniteSetTheorems, SequenceTheorems, TLAPS

\* Threads that run a task or are about to; threads in runnableReady.wait
Running == {t \in Threads : thread[t].at \in {"start", "task"}}
Idle == {t \in Threads : thread[t].at = "idle"}
ExpiredSet == {expiredThreads[i] : i \in DOMAIN expiredThreads}
Launching(t) == \E c \in Clients : client[c].at = "launch" /\ client[c].thread = t
SomeLaunch == \E c \in Clients : client[c].at = "launch"
Joined(t) == \E c \in Clients : t \in client[c].joining

Entry == [task : Tasks, priority : Priorities]

\* What has its type whatever the counters count
PoolTypes ==
  /\ queue \in Seq(Entry)
  /\ allThreads \subseteq Threads /\ expiredThreads \in Seq(Threads)
  /\ isExiting \in BOOLEAN /\ mishaps \subseteq Mishaps
  /\ maxThreadCount \in MaxThreadCounts /\ reservedThreads \in Reservations
  /\ waitingThreads \in Int
  /\ mutex \in Clients \cup {Free}
  /\ runnable \in [Threads -> Tasks \cup {NoTask}]
  /\ thread \in [Threads -> ThreadState] /\ client \in [Clients -> ClientState]
  /\ deleted \subseteq Tasks /\ calls \in 0 .. MaxCalls

\* The mutex, and the fields of a client, tell what the client is doing.
ClientsKnown ==
  \A c \in Clients :
    /\ client[c].at \in {"launch", "push"} <=> mutex = c
    /\ client[c].at = "launch" <=> client[c].thread # NoThread
    /\ client[c].at = "steal" <=> client[c].task # NoTask
    /\ client[c].joining # {} => client[c].at = "join"

ThreadsKnown ==
  \A t \in Threads : /\ thread[t].at = "task" <=> thread[t].task # NoTask
                     /\ thread[t].at = "start" => runnable[t] # NoTask

\* A thread that is started, unless it has been deleted, has a task to run.
LaunchKnown ==
  \A c \in Clients : LET t == client[c].thread IN
    client[c].at = "launch" /\ thread[t].at # "none" => runnable[t] # NoTask

-----------------------------------------------------------------------------
(* Sets of threads, and sequences                                          *)

\* A set of threads is finite and has a number of members.
LEMMA ThreadSet ==
  ASSUME NEW S \in SUBSET Threads
  PROVE  IsFiniteSet(S) /\ Cardinality(S) \in Nat
BY PoolAssumption, FS_Subset, FS_CardinalityType

\* A subset has no more members.
LEMMA FewerThreads ==
  ASSUME NEW S \in SUBSET Threads, NEW T \in SUBSET S
  PROVE  Cardinality(T) <= Cardinality(S)
BY ThreadSet, FS_Subset

\* One thread more
LEMMA OneMore ==
  ASSUME NEW S \in SUBSET Threads, NEW t \in Threads, t \notin S
  PROVE  Cardinality(S \cup {t}) = Cardinality(S) + 1
BY ThreadSet, FS_AddElement

\* One thread less
LEMMA OneLess ==
  ASSUME NEW S \in SUBSET Threads, NEW t \in S
  PROVE  Cardinality(S \ {t}) = Cardinality(S) - 1
BY ThreadSet, FS_RemoveElement

\* At most one thread more
LEMMA OneMoreAtMost ==
  ASSUME NEW S \in SUBSET Threads, NEW T \in SUBSET Threads, NEW t \in Threads,
         T \subseteq S \cup {t}
  PROVE  Cardinality(T) <= Cardinality(S) + 1
<1>1. S \cup {t} \in SUBSET Threads
  OBVIOUS
<1>2. Cardinality(T) <= Cardinality(S \cup {t})
  BY <1>1, FewerThreads
<1>3. Cardinality(S \cup {t}) <= Cardinality(S) + 1
  BY ThreadSet, FS_AddElement
<1> QED
  BY <1>1, <1>2, <1>3, ThreadSet

\* Removing entries from the front keeps the type and shifts the others.
LEMMA DropProperties ==
  ASSUME NEW S, NEW q \in Seq(S), NEW n \in Nat
  PROVE  /\ SubSeq(q, n + 1, Len(q)) \in Seq(S)
         /\ Len(SubSeq(q, n + 1, Len(q))) = IF n <= Len(q) THEN Len(q) - n ELSE 0
         /\ \A i \in 1 .. Len(SubSeq(q, n + 1, Len(q))) :
              SubSeq(q, n + 1, Len(q))[i] = q[i + n] /\ i + n \in 1 .. Len(q)
<1>1. Len(q) \in Nat /\ n + 1 \in Int /\ Len(q) \in Int
  OBVIOUS
<1>2. \A i \in n + 1 .. Len(q) : q[i] \in S
  <2>1. \A i \in n + 1 .. Len(q) : i \in 1 .. Len(q)
    BY <1>1
  <2> QED
    BY <2>1
<1> DEFINE s == SubSeq(q, n + 1, Len(q))
<1>3. /\ s \in Seq(S)
      /\ Len(s) = IF n + 1 <= Len(q) THEN Len(q) - (n + 1) + 1 ELSE 0
      /\ \A i \in 1 .. Len(q) - (n + 1) + 1 : s[i] = q[n + 1 + i - 1]
  BY <1>1, <1>2, SubSeqProperties
<1> HIDE DEF s
<1>4. Len(s) = IF n <= Len(q) THEN Len(q) - n ELSE 0
  BY <1>1, <1>3
<1>5. \A i \in 1 .. Len(s) : s[i] = q[i + n] /\ i + n \in 1 .. Len(q)
  <2> TAKE i \in 1 .. Len(s)
  <2>1. i \in 1 .. Len(q) - (n + 1) + 1 /\ n + 1 + i - 1 = i + n
    BY <1>1, <1>4
  <2> QED
    BY <1>1, <1>3, <1>4, <2>1
<1> QED
  BY <1>3, <1>4, <1>5 DEF s

\* The first n entries
LEMMA TakeProperties ==
  ASSUME NEW S, NEW q \in Seq(S), NEW n \in 0 .. Len(q)
  PROVE  /\ SubSeq(q, 1, n) \in Seq(S) /\ Len(SubSeq(q, 1, n)) = n
         /\ \A i \in 1 .. n : SubSeq(q, 1, n)[i] = q[i]
<1>1. Len(q) \in Nat /\ n \in Int /\ 1 \in Int
  OBVIOUS
<1>2. \A i \in 1 .. n : q[i] \in S
  BY <1>1
<1>3. SubSeq(q, 1, n) \in Seq(S)
  BY <1>1, <1>2, SubSeqProperties
<1>4. Len(SubSeq(q, 1, n)) = IF 1 <= n THEN n - 1 + 1 ELSE 0
  BY <1>1, <1>2, SubSeqProperties
<1>5. \A i \in 1 .. n - 1 + 1 : SubSeq(q, 1, n)[i] = q[1 + i - 1]
  BY <1>1, <1>2, SubSeqProperties
<1> QED
  BY <1>1, <1>3, <1>4, <1>5

\* The place, behind a gap at n in m entries, of the i-th of what is left.
LEMMA BehindTheGap ==
  ASSUME NEW m \in Nat, NEW n \in Nat, 1 <= n, n <= m,
         NEW i \in Nat, i <= (n - 1) + (m - n), ~(i < n)
  PROVE  ~(i <= n - 1) /\ i - (n - 1) \in 1 .. m - n /\ i - (n - 1) + n = i + 1
  OBVIOUS

\* The queue with the n-th entry removed
LEMMA WithoutProperties ==
  ASSUME NEW S, NEW q \in Seq(S), NEW n \in DOMAIN q
  PROVE  LET s == SubSeq(q, 1, n - 1) \o SubSeq(q, n + 1, Len(q)) IN
         /\ s \in Seq(S) /\ Len(s) = Len(q) - 1
         /\ \A i \in 1 .. Len(s) : s[i] = IF i < n THEN q[i] ELSE q[i + 1]
<1> DEFINE a == SubSeq(q, 1, n - 1)
           b == SubSeq(q, n + 1, Len(q))
<1>1. Len(q) \in Nat /\ n \in 1 .. Len(q) /\ n - 1 \in 0 .. Len(q) /\ n \in Nat
  OBVIOUS
<1>2. a \in Seq(S) /\ Len(a) = n - 1 /\ \A i \in 1 .. n - 1 : a[i] = q[i]
  BY <1>1, TakeProperties
<1>3. b \in Seq(S) /\ Len(b) = Len(q) - n /\ \A i \in 1 .. Len(b) : b[i] = q[i + n]
  <2> HIDE DEF a
  <2>1. Len(b) = IF n <= Len(q) THEN Len(q) - n ELSE 0
    BY <1>1, DropProperties
  <2>2. n <= Len(q)
    BY <1>1
  <2>3. b \in Seq(S) /\ \A i \in 1 .. Len(b) : b[i] = q[i + n]
    BY <1>1, DropProperties
  <2> QED
    BY <2>1, <2>2, <2>3
<1> HIDE DEF a, b
<1>4. /\ a \o b \in Seq(S) /\ Len(a \o b) = Len(a) + Len(b)
      /\ \A i \in 1 .. Len(a) + Len(b) : (a \o b)[i] = IF i <= Len(a) THEN a[i] ELSE b[i - Len(a)]
  BY <1>2, <1>3, ConcatProperties
<1>5. Len(a \o b) = Len(q) - 1
  BY <1>1, <1>2, <1>3, <1>4
<1>6. \A i \in 1 .. Len(a \o b) : (a \o b)[i] = IF i < n THEN q[i] ELSE q[i + 1]
  <2> TAKE i \in 1 .. Len(a \o b)
  <2>1. i \in Nat /\ i \in 1 .. Len(a) + Len(b)
    BY <1>4
  <2>2. CASE i < n
    <3>1. i <= Len(a) /\ i \in 1 .. n - 1
      BY <1>1, <1>2, <2>1, <2>2
    <3> QED
      BY <1>2, <1>4, <2>1, <2>2, <3>1
  <2>3. CASE ~(i < n)
    <3>1. ~(i <= Len(a)) /\ i - Len(a) \in 1 .. Len(b) /\ i - Len(a) + n = i + 1
      <4>1. /\ Len(a) = n - 1 /\ Len(b) = Len(q) - n
            /\ Len(q) \in Nat /\ n \in 1 .. Len(q) /\ n \in Nat
        BY <1>1, <1>2, <1>3
      <4>2. /\ 1 <= n /\ n <= Len(q)
            /\ i \in Nat /\ i <= (n - 1) + (Len(q) - n) /\ ~(i < n)
        BY <2>1, <2>3, <4>1
      <4>3. ~(i <= n - 1) /\ i - (n - 1) \in 1 .. Len(q) - n /\ i - (n - 1) + n = i + 1
        BY <4>1, <4>2, BehindTheGap
      <4> QED
        BY <4>1, <4>3
    <3>2. (a \o b)[i] = b[i - Len(a)]
      BY <1>4, <2>1, <3>1
    <3>3. b[i - Len(a)] = q[i + 1]
      BY <1>3, <3>1
    <3> QED
      BY <2>3, <3>2, <3>3
  <2> QED
    BY <2>2, <2>3
<1> QED
  BY <1>4, <1>5, <1>6 DEF a, b

EntryOf(task, priority) == [task |-> task, priority |-> priority]

\* r is q with e inserted behind the first n entries.
IsInsertion(q, r, n, e) ==
  \A i \in 1 .. Len(q) + 1 : r[i] = IF i <= n THEN q[i] ELSE IF i = n + 1 THEN e ELSE q[i - 1]

\* A task is inserted behind the entries of some number.
LEMMA InsertedProperties ==
  ASSUME NEW q \in Seq(Entry), NEW task \in Tasks, NEW priority \in Priorities
  PROVE  /\ Inserted(q, task, priority) \in Seq(Entry)
         /\ Len(Inserted(q, task, priority)) = Len(q) + 1
         /\ \E n \in 0 .. Len(q) : IsInsertion(q, Inserted(q, task, priority), n,
                                              EntryOf(task, priority))
<1> DEFINE before == {i \in DOMAIN q : q[i].priority >= priority}
           n == Cardinality(before)
           e == [task |-> task, priority |-> priority]
           a == SubSeq(q, 1, n)
           b == SubSeq(q, n + 1, Len(q))
<1>1. Len(q) \in Nat /\ DOMAIN q = 1 .. Len(q)
  OBVIOUS
<1>2. n \in 0 .. Len(q)
  <2>1. IsFiniteSet(1 .. Len(q)) /\ Cardinality(1 .. Len(q)) = Len(q)
    BY <1>1, FS_Interval
  <2>2. before \in SUBSET (1 .. Len(q))
    BY <1>1
  <2>3. IsFiniteSet(before) /\ n <= Len(q)
    BY <2>1, <2>2, FS_Subset
  <2>4. n \in Nat
    BY <2>3, FS_CardinalityType
  <2> QED
    BY <1>1, <2>3, <2>4
<1> HIDE DEF before
<1>3. a \in Seq(Entry) /\ Len(a) = n /\ \A i \in 1 .. n : a[i] = q[i]
  BY <1>2, TakeProperties
<1>4. n \in Nat /\ n <= Len(q)
  BY <1>1, <1>2
<1> HIDE DEF n
<1>5. /\ b \in Seq(Entry) /\ Len(b) = IF n <= Len(q) THEN Len(q) - n ELSE 0
      /\ \A i \in 1 .. Len(b) : b[i] = q[i + n] /\ i + n \in 1 .. Len(q)
  BY <1>4, DropProperties
<1>6. Len(b) = Len(q) - n
  BY <1>4, <1>5
<1>7. <<e>> \in Seq(Entry) /\ Len(<<e>>) = 1 /\ <<e>>[1] = e
  BY DEF Entry
<1> HIDE DEF a, b, e
<1>8. /\ a \o <<e>> \in Seq(Entry) /\ Len(a \o <<e>>) = n + 1
      /\ \A i \in 1 .. n + 1 : (a \o <<e>>)[i] = IF i <= n THEN a[i] ELSE <<e>>[i - n]
  BY <1>3, <1>7, ConcatProperties
<1> DEFINE c == a \o <<e>>
<1>9. \A i \in 1 .. n + 1 : c[i] = IF i <= n THEN q[i] ELSE e
  <2> TAKE i \in 1 .. n + 1
  <2>1. i <= n \/ i - n = 1
    BY <1>4
  <2>2. i <= n => i \in 1 .. n
    BY <1>4
  <2> QED
    BY <1>3, <1>7, <1>8, <2>1, <2>2
<1>10. c \in Seq(Entry) /\ Len(c) = n + 1
  BY <1>8
<1> HIDE DEF c
<1> DEFINE s == c \o b
<1>11. /\ s \in Seq(Entry) /\ Len(s) = Len(c) + Len(b)
       /\ \A i \in 1 .. Len(c) + Len(b) : s[i] = IF i <= Len(c) THEN c[i] ELSE b[i - Len(c)]
  BY <1>5, <1>10, ConcatProperties
<1>12. Len(s) = Len(q) + 1
  BY <1>1, <1>4, <1>6, <1>10, <1>11
<1>13. \A i \in 1 .. Len(q) + 1 : s[i] = IF i <= n THEN q[i] ELSE IF i = n + 1 THEN e ELSE q[i - 1]
  <2> TAKE i \in 1 .. Len(q) + 1
  <2>1. i \in 1 .. Len(c) + Len(b) /\ i \in Nat
    BY <1>1, <1>11, <1>12
  <2>2. CASE i <= n + 1
    <3>1. i \in 1 .. n + 1 /\ i <= Len(c) /\ (~(i <= n) => i = n + 1)
      BY <1>4, <1>10, <2>1, <2>2
    <3> QED
      BY <1>9, <1>11, <2>1, <3>1
  <2>3. CASE ~(i <= n + 1)
    <3>1. /\ i - Len(c) \in 1 .. Len(b) /\ i - Len(c) + n = i - 1 /\ ~(i <= Len(c))
          /\ ~(i <= n) /\ i # n + 1
      BY <1>1, <1>4, <1>6, <1>10, <2>1, <2>3
    <3> QED
      BY <1>5, <1>11, <2>1, <3>1
  <2> QED
    BY <2>2, <2>3
<1>14. Inserted(q, task, priority) = s
  BY DEF Inserted, s, c, a, b, e, n, before
<1> HIDE DEF s
<1> QED
  BY <1>2, <1>11, <1>12, <1>13, <1>14 DEF e, IsInsertion, EntryOf

-----------------------------------------------------------------------------
(* The outcomes of LookForWork                                             *)

Takes(t, active, ready) ==
  /\ queue # <<>> /\ ~TooManyThreadsActive
  /\ thread' = [thread EXCEPT ![t] = Runs(Head(queue).task)]
  /\ queue' = Tail(queue) /\ activeThreads' = active /\ runnableReady' = ready
  /\ UNCHANGED <<expiredThreads, waitingThreads, client>>
Exits(t, active, ready) ==
  /\ TooManyThreadsActive \/ queue = <<>>
  /\ isExiting /\ Leaves_run(t, active) /\ runnableReady' = ready
  /\ UNCHANGED <<queue, expiredThreads, waitingThreads>>
TooMany(t, active, ready) ==
  /\ ~isExiting /\ TooManyThreadsActive /\ Expires(t, active) /\ runnableReady' = ready
  /\ UNCHANGED <<queue, waitingThreads>>
Idles(t, active, ready) ==
  /\ queue = <<>> /\ ~isExiting /\ ~TooManyThreadsActive
  /\ waitingThreads' = waitingThreads + 1 /\ RegisterInactive(active)
  /\ runnableReady' = Sleep(ready, t)
  /\ thread' = [thread EXCEPT ![t] = At("idle")]
  /\ UNCHANGED <<queue, expiredThreads>>

\* LookForWork has one of four outcomes.
LEMMA LookCases ==
  ASSUME NEW t, NEW active, NEW ready, LookForWork(t, active, ready)
  PROVE  Takes(t, active, ready) \/ Exits(t, active, ready) \/ TooMany(t, active, ready)
         \/ Idles(t, active, ready)
BY DEF LookForWork, Takes, Exits, TooMany, Idles

-----------------------------------------------------------------------------
(* Types, and what a client and a thread are doing                         *)

Shape == PoolTypes /\ ClientsKnown /\ ThreadsKnown /\ LaunchKnown

\* The records that actions make of a client
LEMMA StateTypes ==
  /\ User \in ClientState
  /\ \A t \in Threads, more \in BOOLEAN :
       LET s == [User EXCEPT !.at = "launch", !.thread = t, !.flag = more] IN
       /\ s \in ClientState /\ s.at = "launch" /\ s.thread = t /\ s.flag = more
       /\ s.task = NoTask /\ s.joining = {}
  /\ \A where \in {"push", "asleep", "return"} :
       LET s == [User EXCEPT !.at = where] IN
       /\ s \in ClientState /\ s.at = where /\ s.thread = NoThread
       /\ s.task = NoTask /\ s.joining = {} /\ s.flag = FALSE
  /\ \A task \in Tasks, f \in BOOLEAN :
       LET s == [User EXCEPT !.at = "steal", !.task = task, !.flag = f] IN
       /\ s \in ClientState /\ s.at = "steal" /\ s.task = task /\ s.flag = f
       /\ s.thread = NoThread /\ s.joining = {}
  /\ \A S \in SUBSET Threads :
       LET s == [User EXCEPT !.at = "join", !.joining = S] IN
       /\ s \in ClientState /\ s.at = "join" /\ s.joining = S
       /\ s.thread = NoThread /\ s.task = NoTask
  /\ User.at = "user" /\ User.thread = NoThread /\ User.task = NoTask /\ User.joining = {}
  /\ User.flag = FALSE
BY DEF ClientState, User

\* The records that actions make of a thread
LEMMA AtTypes ==
  ASSUME NEW where \in {"none", "done", "start", "idle", "called", "late", "left", "finish"}
  PROVE  At(where) \in ThreadState /\ At(where).at = where /\ At(where).task = NoTask
BY DEF At, ThreadState

\* The record of a thread that runs a task
LEMMA RunsTypes ==
  ASSUME NEW task \in Tasks \cup {NoTask}
  PROVE  Runs(task) \in ThreadState /\ Runs(task).at = "task" /\ Runs(task).task = task
BY DEF Runs, ThreadState

\* A step of one client
LEMMA ClientMoves ==
  ASSUME client \in [Clients -> ClientState], ClientsKnown,
         NEW c \in Clients, NEW s \in ClientState, Becomes(c, s),
         \A d \in Clients : d # c => (mutex' = d <=> mutex = d),
         s.at \in {"launch", "push"} <=> mutex' = c,
         s.at = "launch" <=> s.thread # NoThread,
         s.at = "steal" <=> s.task # NoTask,
         s.joining # {} => s.at = "join"
  PROVE  /\ client' \in [Clients -> ClientState] /\ ClientsKnown'
         /\ client'[c] = s /\ \A d \in Clients : d # c => client'[d] = client[d]
<1>1. /\ client' \in [Clients -> ClientState]
      /\ client'[c] = s /\ \A d \in Clients : d # c => client'[d] = client[d]
  BY DEF Becomes
<1>2. ClientsKnown'
  BY <1>1 DEF ClientsKnown
<1> QED
  BY <1>1, <1>2

\* A step of one thread, or of what it has to run
LEMMA ThreadMoves ==
  ASSUME thread \in [Threads -> ThreadState], runnable \in [Threads -> Tasks \cup {NoTask}],
         ThreadsKnown, NEW t \in Threads,
         NEW s \in ThreadState, thread' = [thread EXCEPT ![t] = s],
         NEW k \in Tasks \cup {NoTask}, runnable' = [runnable EXCEPT ![t] = k],
         s.at = "task" <=> s.task # NoTask, s.at = "start" => k # NoTask
  PROVE  /\ thread' \in [Threads -> ThreadState]
         /\ runnable' \in [Threads -> Tasks \cup {NoTask}] /\ ThreadsKnown'
BY DEF ThreadsKnown

\* registerTheadInactive wakes clients, and changes nothing else of them.
LEMMA InactiveClients ==
  ASSUME client \in [Clients -> ClientState], ClientsKnown, UNCHANGED mutex,
         NEW n, RegisterInactive(n)
  PROVE  /\ client' \in [Clients -> ClientState] /\ ClientsKnown'
         /\ \A c \in Clients :
              \/ client'[c] = client[c]
              \/ /\ client[c].at = "asleep" /\ client'[c].at = "woken"
                 /\ client'[c].thread = client[c].thread /\ client'[c].task = client[c].task
                 /\ client'[c].flag = client[c].flag
                 /\ client'[c].joining = client[c].joining
<1>1. \A c \in Clients :
        client'[c] = IF n = 1 /\ client[c].at = "asleep" THEN [client[c] EXCEPT !.at = "woken"]
                                                         ELSE client[c]
  BY DEF RegisterInactive
<1>2. \A c \in Clients :
        LET s == [client[c] EXCEPT !.at = "woken"] IN
        /\ s \in ClientState /\ s.at = "woken" /\ s.thread = client[c].thread
        /\ s.task = client[c].task /\ s.flag = client[c].flag /\ s.joining = client[c].joining
  BY DEF ClientState
<1>3. client' \in [Clients -> ClientState]
  BY <1>1, <1>2 DEF RegisterInactive
<1>4. \A c \in Clients :
        \/ client'[c] = client[c]
        \/ /\ client[c].at = "asleep" /\ client'[c].at = "woken"
           /\ client'[c].thread = client[c].thread /\ client'[c].task = client[c].task
           /\ client'[c].flag = client[c].flag /\ client'[c].joining = client[c].joining
  BY <1>1, <1>2
<1>5. ClientsKnown'
  BY <1>4 DEF ClientsKnown
<1> QED
  BY <1>3, <1>4, <1>5

\* The queue after a task has been put into it and the first entry removed
LEMMA EnqueuedType ==
  ASSUME queue \in Seq(Entry), NEW task \in Tasks, NEW priority \in Priorities,
         NEW n \in Nat, EnqueueTask(task, priority, n)
  PROVE  queue' \in Seq(Entry)
<1>1. Inserted(queue, task, priority) \in Seq(Entry)
  BY InsertedProperties
<1> QED
  BY <1>1, DropProperties DEF EnqueueTask

\* While the mutex is free, nobody starts a thread.
LEMMA FreeNoLaunch ==
  ASSUME ClientsKnown, mutex = Free
  PROVE  LaunchKnown
BY PoolAssumption DEF ClientsKnown, LaunchKnown, Clients

\* Only the client that has the mutex starts a thread.
LEMMA OneLaunches ==
  ASSUME ClientsKnown, NEW c \in Clients, mutex = c, NEW d \in Clients, d # c
  PROVE  client[d].at \notin {"launch", "push"}
BY DEF ClientsKnown

\* Only a client that has the mutex, or finds it free, may start a thread.
MayTry(c, more) ==
  /\ c \in Clients /\ more \in BOOLEAN
  /\ \/ more /\ client[c].at = "push" /\ mutex = c
     \/ ~more /\ client[c].at = "user" /\ mutex = Free

\* The first task of the queue
LEMMA FirstTask ==
  ASSUME queue \in Seq(Entry), queue # <<>>
  PROVE  /\ Head(queue).task \in Tasks /\ Tail(queue) \in Seq(Entry)
         /\ Head(queue) = queue[1] /\ 1 \in DOMAIN queue /\ Len(queue) \in Nat
         /\ Len(Tail(queue)) = Len(queue) - 1
         /\ \A i \in 1 .. Len(queue) - 1 : Tail(queue)[i] = queue[i + 1]
<1>1. Len(queue) \in Nat /\ Len(queue) # 0
  BY EmptySeq
<1>2. /\ Head(queue) \in Entry /\ Tail(queue) \in Seq(Entry)
      /\ Len(Tail(queue)) = Len(queue) - 1
      /\ \A i \in 1 .. Len(Tail(queue)) : Tail(queue)[i] = queue[i + 1]
  BY HeadTailProperties
<1> QED
  BY <1>1, <1>2 DEF Entry

\* tryStart keeps the types.
LEMMA TryStartShape ==
  ASSUME Shape, NEW c, NEW more, MayTry(c, more), NEW task \in Tasks,
         TryStartTask(c, task, more),
         UNCHANGED <<isExiting, maxThreadCount, reservedThreads, deleted>>,
         calls' \in 0 .. MaxCalls, mishaps' \subseteq Mishaps
  PROVE  Shape'
<1> USE DEF Shape, PoolTypes
<1>c. c \in Clients /\ more \in BOOLEAN /\ Removed(more) \in Nat /\ Free \notin Clients
      /\ mutex \in {Free, c} /\ 0 \in Priorities /\ NoThread \notin Threads /\ NoTask \notin Tasks
  BY PoolAssumption DEF MayTry, Removed, Clients
<1>n. 1 + Removed(more) = Removed(more) + 1
  BY <1>c
<1>1. ASSUME NEW t \in Threads, mutex' = c, Launches(c, t, more)
      PROVE  /\ client' \in [Clients -> ClientState] /\ ClientsKnown' /\ mutex' \in Clients
             /\ runnable'[t] # NoTask => LaunchKnown'
  <2> DEFINE s == [User EXCEPT !.at = "launch", !.thread = t, !.flag = more]
  <2>1. /\ s \in ClientState /\ s.at = "launch" /\ s.thread = t
        /\ s.task = NoTask /\ s.joining = {}
    BY <1>c DEF User, ClientState
  <2>2. Becomes(c, s)
    BY <1>1 DEF Launches
  <2> HIDE DEF s
  <2>3. \A d \in Clients : d # c => (mutex' = d <=> mutex = d)
    BY <1>1, <1>c
  <2>4. /\ client' \in [Clients -> ClientState] /\ ClientsKnown' /\ client'[c] = s
    BY <1>1, <1>c, <2>1, <2>2, <2>3, ClientMoves
  <2>5. runnable'[t] # NoTask => LaunchKnown'
    BY <1>1, <1>c, <2>1, <2>4 DEF LaunchKnown, ClientsKnown
  <2> QED
    BY <1>1, <1>c, <2>4, <2>5
<1>2. CASE StartThread(c, task, more)
  <2>1. PICK t \in Threads :
          /\ thread[t].at = "none" /\ thread' = [thread EXCEPT ![t] = At("done")]
          /\ allThreads' = allThreads \cup {t} /\ runnable' = [runnable EXCEPT ![t] = task]
          /\ queue' = SubSeq(queue, 1 + Removed(more), Len(queue))
          /\ mutex' = c /\ Launches(c, t, more)
          /\ UNCHANGED <<expiredThreads, waitingThreads>>
    BY <1>2 DEF StartThread
  <2>2. queue' \in Seq(Entry)
    BY <1>c, <1>n, <2>1, DropProperties
  <2>3. thread' \in [Threads -> ThreadState] /\ ThreadsKnown'
        /\ runnable' \in [Threads -> Tasks \cup {NoTask}]
    BY <2>1, AtTypes, ThreadMoves
  <2>4. runnable'[t] # NoTask
    BY <1>c, <2>1
  <2> QED
    BY <1>1, <2>1, <2>2, <2>3, <2>4
<1>3. CASE RestartThread(c, task, more) /\ expiredThreads # <<>>
  <2> DEFINE t == Head(expiredThreads)
  <2>1. t \in Threads /\ Tail(expiredThreads) \in Seq(Threads)
    BY <1>3, HeadTailProperties
  <2>2. queue' \in Seq(Entry)
    BY <1>c, <1>n, <1>3, DropProperties DEF RestartThread
  <2>3. runnable' \in [Threads -> Tasks \cup {NoTask}] /\ ThreadsKnown'
    BY <1>c, <1>3, <2>1 DEF RestartThread, ThreadsKnown
  <2>4. runnable'[t] # NoTask
    BY <1>c, <1>3, <2>1 DEF RestartThread
  <2>5. client' \in [Clients -> ClientState] /\ ClientsKnown' /\ mutex' \in Clients
        /\ LaunchKnown'
    BY <1>1, <1>3, <2>1, <2>4 DEF RestartThread
  <2> QED
    BY <1>3, <2>1, <2>2, <2>3, <2>5 DEF RestartThread
<1>4. CASE RecycleThread(task, more)
  <2>1. queue' \in Seq(Entry)
    BY <1>c, <1>4, EnqueuedType DEF RecycleThread
  <2>2. UNCHANGED <<allThreads, expiredThreads, mutex, runnable, thread, client>>
        /\ waitingThreads' \in Int
    BY <1>4 DEF RecycleThread
  <2> QED
    BY <2>1, <2>2 DEF ClientsKnown, ThreadsKnown, LaunchKnown
<1> QED
  BY <1>2, <1>3, <1>4 DEF TryStartTask

\* So does a thread that looks for work.
LEMMA LookShape ==
  ASSUME Shape, NEW t \in Threads, NEW active, NEW ready, LookForWork(t, active, ready),
         UNCHANGED <<allThreads, isExiting, maxThreadCount, reservedThreads, mutex,
                     runnable, calls>>,
         deleted' \subseteq Tasks, mishaps' \subseteq Mishaps, mutex = Free
  PROVE  Shape'
<1> USE DEF Shape, PoolTypes
<1>r. runnable' = [runnable EXCEPT ![t] = runnable[t]] /\ runnable[t] \in Tasks \cup {NoTask}
  OBVIOUS
<1>n. NoTask \notin Tasks
  BY PoolAssumption
<1>a. ASSUME NEW where \in {"left", "idle"}, thread' = [thread EXCEPT ![t] = At(where)]
      PROVE  /\ thread' \in [Threads -> ThreadState] /\ ThreadsKnown'
             /\ runnable' \in [Threads -> Tasks \cup {NoTask}]
  <2>1. At(where) \in ThreadState /\ At(where).at = where /\ At(where).task = NoTask
    BY DEF At, ThreadState
  <2> QED
    BY <1>a, <1>r, <2>1, ThreadMoves
<1>l. ClientsKnown' => LaunchKnown'
  <2>1. mutex' = Free
    OBVIOUS
  <2> QED
    BY <2>1, PoolAssumption DEF ClientsKnown, LaunchKnown, Clients
<1>1. CASE Takes(t, active, ready)
  <2>1. Head(queue).task \in Tasks /\ Tail(queue) \in Seq(Entry)
    BY <1>1, FirstTask DEF Takes
  <2> DEFINE s == Runs(Head(queue).task)
  <2>2. s \in ThreadState /\ s.at = "task" /\ s.task \in Tasks
    BY <2>1 DEF Runs, ThreadState
  <2>3. thread' = [thread EXCEPT ![t] = s] /\ s.at = "task" /\ s.task # NoTask /\ s.at # "start"
    BY <1>1, <1>n, <2>2 DEF Takes
  <2> HIDE DEF s
  <2>4. /\ thread' \in [Threads -> ThreadState] /\ ThreadsKnown'
        /\ runnable' \in [Threads -> Tasks \cup {NoTask}]
    BY <1>r, <2>2, <2>3, ThreadMoves
  <2>5. UNCHANGED <<client, expiredThreads, waitingThreads>> /\ queue' \in Seq(Entry)
    BY <1>1, <2>1 DEF Takes
  <2> QED
    BY <2>4, <2>5, <1>l DEF ClientsKnown
<1>2. CASE Exits(t, active, ready)
  <2>1. /\ thread' = [thread EXCEPT ![t] = At("left")] /\ RegisterInactive(active)
        /\ UNCHANGED <<queue, expiredThreads, waitingThreads>>
    BY <1>2 DEF Exits, Leaves_run
  <2>2. client' \in [Clients -> ClientState] /\ ClientsKnown'
    BY <2>1, InactiveClients
  <2> QED
    BY <1>a, <1>l, <2>1, <2>2
<1>3. CASE TooMany(t, active, ready)
  <2>1. /\ thread' = [thread EXCEPT ![t] = At("left")] /\ RegisterInactive(active)
        /\ expiredThreads' = Append(expiredThreads, t)
        /\ UNCHANGED <<queue, waitingThreads>>
    BY <1>3 DEF TooMany, Expires, Leaves_run
  <2>2. client' \in [Clients -> ClientState] /\ ClientsKnown'
    BY <2>1, InactiveClients
  <2> QED
    BY <1>a, <1>l, <2>1, <2>2
<1>4. CASE Idles(t, active, ready)
  <2>1. /\ thread' = [thread EXCEPT ![t] = At("idle")] /\ RegisterInactive(active)
        /\ waitingThreads' \in Int /\ UNCHANGED <<queue, expiredThreads>>
    BY <1>4 DEF Idles
  <2>2. client' \in [Clients -> ClientState] /\ ClientsKnown'
    BY <2>1, InactiveClients
  <2> QED
    BY <1>a, <1>l, <2>1, <2>2
<1> QED
  BY <1>1, <1>2, <1>3, <1>4, LookCases

\* The steps of threads keep the types.
LEMMA ThreadShape ==
  ASSUME Shape, NEW t \in Threads, mishaps' \subseteq Mishaps,
         \/ RunBegin(t) \/ TaskEnd(t) \/ WaitLeave(t) \/ WaitEnd(t)
         \/ FinishBegin(t) \/ FinishEnd(t) \/ WaitStep(t)
  PROVE  Shape'
<1> USE DEF Shape, PoolTypes
<1>r. /\ runnable' = runnable =>
           runnable' = [runnable EXCEPT ![t] = runnable[t]] /\ runnable[t] \in Tasks \cup {NoTask}
      /\ runnable[t] \in Tasks \cup {NoTask}
  OBVIOUS
<1>l. mutex' = Free /\ ClientsKnown' => LaunchKnown'
  BY PoolAssumption DEF ClientsKnown, LaunchKnown, Clients
<1>1. CASE RunBegin(t)
  <2>1. Runs(runnable[t]) \in ThreadState /\ Runs(runnable[t]).at = "task"
        /\ Runs(runnable[t]).task # NoTask
    BY <1>1, <1>r, RunsTypes DEF RunBegin, ThreadsKnown
  <2>2. /\ thread' \in [Threads -> ThreadState] /\ ThreadsKnown'
        /\ runnable' \in [Threads -> Tasks \cup {NoTask}]
    BY <1>1, <2>1, ThreadMoves DEF RunBegin
  <2> QED
    BY <1>1, <1>l, <2>2 DEF RunBegin, ClientsKnown, listVars, countVars, taskVars
<1>2. CASE TaskEnd(t)
  <2>1. thread[t].task \in Tasks
    BY <1>2 DEF TaskEnd, ThreadsKnown, ThreadState
  <2> QED
    BY <1>2, <2>1, LookShape DEF TaskEnd
<1>3. CASE WaitEnd(t)
  <2>1. CASE LookForWork(t, ActiveAgain, runnableReady)
    BY <1>3, <2>1, LookShape DEF WaitEnd, taskVars
  <2>2. CASE waitingThreads' = waitingThreads - 1 /\ Expires(t, ActiveAgain) /\ UNCHANGED queue
    <3>1. /\ thread' = [thread EXCEPT ![t] = At("left")] /\ RegisterInactive(ActiveAgain)
          /\ expiredThreads' = Append(expiredThreads, t) /\ waitingThreads' \in Int
      BY <2>2 DEF Expires, Leaves_run
    <3>2. /\ UNCHANGED <<allThreads, isExiting, maxThreadCount, reservedThreads, mutex,
                         runnable, deleted, calls>>
      BY <1>3 DEF WaitEnd, taskVars
    <3>3. client' \in [Clients -> ClientState] /\ ClientsKnown'
      BY <3>1, <3>2, InactiveClients
    <3>4. /\ thread' \in [Threads -> ThreadState] /\ ThreadsKnown'
          /\ runnable' \in [Threads -> Tasks \cup {NoTask}]
      BY <1>r, <3>1, <3>2, AtTypes, ThreadMoves
    <3> QED
      BY <1>3, <1>l, <2>2, <3>1, <3>2, <3>3, <3>4 DEF WaitEnd
  <2> QED
    BY <1>3, <2>1, <2>2 DEF WaitEnd
<1>4. CASE FinishBegin(t)
  <2>1. /\ thread' \in [Threads -> ThreadState] /\ ThreadsKnown'
        /\ runnable' \in [Threads -> Tasks \cup {NoTask}]
    BY <1>4, <1>r, AtTypes, ThreadMoves DEF FinishBegin
  <2>2. LaunchKnown'
    BY <1>4 DEF FinishBegin, LaunchKnown, At
  <2> QED
    BY <1>4, <2>1, <2>2 DEF FinishBegin, ClientsKnown, listVars, countVars, taskVars
<1>5. CASE FinishEnd(t)
  <2>1. /\ thread' \in [Threads -> ThreadState] /\ ThreadsKnown'
        /\ runnable' \in [Threads -> Tasks \cup {NoTask}]
    BY <1>5, <1>r, AtTypes, ThreadMoves DEF FinishEnd
  <2>2. LaunchKnown'
    BY <1>5 DEF FinishEnd, LaunchKnown, At
  <2> QED
    BY <1>5, <2>1, <2>2 DEF FinishEnd, ClientsKnown, listVars, countVars, taskVars
<1>6. CASE WaitStep(t)
  BY <1>6 DEF WaitStep, ClientsKnown, ThreadsKnown, LaunchKnown, listVars, countVars, taskVars
<1>7. CASE WaitLeave(t)
  <2>1. PICK where \in {"called", "late"} : thread' = [thread EXCEPT ![t] = At(where)]
    BY <1>7 DEF WaitLeave
  <2>2. /\ thread' \in [Threads -> ThreadState] /\ ThreadsKnown'
        /\ runnable' \in [Threads -> Tasks \cup {NoTask}]
    <3>1. At(where) \in ThreadState /\ At(where).at = where /\ At(where).task = NoTask
      BY AtTypes
    <3>2. runnable' = runnable
      BY <1>7 DEF WaitLeave
    <3> QED
      BY <1>r, <2>1, <3>1, <3>2, ThreadMoves
  <2>3. LaunchKnown'
    BY <1>7, <2>1 DEF WaitLeave, LaunchKnown, At
  <2> QED
    BY <1>7, <2>2, <2>3 DEF WaitLeave, ClientsKnown, listVars, countVars, taskVars
<1> QED
  BY <1>1, <1>2, <1>3, <1>4, <1>5, <1>6, <1>7

\* The steps of clients keep the types.
LEMMA ClientShape ==
  ASSUME Shape, NEW c \in Clients, mishaps' \subseteq Mishaps,
         \/ QThreadStart(c) \/ TryToStartMoreThreads(c) \/ StealEnd(c)
         \/ WaitForDoneWoken(c) \/ Reset(c) \/ ResetEnd(c)
         \/ \E t \in Threads : Join(c, t)
  PROVE  Shape'
<1> USE DEF Shape, PoolTypes
<1>c. Free \notin Clients /\ NoTask \notin Tasks /\ NoThread \notin Threads
  BY PoolAssumption DEF Clients
<1>k. client[c] \in ClientState
  OBVIOUS
<1>l. mutex' = Free /\ ClientsKnown' => LaunchKnown'
  BY PoolAssumption DEF ClientsKnown, LaunchKnown, Clients
<1>1. CASE QThreadStart(c)
  <2> DEFINE t == client[c].thread
  <2>1. t \in Threads /\ mutex = c
    BY <1>1, <1>k DEF QThreadStart, ClientsKnown, ClientState
  <2>2. /\ thread' \in [Threads -> ThreadState] /\ ThreadsKnown'
        /\ runnable' \in [Threads -> Tasks \cup {NoTask}]
    <3>1. runnable' = [runnable EXCEPT ![t] = runnable[t]] /\ runnable[t] \in Tasks \cup {NoTask}
      BY <1>1, <2>1 DEF QThreadStart
    <3>2. CASE UNCHANGED thread
      BY <1>1, <3>2 DEF QThreadStart, ThreadsKnown
    <3>3. ASSUME NEW state \in StartsRunning, thread' = [thread EXCEPT ![t] = state],
                 thread[t].at = "done"
          PROVE  /\ thread' \in [Threads -> ThreadState] /\ ThreadsKnown'
                 /\ runnable' \in [Threads -> Tasks \cup {NoTask}]
      <4>1. state = At("start") \/ state = At("done")
        BY <3>3 DEF StartsRunning
      <4>2. state \in ThreadState /\ state.at # "task" /\ state.task = NoTask
        BY <4>1 DEF At, ThreadState
      <4>3. runnable[t] # NoTask
        BY <1>1, <3>3 DEF LaunchKnown, QThreadStart
      <4> HIDE DEF t
      <4> QED
        BY <2>1, <3>1, <3>3, <4>2, <4>3, ThreadMoves
    <3> QED
      BY <1>1, <3>2, <3>3 DEF QThreadStart
  <2>3. ASSUME NEW s \in ClientState, Becomes(c, s), s.at # "launch", s.thread = NoThread,
               s.task = NoTask, s.joining = {}, s.at # "steal",
               (s.at = "push" /\ UNCHANGED mutex) \/ (s.at # "push" /\ mutex' = Free)
        PROVE  client' \in [Clients -> ClientState] /\ ClientsKnown' /\ LaunchKnown'
    <3>1. \A d \in Clients : d # c => (mutex' = d <=> mutex = d)
      BY <1>c, <2>1, <2>3
    <3>2. s.at \in {"launch", "push"} <=> mutex' = c
      BY <1>c, <2>1, <2>3
    <3>3. /\ client' \in [Clients -> ClientState] /\ ClientsKnown' /\ client'[c] = s
      BY <2>3, <3>1, <3>2, ClientMoves
    <3>4. LaunchKnown'
      BY <1>c, <2>1, <2>3, <3>3 DEF LaunchKnown, ClientsKnown
    <3> QED
      BY <3>3, <3>4
  <2>4. client' \in [Clients -> ClientState] /\ ClientsKnown' /\ LaunchKnown'
        /\ mutex' \in Clients \cup {Free}
    <3>1. CASE client[c].flag
      <4> DEFINE s == [User EXCEPT !.at = "push"]
      <4>1. /\ s \in ClientState /\ s.at = "push" /\ s.thread = NoThread
            /\ s.task = NoTask /\ s.joining = {}
        BY DEF User, ClientState
      <4>2. Becomes(c, s) /\ UNCHANGED mutex
        BY <1>1, <3>1 DEF QThreadStart
      <4> HIDE DEF s
      <4> QED
        BY <2>3, <4>1, <4>2
    <3>2. CASE ~client[c].flag
      <4>1. Becomes(c, User) /\ mutex' = Free
        BY <1>1, <3>2 DEF QThreadStart
      <4> QED
        BY <2>3, <4>1, StateTypes
    <3> QED
      BY <3>1, <3>2
  <2> QED
    BY <1>1, <2>2, <2>4 DEF QThreadStart, listVars, countVars, taskVars
<1>2. CASE TryToStartMoreThreads(c)
  <2>1. client[c].at = "push" /\ mutex = c /\ UNCHANGED <<isExiting, maxThreadCount,
        reservedThreads, deleted, calls>>
    BY <1>2 DEF TryToStartMoreThreads, ClientsKnown
  <2>2. CASE queue # <<>> /\ TryStartTask(c, Head(queue).task, TRUE)
    <3>1. Head(queue).task \in Tasks /\ MayTry(c, TRUE)
      BY <2>1, <2>2, FirstTask DEF MayTry
    <3> QED
      BY <2>1, <2>2, <3>1, TryStartShape
  <2>3. CASE /\ mutex' = Free /\ Becomes(c, User)
             /\ UNCHANGED <<listVars, waitingThreads, runnable, thread>>
    <3>1. \A d \in Clients : d # c => (mutex' = d <=> mutex = d)
      BY <1>c, <2>1, <2>3
    <3>2. client' \in [Clients -> ClientState] /\ ClientsKnown'
      BY <1>c, <2>3, <3>1, StateTypes, ClientMoves
    <3> QED
      BY <1>l, <2>1, <2>3, <3>2 DEF ThreadsKnown, listVars
  <2> QED
    BY <1>2, <2>2, <2>3 DEF TryToStartMoreThreads
<1>f. ASSUME mutex = Free, UNCHANGED mutex, NEW s \in ClientState, Becomes(c, s),
             s.at \notin {"launch", "push"}, s.thread = NoThread,
             s.at = "steal" <=> s.task # NoTask, s.joining # {} => s.at = "join"
      PROVE  client' \in [Clients -> ClientState] /\ ClientsKnown' /\ LaunchKnown'
  BY <1>c, <1>f, <1>l, ClientMoves
<1>3. CASE StealEnd(c)
  <2>1. client[c].task \in Tasks \cup {NoTask} /\ client[c].task # NoTask
    BY <1>3, <1>k DEF StealEnd, ClientsKnown, ClientState
  <2>2. deleted' \subseteq Tasks
    BY <1>3, <2>1 DEF StealEnd
  <2>3. client' \in [Clients -> ClientState] /\ ClientsKnown' /\ LaunchKnown'
    BY <1>3, <1>f, StateTypes DEF StealEnd
  <2> QED
    BY <1>3, <2>2, <2>3 DEF StealEnd, ThreadsKnown, listVars, countVars
<1>4. CASE WaitForDoneWoken(c)
  <2> DEFINE a == [client[c] EXCEPT !.at = "asleep"]
  <2>1. /\ client[c].thread = NoThread /\ client[c].task = NoTask /\ client[c].joining = {}
        /\ mutex = Free
    BY <1>4 DEF WaitForDoneWoken, ClientsKnown
  <2> DEFINE s == IF Done THEN [a EXCEPT !.at = "return"] ELSE a
  <2>2. /\ s \in ClientState /\ s.at \in {"asleep", "return"} /\ s.thread = NoThread
        /\ s.task = NoTask /\ s.joining = {}
    BY <1>k, <2>1 DEF ClientState
  <2>3. Becomes(c, s) /\ UNCHANGED <<listVars, isExiting, countVars, mutex, runnable, thread,
                                      taskVars>>
    BY <1>4 DEF WaitForDoneWoken, Looks
  <2> HIDE DEF a, s
  <2>4. client' \in [Clients -> ClientState] /\ ClientsKnown' /\ LaunchKnown'
    BY <1>f, <2>1, <2>2, <2>3
  <2> QED
    BY <2>3, <2>4 DEF ThreadsKnown, listVars, countVars, taskVars
<1>5. CASE Reset(c)
  <2> DEFINE s == [User EXCEPT !.at = "join", !.joining = allThreads]
  <2>1. /\ s \in ClientState /\ s.at = "join" /\ s.thread = NoThread /\ s.task = NoTask
    BY DEF User, ClientState
  <2>2. Becomes(c, s) /\ mutex = Free /\ UNCHANGED mutex
    BY <1>5 DEF Reset
  <2> HIDE DEF s
  <2>3. client' \in [Clients -> ClientState] /\ ClientsKnown' /\ LaunchKnown'
    BY <1>f, <2>1, <2>2
  <2> QED
    BY <1>5, <2>3 DEF Reset, ThreadsKnown, countVars, taskVars
<1>6. ASSUME NEW t \in Threads, Join(c, t)
      PROVE  Shape'
  <2> DEFINE s == [client[c] EXCEPT !.joining = client[c].joining \ {t}]
  <2>1. /\ s \in ClientState /\ s.at = "join" /\ s.thread = NoThread /\ s.task = NoTask
    BY <1>6, <1>k DEF Join, ClientsKnown, ClientState
  <2>2. Becomes(c, s) /\ mutex # c /\ UNCHANGED mutex
    BY <1>6 DEF Join, ClientsKnown
  <2> HIDE DEF s
  <2>3. /\ client' \in [Clients -> ClientState] /\ ClientsKnown'
        /\ client'[c] = s /\ \A d \in Clients : d # c => client'[d] = client[d]
    BY <2>1, <2>2, ClientMoves
  <2>4. /\ thread' \in [Threads -> ThreadState] /\ ThreadsKnown'
        /\ runnable' \in [Threads -> Tasks \cup {NoTask}]
    BY <1>6, AtTypes, ThreadMoves DEF Join
  <2>5. LaunchKnown'
    BY <1>6, <2>1, <2>3 DEF Join, LaunchKnown, At
  <2> QED
    BY <1>6, <2>3, <2>4, <2>5 DEF Join, listVars, countVars, taskVars
<1>7. CASE ResetEnd(c)
  <2>1. mutex = Free /\ UNCHANGED mutex
    BY <1>7 DEF ResetEnd
  <2>2. CASE allThreads # {}
    <3> DEFINE s == [client[c] EXCEPT !.joining = allThreads]
    <3>1. /\ s \in ClientState /\ s.at = "join" /\ s.thread = NoThread /\ s.task = NoTask
      BY <1>7, <1>k DEF ResetEnd, ClientsKnown, ClientState
    <3>2. Becomes(c, s)
      BY <1>7, <2>2 DEF ResetEnd
    <3> HIDE DEF s
    <3>3. client' \in [Clients -> ClientState] /\ ClientsKnown' /\ LaunchKnown'
      BY <1>f, <2>1, <3>1, <3>2
    <3> QED
      BY <1>7, <2>2, <3>3 DEF ResetEnd, ThreadsKnown, taskVars
  <2>3. CASE allThreads = {}
    <3>1. Becomes(c, User)
      BY <1>7, <2>3 DEF ResetEnd
    <3>2. client' \in [Clients -> ClientState] /\ ClientsKnown' /\ LaunchKnown'
      BY <1>f, <2>1, <3>1, StateTypes
    <3>3. expiredThreads' = <<>> /\ waitingThreads' = 0 /\ isExiting' = FALSE
          /\ UNCHANGED allThreads
      BY <1>7, <2>3 DEF ResetEnd
    <3>4. UNCHANGED <<queue, maxThreadCount, reservedThreads, mutex, runnable, thread, taskVars>>
      BY <1>7 DEF ResetEnd
    <3> QED
      <4>0. <<>> \in Seq(Threads)
        OBVIOUS
      <4>1. expiredThreads' \in Seq(Threads)
        BY <3>3, <4>0
      <4>2. ThreadsKnown'
        BY <3>4 DEF ThreadsKnown
      <4>3. isExiting' \in BOOLEAN
        BY <3>3
      <4>4. waitingThreads' \in Int
        BY <3>3
      <4> QED
        BY <2>1, <3>2, <3>3, <3>4, <4>1, <4>2, <4>3, <4>4 DEF taskVars
  <2> QED
    BY <2>2, <2>3
<1> QED
  BY <1>1, <1>2, <1>3, <1>4, <1>5, <1>6, <1>7

\* So do the calls that start tasks, change limits or take tasks out.
LEMMA CallShape ==
  ASSUME Shape, NEW c \in Clients, mishaps' \subseteq Mishaps, Call(c)
  PROVE  Shape'
<1> USE DEF Shape, PoolTypes
<1>c. Free \notin Clients /\ NoTask \notin Tasks /\ NoThread \notin Threads /\ 0 \in Priorities
      /\ MaxCalls \in Nat /\ calls \in 0 .. MaxCalls
  BY PoolAssumption DEF Clients
<1>n. Counts => calls' \in 0 .. MaxCalls
  BY <1>c DEF Counts
<1>1. ASSUME NEW task \in Tasks, TryStart(c, task)
      PROVE  Shape'
  <2>1. MayTry(c, FALSE) /\ calls' \in 0 .. MaxCalls
    BY <1>1, <1>n DEF TryStart, MayStart, MayLaunch, Calls, MayTry
  <2> QED
    BY <1>1, <2>1, TryStartShape DEF TryStart
<1>2. ASSUME NEW task \in Tasks, NEW p \in Priorities, Queue(c, task, p)
      PROVE  Shape'
  <2>1. queue' \in Seq(Entry)
    BY <1>2, EnqueuedType DEF Queue
  <2>2. /\ calls' \in 0 .. MaxCalls
        /\ UNCHANGED <<allThreads, expiredThreads, isExiting, countVars, mutex,
                       runnable, thread, client, deleted>>
    BY <1>2, <1>n DEF Queue, MayStart
  <2> QED
    BY <2>1, <2>2 DEF ThreadsKnown, ClientsKnown, LaunchKnown, countVars
<1>p. ASSUME mutex = Free, mutex' = c, Becomes(c, [User EXCEPT !.at = "push"])
      PROVE  client' \in [Clients -> ClientState] /\ ClientsKnown' /\ LaunchKnown'
  <2> DEFINE s == [User EXCEPT !.at = "push"]
  <2>1. /\ s \in ClientState /\ s.at = "push" /\ s.thread = NoThread
        /\ s.task = NoTask /\ s.joining = {}
    BY DEF User, ClientState
  <2>2. Becomes(c, s) /\ \A d \in Clients : d # c => (mutex' = d <=> mutex = d)
    BY <1>c, <1>p
  <2> HIDE DEF s
  <2>3. /\ client' \in [Clients -> ClientState] /\ ClientsKnown' /\ client'[c] = s
    BY <1>p, <2>1, <2>2, ClientMoves
  <2>4. LaunchKnown'
    BY <1>p, <2>1, <2>3 DEF ClientsKnown, LaunchKnown
  <2> QED
    BY <2>3, <2>4
<1>3. ASSUME NEW n \in MaxThreadCounts, SetMaxThreadCount(c, n)
      PROVE  Shape'
  <2>1. mutex = Free /\ mutex' = c /\ Becomes(c, [User EXCEPT !.at = "push"])
    BY <1>3 DEF SetMaxThreadCount, MayLaunch, Calls
  <2>2. client' \in [Clients -> ClientState] /\ ClientsKnown' /\ LaunchKnown'
    BY <1>p, <2>1
  <2>3. calls' \in 0 .. MaxCalls /\ maxThreadCount' \in MaxThreadCounts
        /\ UNCHANGED <<listVars, isExiting, reservedThreads, waitingThreads, runnable, thread,
                       deleted>>
    BY <1>3, <1>n DEF SetMaxThreadCount
  <2> QED
    BY <2>1, <2>2, <2>3 DEF ThreadsKnown, listVars
<1>4. CASE ReserveThread(c)
  <2>1. calls' \in 0 .. MaxCalls /\ reservedThreads' \in Reservations
        /\ UNCHANGED <<listVars, isExiting, maxThreadCount, waitingThreads, mutex, client,
                       runnable, thread, deleted>>
    BY <1>4, <1>n DEF ReserveThread
  <2> QED
    BY <2>1 DEF ThreadsKnown, ClientsKnown, LaunchKnown, listVars
<1>5. CASE ReleaseThread(c)
  <2>1. mutex = Free /\ mutex' = c /\ Becomes(c, [User EXCEPT !.at = "push"])
    BY <1>5 DEF ReleaseThread, MayLaunch, Calls
  <2>2. client' \in [Clients -> ClientState] /\ ClientsKnown' /\ LaunchKnown'
    BY <1>p, <2>1
  <2>3. reservedThreads' \in Reservations
        /\ UNCHANGED <<listVars, isExiting, maxThreadCount, waitingThreads, runnable, thread,
                       taskVars>>
    BY <1>5 DEF ReleaseThread
  <2> QED
    BY <2>1, <2>2, <2>3 DEF ThreadsKnown, listVars, taskVars
<1>6. ASSUME NEW n \in DOMAIN queue, StealRunnable(c, n)
      PROVE  Shape'
  <2> DEFINE task == queue[n].task
             s == [User EXCEPT !.at = "steal", !.task = task, !.flag = LastUse(task)]
  <2>0. queue[n] \in Entry
    OBVIOUS
  <2>1. task \in Tasks /\ LastUse(task) \in BOOLEAN
    BY <2>0 DEF Entry, LastUse
  <2>2. s \in ClientState /\ s.at = "steal" /\ s.task = task /\ s.thread = NoThread
        /\ s.joining = {}
    BY <2>1 DEF User, ClientState
  <2>3. Becomes(c, s) /\ mutex = Free /\ UNCHANGED mutex
    BY <1>6 DEF StealRunnable, Calls
  <2> HIDE DEF s
  <2>4. client' \in [Clients -> ClientState] /\ ClientsKnown'
    BY <1>c, <2>1, <2>2, <2>3, ClientMoves
  <2>5. LaunchKnown'
    BY <1>c, <2>3, <2>4 DEF ClientsKnown, LaunchKnown
  <2>6. queue' \in Seq(Entry)
    BY <1>6, WithoutProperties DEF StealRunnable
  <2>7. UNCHANGED <<allThreads, expiredThreads, isExiting, countVars, mutex, runnable, thread,
                    deleted, calls>>
    BY <1>6 DEF StealRunnable
  <2> QED
    BY <2>4, <2>5, <2>6, <2>7 DEF ThreadsKnown, countVars
<1> QED
  BY <1>1, <1>2, <1>3, <1>4, <1>5, <1>6 DEF Call

\* So do the calls of waitForDone and its time-out.
LEMMA WaitCallShape ==
  ASSUME Shape, NEW c \in Clients, mishaps' \subseteq Mishaps, WaitCall(c)
  PROVE  Shape'
<1> USE DEF Shape, PoolTypes
<1>1. PICK a \in {[User EXCEPT !.at = "asleep"], User} : mutex = Free /\ Looks(c, a)
  BY DEF WaitCall, WaitForDone, WaitForDoneExpired, Calls
<1> DEFINE s == IF Done THEN [a EXCEPT !.at = "return"] ELSE a
<1>2. /\ s \in ClientState /\ s.at \in {"asleep", "return", "user"} /\ s.thread = NoThread
      /\ s.task = NoTask /\ s.joining = {}
  <2>1. /\ a \in ClientState /\ a.at \in {"asleep", "user"} /\ a.thread = NoThread
        /\ a.task = NoTask /\ a.joining = {}
    <3>1. CASE a = User
      BY <3>1 DEF User, ClientState
    <3>2. CASE a = [User EXCEPT !.at = "asleep"]
      BY <3>2 DEF User, ClientState
    <3> QED
      BY <3>1, <3>2
  <2> DEFINE r == [a EXCEPT !.at = "return"]
  <2>2. /\ r \in ClientState /\ r.at = "return" /\ r.thread = NoThread
        /\ r.task = NoTask /\ r.joining = {}
    BY <2>1 DEF ClientState
  <2> HIDE DEF r
  <2> QED
    BY <2>1, <2>2 DEF r
<1>3. Becomes(c, s) /\ mutex = Free /\ UNCHANGED mutex
      /\ UNCHANGED <<listVars, isExiting, countVars, runnable, thread, taskVars>>
  BY <1>1 DEF Looks
<1> HIDE DEF s
<1>c. Free \notin Clients
  BY PoolAssumption DEF Clients
<1>4. client' \in [Clients -> ClientState] /\ ClientsKnown'
  BY <1>c, <1>2, <1>3, ClientMoves
<1>5. LaunchKnown'
  BY <1>c, <1>3, <1>4 DEF ClientsKnown, LaunchKnown
<1> QED
  BY <1>3, <1>4, <1>5 DEF ThreadsKnown, listVars, countVars, taskVars

\* The next-state relation as a list of actions
LEMMA NextCases ==
  ASSUME Next
  PROVE  /\ Remember
         /\ \/ \E t \in Threads : \/ RunBegin(t) \/ TaskEnd(t) \/ WaitLeave(t) \/ WaitEnd(t)
                                  \/ FinishBegin(t) \/ FinishEnd(t) \/ WaitStep(t)
            \/ \E c \in Clients :
                 \/ QThreadStart(c) \/ TryToStartMoreThreads(c) \/ StealEnd(c)
                 \/ WaitForDoneWoken(c) \/ Reset(c) \/ ResetEnd(c)
                 \/ \E t \in Threads : Join(c, t)
            \/ \E c \in Clients : Call(c)
            \/ \E c \in Clients : WaitCall(c)
<1>1. CASE \E t \in Threads : ThreadStep(t) \/ (WaitStep(t) /\ Remember)
  BY <1>1 DEF ThreadStep
<1>2. CASE \E c \in Clients : ClientStep(c)
  BY <1>2 DEF ClientStep
<1>3. CASE \E c \in Callers : Call(c) /\ Remember
  BY <1>3 DEF Clients
<1>4. CASE \E c \in Waiters : WaitCall(c) /\ Remember
  BY <1>4 DEF Clients
<1> QED
  BY <1>1, <1>2, <1>3, <1>4 DEF Next

\* What has gone wrong stays known.
LEMMA MishapsGrow ==
  ASSUME mishaps \subseteq Mishaps, Remember
  PROVE  mishaps' \subseteq Mishaps /\ mishaps \subseteq mishaps'
BY DEF Remember, Mishaps

\* Every step keeps the types, and what clients and threads are known to do.
LEMMA ShapeStep ==
  ASSUME Shape, [Next]_vars
  PROVE  Shape'
<1>1. CASE Next
  <2>1. mishaps' \subseteq Mishaps
    BY <1>1, NextCases, MishapsGrow DEF Shape, PoolTypes
  <2> QED
    BY <1>1, <2>1, NextCases, ThreadShape, ClientShape, CallShape, WaitCallShape
<1>2. CASE UNCHANGED vars
  BY <1>2 DEF vars, listVars, countVars, taskVars, Shape, PoolTypes, ClientsKnown, ThreadsKnown,
              LaunchKnown
<1> QED
  BY <1>1, <1>2

-----------------------------------------------------------------------------
(* The threads in runnableReady.wait                                       *)

\* Condition c has been entered, and not left, by the threads of set w.
WaitedFor(c, w) ==
  /\ c \in ConditionOf(Threads) /\ w \subseteq Threads
  /\ c.asleep \cup c.signalled \cup c.expired = w
  /\ c.asleep \cap c.signalled = {} /\ c.asleep \cap c.expired = {}
  /\ c.signalled \cap c.expired = {}
  /\ c.waiters = Cardinality(w)

WaitsCounted == WaitedFor(runnableReady, Idle)

\* A thread goes to sleep.
LEMMA SleepCounted ==
  ASSUME NEW c, NEW w, WaitedFor(c, w), NEW t \in Threads, t \notin w
  PROVE  WaitedFor(Sleep(c, t), w \cup {t})
<1>1. Cardinality(w \cup {t}) = Cardinality(w) + 1 /\ Cardinality(w) \in Nat
  BY OneMore, ThreadSet DEF WaitedFor
<1>2. c.waiters + 1 \in Nat
  BY <1>1 DEF WaitedFor
<1>3. /\ Sleep(c, t) \in ConditionOf(Threads) /\ Sleep(c, t).waiters = c.waiters + 1
      /\ Sleep(c, t).asleep = c.asleep \cup {t} /\ Sleep(c, t).signalled = c.signalled
      /\ Sleep(c, t).expired = c.expired
  BY <1>2 DEF Sleep, ConditionOf, WaitedFor
<1> QED
  BY <1>1, <1>3 DEF WaitedFor

\* wakeOne counts a wake-up if there are waiters without one, and signals a
\* thread that is asleep.
LEMMA WokenOneCases ==
  ASSUME NEW c, NEW w, WaitedFor(c, w), NEW d \in WokenOne(c)
  PROVE  /\ WaitedFor(d, w) /\ d.waiters = c.waiters /\ d.expired = c.expired
         /\ d.wakeups = IF c.wakeups < c.waiters THEN c.wakeups + 1 ELSE c.waiters
         /\ \/ c.asleep = {} /\ d.asleep = {} /\ d.signalled = c.signalled
            \/ \E t \in c.asleep : /\ d.asleep = c.asleep \ {t}
                                   /\ d.signalled = c.signalled \cup {t}
<1> DEFINE n == IF c.wakeups < c.waiters THEN c.wakeups + 1 ELSE c.waiters
           counted == [c EXCEPT !.wakeups = n]
<1>1. c \in ConditionOf(Threads) /\ n \in Nat
  BY DEF WaitedFor, ConditionOf
<1>2. /\ counted \in ConditionOf(Threads) /\ counted.wakeups = n
      /\ counted.waiters = c.waiters /\ counted.asleep = c.asleep
      /\ counted.signalled = c.signalled /\ counted.expired = c.expired
  BY <1>1 DEF ConditionOf
<1>3. \/ c.asleep = {} /\ d = counted
      \/ \E t \in c.asleep :
           d = [counted EXCEPT !.asleep = @ \ {t}, !.signalled = @ \cup {t}]
  BY DEF WokenOne
<1> HIDE DEF n, counted
<1>4. CASE c.asleep = {} /\ d = counted
  BY <1>2, <1>4 DEF WaitedFor, n
<1>5. ASSUME NEW t \in c.asleep,
             d = [counted EXCEPT !.asleep = @ \ {t}, !.signalled = @ \cup {t}]
      PROVE  /\ WaitedFor(d, w) /\ d.waiters = c.waiters /\ d.expired = c.expired
             /\ d.wakeups = n /\ d.asleep = c.asleep \ {t} /\ d.signalled = c.signalled \cup {t}
  <2>1. t \in Threads
    BY <1>1 DEF ConditionOf
  <2>2. /\ d \in ConditionOf(Threads) /\ d.wakeups = n /\ d.waiters = c.waiters
        /\ d.expired = c.expired /\ d.asleep = c.asleep \ {t}
        /\ d.signalled = c.signalled \cup {t}
    BY <1>2, <1>5, <2>1 DEF ConditionOf
  <2>3. d.asleep \cup d.signalled \cup d.expired = c.asleep \cup c.signalled \cup c.expired
    BY <2>2
  <2> QED
    BY <1>5, <2>2, <2>3 DEF WaitedFor
<1> QED
  BY <1>3, <1>4, <1>5 DEF n

\* wakeAll
LEMMA WokenAllCounted ==
  ASSUME NEW c, NEW w, WaitedFor(c, w)
  PROVE  /\ WaitedFor(WokenAll(c), w) /\ WokenAll(c).wakeups = c.waiters
         /\ WokenAll(c).waiters = c.waiters /\ WokenAll(c).asleep = {}
         /\ WokenAll(c).signalled = c.signalled \cup c.asleep
         /\ WokenAll(c).expired = c.expired
BY DEF WaitedFor, WokenAll, ConditionOf

\* What a thread does by itself in the condition
Steps(c, t, d) ==
  \/ t \in c.asleep /\ d = Expired(c, t)
  \/ t \in c.asleep /\ d = Spurious(c, t)
  \/ SleepsAgain(c, t) /\ d = AsleepAgain(c, t)

\* Such a step keeps the waiters and the wake-ups.
LEMMA StepsCounted ==
  ASSUME NEW c, NEW w, WaitedFor(c, w), NEW t \in Threads, NEW d, Steps(c, t, d)
  PROVE  /\ WaitedFor(d, w) /\ d.wakeups = c.wakeups /\ d.waiters = c.waiters
         /\ \/ /\ t \in c.asleep /\ d.asleep = c.asleep \ {t}
               /\ d.signalled = c.signalled /\ d.expired = c.expired \cup {t}
            \/ /\ t \in c.asleep /\ d.asleep = c.asleep \ {t}
               /\ d.signalled = c.signalled \cup {t} /\ d.expired = c.expired
            \/ /\ t \in c.signalled /\ c.wakeups = 0
               /\ d.signalled = c.signalled \ {t} /\ d.expired = c.expired
<1>1. CASE t \in c.asleep /\ d = Expired(c, t)
  BY <1>1 DEF WaitedFor, Expired, ConditionOf
<1>2. CASE t \in c.asleep /\ d = Spurious(c, t)
  BY <1>2 DEF WaitedFor, Spurious, ConditionOf
<1>3. CASE SleepsAgain(c, t) /\ d = AsleepAgain(c, t)
  BY <1>3 DEF WaitedFor, SleepsAgain, AsleepAgain, ConditionOf
<1> QED
  BY <1>1, <1>2, <1>3 DEF Steps

\* A thread returns from the wait.
LEMMA LeftCounted ==
  ASSUME NEW c, NEW w, WaitedFor(c, w), NEW t, Leaves(c, t)
  PROVE  /\ t \in w /\ WaitedFor(Left(c, t), w \ {t})
         /\ Left(c, t).waiters = c.waiters - 1
         /\ Left(c, t).wakeups = c.wakeups - (IF t \in c.signalled THEN 1 ELSE 0)
         /\ Left(c, t).asleep = c.asleep
         /\ Left(c, t).signalled = c.signalled \ {t} /\ Left(c, t).expired = c.expired \ {t}
<1>1. t \in w /\ t \notin c.asleep
  BY DEF WaitedFor, Leaves
<1>2. Cardinality(w \ {t}) = Cardinality(w) - 1 /\ Cardinality(w \ {t}) \in Nat
  BY <1>1, OneLess, ThreadSet DEF WaitedFor
<1>3. c.waiters - 1 \in Nat
  BY <1>2 DEF WaitedFor
<1>4. c.wakeups - (IF t \in c.signalled THEN 1 ELSE 0) \in Nat
  BY DEF WaitedFor, Leaves, ConditionOf
<1>5. /\ Left(c, t) \in ConditionOf(Threads) /\ Left(c, t).waiters = c.waiters - 1
      /\ Left(c, t).wakeups = c.wakeups - (IF t \in c.signalled THEN 1 ELSE 0)
      /\ Left(c, t).asleep = c.asleep /\ Left(c, t).signalled = c.signalled \ {t}
      /\ Left(c, t).expired = c.expired \ {t}
  BY <1>3, <1>4 DEF Left, ConditionOf, WaitedFor
<1>6. Left(c, t).asleep \cup Left(c, t).signalled \cup Left(c, t).expired = w \ {t}
  BY <1>1, <1>5 DEF WaitedFor
<1> QED
  BY <1>1, <1>2, <1>5, <1>6 DEF WaitedFor

\* A thread moves.
LEMMA Moved ==
  ASSUME thread \in [Threads -> ThreadState], NEW t \in Threads, NEW s,
         thread' = [thread EXCEPT ![t] = s]
  PROVE  thread'[t] = s /\ \A u \in Threads : u # t => thread'[u] = thread[u]
OBVIOUS

\* A step of a thread that neither waits nor begins to
LEMMA WaitsKept ==
  ASSUME thread \in [Threads -> ThreadState], WaitsCounted, UNCHANGED runnableReady,
         NEW t \in Threads, thread[t].at # "idle", NEW s, s.at # "idle",
         thread' = [thread EXCEPT ![t] = s]
  PROVE  WaitsCounted'
<1>1. Idle' = Idle
  BY Moved DEF Idle
<1> QED
  BY <1>1 DEF WaitsCounted, WaitedFor

\* A thread that is not in the condition, of which ready is the state, looks
\* for work.
LEMMA LookWaits ==
  ASSUME thread \in [Threads -> ThreadState], NEW t \in Threads, NEW ready,
         WaitedFor(ready, Idle \ {t}), NEW active, LookForWork(t, active, ready)
  PROVE  WaitsCounted'
<1>1. ASSUME NEW s, s.at # "idle", thread' = [thread EXCEPT ![t] = s], runnableReady' = ready
      PROVE  WaitsCounted'
  <2>1. Idle' = Idle \ {t}
    BY <1>1, Moved DEF Idle
  <2> QED
    BY <1>1, <2>1 DEF WaitsCounted, WaitedFor
<1>2. CASE Takes(t, active, ready)
  BY <1>1, <1>2 DEF Takes, Runs
<1>3. CASE Exits(t, active, ready)
  BY <1>1, <1>3 DEF Exits, Leaves_run, At
<1>4. CASE TooMany(t, active, ready)
  BY <1>1, <1>4 DEF TooMany, Expires, Leaves_run, At
<1>5. CASE Idles(t, active, ready)
  <2>1. runnableReady' = Sleep(ready, t) /\ thread' = [thread EXCEPT ![t] = At("idle")]
    BY <1>5 DEF Idles
  <2>2. WaitedFor(Sleep(ready, t), (Idle \ {t}) \cup {t})
    BY SleepCounted
  <2>3. Idle' = (Idle \ {t}) \cup {t}
    BY <2>1, Moved DEF Idle, At
  <2> QED
    BY <2>1, <2>2, <2>3 DEF WaitsCounted, WaitedFor
<1> QED
  BY <1>2, <1>3, <1>4, <1>5, LookCases

\* No step but those of threads in the condition, wakeOne and wakeAll touches it.
LEMMA WaitsStep ==
  ASSUME Shape, WaitsCounted, [Next]_vars
  PROVE  WaitsCounted'
<1>t. thread \in [Threads -> ThreadState] /\ queue \in Seq(Entry)
  BY DEF Shape, PoolTypes
<1>k. ASSUME UNCHANGED <<thread, runnableReady>> PROVE WaitsCounted'
  BY <1>k DEF WaitsCounted, WaitedFor, Idle
<1>e. ASSUME NEW task, NEW p, NEW n, EnqueueTask(task, p, n), UNCHANGED thread
      PROVE  WaitsCounted'
  <2>1. runnableReady' \in WokenOne(runnableReady)
    BY <1>e DEF EnqueueTask
  <2>2. WaitedFor(runnableReady', Idle)
    BY <2>1, WokenOneCases DEF WaitsCounted
  <2>3. Idle' = Idle
    BY <1>e DEF Idle
  <2> QED
    BY <2>2, <2>3 DEF WaitsCounted
<1>s. ASSUME NEW c, NEW task, NEW more, TryStartTask(c, task, more)
      PROVE  WaitsCounted'
  <2>1. CASE StartThread(c, task, more)
    BY <1>t, <2>1, WaitsKept DEF StartThread, At
  <2>2. CASE RestartThread(c, task, more)
    BY <1>k, <2>2 DEF RestartThread
  <2>3. CASE RecycleThread(task, more)
    BY <1>e, <2>3 DEF RecycleThread
  <2> QED
    BY <1>s, <2>1, <2>2, <2>3 DEF TryStartTask
<1>1. ASSUME NEW t \in Threads, RunBegin(t) PROVE WaitsCounted'
  BY <1>1, <1>t, WaitsKept DEF RunBegin, Runs
<1>2. ASSUME NEW t \in Threads, TaskEnd(t) PROVE WaitsCounted'
  <2>1. Idle \ {t} = Idle
    BY <1>2 DEF TaskEnd, Idle
  <2> QED
    BY <1>2, <1>t, <2>1, LookWaits DEF TaskEnd, WaitsCounted
<1>3. ASSUME NEW t \in Threads, WaitEnd(t) PROVE WaitsCounted'
  <2>1. CASE thread[t].at = "called" /\ LookForWork(t, ActiveAgain, runnableReady)
    <3>1. Idle \ {t} = Idle
      BY <2>1 DEF Idle
    <3> QED
      BY <1>t, <2>1, <3>1, LookWaits DEF WaitsCounted
  <2>2. CASE thread[t].at = "late" /\ Expires(t, ActiveAgain) /\ UNCHANGED runnableReady
    BY <1>t, <2>2, WaitsKept DEF Expires, Leaves_run, At
  <2> QED
    BY <1>3, <2>1, <2>2 DEF WaitEnd
<1>4. ASSUME NEW t \in Threads, FinishBegin(t) PROVE WaitsCounted'
  BY <1>4, <1>t, WaitsKept DEF FinishBegin, At
<1>5. ASSUME NEW t \in Threads, FinishEnd(t) PROVE WaitsCounted'
  BY <1>5, <1>t, WaitsKept DEF FinishEnd, At
<1>6. ASSUME NEW t \in Threads, WaitStep(t) PROVE WaitsCounted'
  <2>1. Steps(runnableReady, t, runnableReady') /\ UNCHANGED thread
    BY <1>6 DEF WaitStep, Steps
  <2>2. WaitedFor(runnableReady', Idle)
    BY <2>1, StepsCounted DEF WaitsCounted
  <2>3. Idle' = Idle
    BY <2>1 DEF Idle
  <2> QED
    BY <2>2, <2>3 DEF WaitsCounted
<1>7. ASSUME NEW c \in Clients, QThreadStart(c) PROVE WaitsCounted'
  <2> DEFINE t == client[c].thread
  <2>1. t \in Threads
    BY <1>7 DEF QThreadStart, Shape, PoolTypes, ClientsKnown, ClientState
  <2>2. UNCHANGED runnableReady
    BY <1>7 DEF QThreadStart
  <2>3. CASE UNCHANGED thread
    BY <1>k, <2>2, <2>3
  <2>4. ASSUME NEW state \in StartsRunning, thread' = [thread EXCEPT ![t] = state],
               thread[t].at = "done"
        PROVE  WaitsCounted'
    <3>1. state.at # "idle"
      BY <2>4 DEF StartsRunning, At
    <3> HIDE DEF t
    <3> QED
      BY <1>t, <2>1, <2>2, <2>4, <3>1, WaitsKept
  <2> QED
    BY <1>7, <2>3, <2>4 DEF QThreadStart
<1>8. ASSUME NEW c \in Clients, TryToStartMoreThreads(c) PROVE WaitsCounted'
  BY <1>8, <1>k, <1>s DEF TryToStartMoreThreads
<1>9. ASSUME NEW c \in Clients, StealEnd(c) \/ WaitForDoneWoken(c) \/ ResetEnd(c)
      PROVE  WaitsCounted'
  BY <1>9, <1>k DEF StealEnd, WaitForDoneWoken, Looks, ResetEnd
<1>10. ASSUME NEW c \in Clients, Reset(c) PROVE WaitsCounted'
  <2>1. runnableReady' = WokenAll(runnableReady) /\ UNCHANGED thread
    BY <1>10 DEF Reset
  <2>2. WaitedFor(runnableReady', Idle)
    BY <2>1, WokenAllCounted DEF WaitsCounted
  <2>3. Idle' = Idle
    BY <2>1 DEF Idle
  <2> QED
    BY <2>2, <2>3 DEF WaitsCounted
<1>11. ASSUME NEW c \in Clients, NEW t \in Threads, Join(c, t) PROVE WaitsCounted'
  BY <1>11, <1>t, WaitsKept DEF Join, At
<1>12. ASSUME NEW c \in Clients, Call(c) PROVE WaitsCounted'
  <2>1. ASSUME NEW task \in Tasks, TryStart(c, task) PROVE WaitsCounted'
    BY <1>s, <2>1 DEF TryStart
  <2>2. ASSUME NEW task \in Tasks, NEW p \in Priorities, Queue(c, task, p) PROVE WaitsCounted'
    BY <1>e, <2>2 DEF Queue
  <2>3. ASSUME NEW n \in MaxThreadCounts, SetMaxThreadCount(c, n) PROVE WaitsCounted'
    BY <1>k, <2>3 DEF SetMaxThreadCount
  <2>4. ASSUME NEW n \in DOMAIN queue, StealRunnable(c, n) PROVE WaitsCounted'
    BY <1>k, <2>4 DEF StealRunnable
  <2>5. CASE ReserveThread(c) \/ ReleaseThread(c)
    BY <1>k, <2>5 DEF ReserveThread, ReleaseThread
  <2> QED
    BY <1>12, <2>1, <2>2, <2>3, <2>4, <2>5 DEF Call
<1>13. ASSUME NEW c \in Clients, WaitCall(c) PROVE WaitsCounted'
  BY <1>13, <1>k DEF WaitCall, WaitForDone, WaitForDoneExpired, Looks
<1>14. CASE UNCHANGED vars
  BY <1>14, <1>k DEF vars
<1>15. ASSUME NEW t \in Threads, WaitLeave(t) PROVE WaitsCounted'
  <2>1. Leaves(runnableReady, t) /\ runnableReady' = Left(runnableReady, t)
    BY <1>15 DEF WaitLeave
  <2>2. WaitedFor(Left(runnableReady, t), Idle \ {t})
    BY <2>1, LeftCounted DEF WaitsCounted
  <2>3. Idle' = Idle \ {t}
    BY <1>15, <1>t, Moved DEF WaitLeave, Idle, At
  <2> QED
    BY <2>1, <2>2, <2>3 DEF WaitsCounted
<1> QED
  BY <1>1, <1>2, <1>3, <1>4, <1>5, <1>6, <1>7, <1>8, <1>9, <1>10, <1>11, <1>12, <1>13, <1>14,
     <1>15, NextCases

-----------------------------------------------------------------------------
(* Threads that run a task are counted as active                           *)

\* A thread that is being started has been counted before it runs.
RunningCounted ==
  /\ activeThreads \in Int
  /\ activeThreads >= Cardinality(Running) + (IF SomeLaunch THEN 1 ELSE 0)

\* So activeThreads is never negative.
LEMMA ActiveNat ==
  ASSUME RunningCounted
  PROVE  activeThreads \in Nat
<1>1. Running \in SUBSET Threads
  BY DEF Running
<1>2. Cardinality(Running) \in Nat
  BY <1>1, ThreadSet
<1> QED
  BY <1>2 DEF RunningCounted

\* Nothing starts, or what does is counted.
LEMMA RunningKept ==
  ASSUME RunningCounted, activeThreads' = activeThreads,
         Running' \subseteq Running, SomeLaunch' => SomeLaunch
  PROVE  RunningCounted'
<1>1. Running \in SUBSET Threads
  BY DEF Running
<1>2. /\ Cardinality(Running') <= Cardinality(Running)
      /\ Cardinality(Running) \in Nat /\ Cardinality(Running') \in Nat
  BY <1>1, FewerThreads, ThreadSet
<1> QED
  BY <1>2 DEF RunningCounted

\* A client that does anything but start a thread
LEMMA NoLaunch ==
  ASSUME client \in [Clients -> ClientState], NEW c \in Clients, NEW s, Becomes(c, s),
         s.at # "launch"
  PROVE  SomeLaunch' => SomeLaunch
<1>1. client'[c] = s /\ \A d \in Clients : d # c => client'[d] = client[d]
  BY DEF Becomes
<1> QED
  BY <1>1 DEF SomeLaunch

\* A thread moves to a place where it does not run a task.
LEMMA NotRunning ==
  ASSUME thread \in [Threads -> ThreadState], NEW t \in Threads, NEW s,
         s.at \notin {"start", "task"}, thread' = [thread EXCEPT ![t] = s]
  PROVE  Running' = Running \ {t}
BY Moved DEF Running

\* A thread that stops running is no longer counted.
LEMMA OneStops ==
  ASSUME Shape, NEW active \in Int, NEW t \in Threads, NEW s, s.at \notin {"start", "task"},
         active >= Cardinality(Running \cup {t}) + (IF SomeLaunch THEN 1 ELSE 0),
         thread' = [thread EXCEPT ![t] = s], RegisterInactive(active), UNCHANGED mutex
  PROVE  RunningCounted'
<1>1. Running' = Running \ {t}
  BY NotRunning DEF Shape, PoolTypes
<1>2. Running \cup {t} \in SUBSET Threads /\ Running \cup {t} = Running' \cup {t} /\ t \notin Running'
      /\ Running' \in SUBSET Threads
  BY <1>1 DEF Running
<1>3. Cardinality(Running \cup {t}) = Cardinality(Running') + 1 /\ Cardinality(Running') \in Nat
  BY <1>2, OneMore, ThreadSet
<1>4. SomeLaunch' => SomeLaunch
  BY InactiveClients DEF Shape, PoolTypes, SomeLaunch
<1> QED
  BY <1>3, <1>4 DEF RunningCounted, RegisterInactive

\* A thread that looks for work, with itself counted among the active ones
LEMMA LookRunning ==
  ASSUME Shape, NEW t \in Threads, NEW active \in Int, NEW ready, UNCHANGED mutex,
         active >= Cardinality(Running \cup {t}) + (IF SomeLaunch THEN 1 ELSE 0),
         LookForWork(t, active, ready)
  PROVE  RunningCounted'
<1>1. CASE Takes(t, active, ready)
  <2>1. activeThreads' = active /\ UNCHANGED client
        /\ thread' = [thread EXCEPT ![t] = Runs(Head(queue).task)]
    BY <1>1 DEF Takes
  <2> DEFINE s == Runs(Head(queue).task)
  <2>2. /\ s.at \in {"start", "task"} /\ thread \in [Threads -> ThreadState]
        /\ thread' = [thread EXCEPT ![t] = s]
    BY <2>1 DEF Runs, Shape, PoolTypes
  <2> HIDE DEF s
  <2>3. thread'[t] = s /\ \A u \in Threads : u # t => thread'[u] = thread[u]
    BY <2>2, Moved
  <2>4. Running' = Running \cup {t}
    BY <2>2, <2>3 DEF Running
  <2> QED
    BY <2>1, <2>4 DEF RunningCounted, SomeLaunch
<1>2. CASE Exits(t, active, ready)
  BY <1>2, OneStops DEF Exits, Leaves_run, At
<1>3. CASE TooMany(t, active, ready)
  BY <1>3, OneStops DEF TooMany, Expires, Leaves_run, At
<1>4. CASE Idles(t, active, ready)
  BY <1>4, OneStops DEF Idles, At
<1> QED
  BY <1>1, <1>2, <1>3, <1>4, LookCases

\* Every step that makes a thread run counts it.
LEMMA RunningStep ==
  ASSUME Shape, RunningCounted, [Next]_vars
  PROVE  RunningCounted'
<1>t. /\ thread \in [Threads -> ThreadState] /\ client \in [Clients -> ClientState]
      /\ activeThreads \in Int /\ Running \in SUBSET Threads
      /\ IsFiniteSet(Running) /\ Cardinality(Running) \in Nat
  BY ThreadSet DEF Shape, PoolTypes, Running, RunningCounted
<1>k. ASSUME UNCHANGED <<thread, activeThreads>>, SomeLaunch' => SomeLaunch
      PROVE  RunningCounted'
  BY <1>k, RunningKept DEF Running
<1>u. UNCHANGED client => (SomeLaunch' => SomeLaunch)
  BY DEF SomeLaunch
<1>b. ASSUME NEW c \in Clients, NEW s, s.at # "launch", Becomes(c, s)
      PROVE  SomeLaunch' => SomeLaunch
  BY <1>b, <1>t, NoLaunch
<1>m. ASSUME NEW t \in Threads, NEW s, thread' = [thread EXCEPT ![t] = s],
             thread[t].at = "start" \/ s.at \notin {"start", "task"},
             UNCHANGED <<client, activeThreads>>
      PROVE  RunningCounted'
  <2>1. Running' \subseteq Running
    BY <1>m, <1>t, Moved DEF Running
  <2> QED
    BY <1>m, <1>u, <2>1, RunningKept
<1>s. ASSUME NEW c, NEW task, NEW more, TryStartTask(c, task, more)
      PROVE  RunningCounted'
  <2>1. ASSUME Running' \subseteq Running, activeThreads' = activeThreads + 1
        PROVE  RunningCounted'
    <3>1. Cardinality(Running') <= Cardinality(Running) /\ Cardinality(Running') \in Nat
      BY <1>t, <2>1, FewerThreads, ThreadSet
    <3> QED
      BY <1>t, <2>1, <3>1 DEF RunningCounted
  <2>2. CASE StartThread(c, task, more)
    <3>1. PICK t \in Threads : thread' = [thread EXCEPT ![t] = At("done")]
      BY <2>2 DEF StartThread
    <3>2. Running' \subseteq Running
      BY <1>t, <3>1, NotRunning DEF At
    <3> QED
      BY <2>1, <2>2, <3>2 DEF StartThread
  <2>3. CASE RestartThread(c, task, more)
    BY <2>1, <2>3 DEF RestartThread, Running
  <2>4. CASE RecycleThread(task, more)
    BY <1>k, <1>u, <2>4 DEF RecycleThread
  <2> QED
    BY <1>s, <2>2, <2>3, <2>4 DEF TryStartTask
<1>1. ASSUME NEW t \in Threads, RunBegin(t) PROVE RunningCounted'
  BY <1>1, <1>m DEF RunBegin, countVars
<1>2. ASSUME NEW t \in Threads, TaskEnd(t) PROVE RunningCounted'
  <2>1. Running \cup {t} = Running
    BY <1>2 DEF TaskEnd, Running
  <2> QED
    BY <1>2, <1>t, <2>1, LookRunning DEF TaskEnd, RunningCounted
<1>3. ASSUME NEW t \in Threads, WaitEnd(t) PROVE RunningCounted'
  <2>1. t \notin Running /\ UNCHANGED mutex
    BY <1>3 DEF WaitEnd, Running
  <2>2. Cardinality(Running \cup {t}) = Cardinality(Running) + 1
    BY <1>t, <2>1, OneMore
  <2>3. ActiveAgain \in Int
        /\ ActiveAgain >= Cardinality(Running \cup {t}) + (IF SomeLaunch THEN 1 ELSE 0)
    BY <1>t, <2>2 DEF ActiveAgain, RunningCounted
  <2>4. CASE Expires(t, ActiveAgain)
    BY <2>1, <2>3, <2>4, OneStops DEF Expires, Leaves_run, At
  <2> QED
    BY <1>3, <2>1, <2>3, <2>4, LookRunning DEF WaitEnd
<1>4. ASSUME NEW t \in Threads, FinishBegin(t) PROVE RunningCounted'
  BY <1>4, <1>m DEF FinishBegin, countVars, At
<1>5. ASSUME NEW t \in Threads, FinishEnd(t) PROVE RunningCounted'
  BY <1>5, <1>m DEF FinishEnd, countVars, At
<1>6. ASSUME NEW t \in Threads, WaitStep(t) PROVE RunningCounted'
  BY <1>6, <1>k, <1>u DEF WaitStep, countVars
<1>7. ASSUME NEW c \in Clients, QThreadStart(c) PROVE RunningCounted'
  <2> DEFINE t == client[c].thread
  <2>1. t \in Threads /\ SomeLaunch
    BY <1>7 DEF QThreadStart, Shape, PoolTypes, ClientsKnown, ClientState, SomeLaunch
  <2>2. UNCHANGED activeThreads /\ mutex = c
    BY <1>7 DEF QThreadStart, countVars, Shape, ClientsKnown
  <2>3. \E s : Becomes(c, s) /\ s.at # "launch"
    <3>1. User.at # "launch" /\ [User EXCEPT !.at = "push"].at # "launch"
      BY DEF User
    <3> QED
      BY <1>7, <3>1 DEF QThreadStart
  <2>4. ~SomeLaunch'
    <3>1. \A d \in Clients : d # c => client[d].at # "launch"
      BY <2>2 DEF Shape, ClientsKnown
    <3>2. client'[c].at # "launch" /\ \A d \in Clients : d # c => client'[d] = client[d]
      BY <1>t, <2>3 DEF Becomes
    <3> QED
      BY <3>1, <3>2 DEF SomeLaunch
  <2>5. Running' \subseteq Running \cup {t}
    <3>1. CASE UNCHANGED thread
      BY <3>1 DEF Running
    <3>2. ASSUME NEW state \in StartsRunning, thread' = [thread EXCEPT ![t] = state]
          PROVE  Running' \subseteq Running \cup {t}
      <4> HIDE DEF t
      <4> QED
        BY <1>t, <2>1, <3>2, Moved DEF Running
    <3> QED
      BY <1>7, <3>1, <3>2 DEF QThreadStart
  <2>6. Running' \in SUBSET Threads
    BY DEF Running
  <2> HIDE DEF t
  <2>7. Cardinality(Running') <= Cardinality(Running) + 1 /\ Cardinality(Running') \in Nat
    BY <1>t, <2>1, <2>5, <2>6, OneMoreAtMost, ThreadSet
  <2> QED
    BY <1>t, <2>1, <2>2, <2>4, <2>7 DEF RunningCounted
<1>8. ASSUME NEW c \in Clients, TryToStartMoreThreads(c) PROVE RunningCounted'
  <2>1. CASE Becomes(c, User) /\ UNCHANGED <<thread, activeThreads>>
    BY <1>b, <1>k, <2>1 DEF User
  <2> QED
    BY <1>8, <1>s, <2>1 DEF TryToStartMoreThreads
<1>9. ASSUME NEW c \in Clients, StealEnd(c) \/ Reset(c) PROVE RunningCounted'
  <2>1. UNCHANGED <<thread, activeThreads>>
    BY <1>9 DEF StealEnd, Reset, countVars
  <2>2. \E s : Becomes(c, s) /\ s.at # "launch"
    <3>1. /\ User.at # "launch"
          /\ [User EXCEPT !.at = "join", !.joining = allThreads].at # "launch"
      BY DEF User
    <3> QED
      BY <1>9, <3>1 DEF StealEnd, Reset
  <2> QED
    BY <1>b, <1>k, <2>1, <2>2
<1>10. ASSUME NEW c \in Clients, NEW a, a.at # "launch", Looks(c, a),
              a \in ClientState
       PROVE  RunningCounted'
  <2> DEFINE s == IF Done THEN [a EXCEPT !.at = "return"] ELSE a
  <2>1. Becomes(c, s) /\ UNCHANGED <<thread, activeThreads>>
    BY <1>10 DEF Looks, countVars
  <2>2. s.at # "launch"
    BY <1>10 DEF ClientState
  <2> HIDE DEF s
  <2> QED
    BY <1>b, <1>k, <2>1, <2>2
<1>11. ASSUME NEW c \in Clients, WaitForDoneWoken(c) \/ WaitCall(c) PROVE RunningCounted'
  <2>1. client[c] \in ClientState
    BY <1>t
  <2>2. /\ [User EXCEPT !.at = "asleep"] \in ClientState /\ User \in ClientState
        /\ [client[c] EXCEPT !.at = "asleep"] \in ClientState
        /\ [User EXCEPT !.at = "asleep"].at # "launch" /\ User.at # "launch"
        /\ [client[c] EXCEPT !.at = "asleep"].at # "launch"
    BY <2>1 DEF User, ClientState
  <2> QED
    BY <1>10, <1>11, <2>2 DEF WaitForDoneWoken, WaitCall, WaitForDone, WaitForDoneExpired
<1>12. ASSUME NEW c \in Clients, ResetEnd(c) PROVE RunningCounted'
  <2>1. UNCHANGED <<thread, activeThreads>>
    BY <1>12 DEF ResetEnd
  <2>2. \E s : Becomes(c, s) /\ s.at # "launch"
    <3>1. client[c] \in ClientState /\ client[c].at = "join"
      BY <1>12, <1>t DEF ResetEnd
    <3>2. User.at # "launch" /\ [client[c] EXCEPT !.joining = allThreads].at # "launch"
      BY <3>1 DEF User, ClientState
    <3> QED
      BY <1>12, <3>2 DEF ResetEnd
  <2> QED
    BY <1>b, <1>k, <2>1, <2>2
<1>13. ASSUME NEW c \in Clients, NEW t \in Threads, Join(c, t) PROVE RunningCounted'
  <2>1. client[c] \in ClientState /\ client[c].at = "join"
        /\ thread' = [thread EXCEPT ![t] = At("none")] /\ UNCHANGED activeThreads
        /\ Becomes(c, [client[c] EXCEPT !.joining = @ \ {t}])
    BY <1>13, <1>t DEF Join, countVars
  <2>2. [client[c] EXCEPT !.joining = @ \ {t}].at # "launch"
    BY <2>1 DEF ClientState
  <2>3. SomeLaunch' => SomeLaunch
    BY <1>b, <2>1, <2>2
  <2>4. Running' \subseteq Running
    BY <1>t, <2>1, NotRunning DEF At
  <2> QED
    BY <2>1, <2>3, <2>4, RunningKept
<1>14. ASSUME NEW c \in Clients, Call(c) PROVE RunningCounted'
  <2>1. ASSUME NEW task \in Tasks, TryStart(c, task) PROVE RunningCounted'
    BY <1>s, <2>1 DEF TryStart
  <2>2. ASSUME NEW task \in Tasks, NEW p \in Priorities, Queue(c, task, p)
        PROVE  RunningCounted'
    BY <1>k, <1>u, <2>2 DEF Queue, countVars
  <2>p. [User EXCEPT !.at = "push"].at # "launch"
    BY DEF User
  <2>3. ASSUME NEW n \in MaxThreadCounts, SetMaxThreadCount(c, n) PROVE RunningCounted'
    BY <1>b, <1>k, <2>3, <2>p DEF SetMaxThreadCount
  <2>4. ASSUME NEW n \in DOMAIN queue, StealRunnable(c, n) PROVE RunningCounted'
    <3> DEFINE s == [User EXCEPT !.at = "steal", !.task = queue[n].task,
                                 !.flag = LastUse(queue[n].task)]
    <3>1. s.at # "launch"
      BY DEF User
    <3>2. Becomes(c, s) /\ UNCHANGED <<thread, activeThreads>>
      BY <2>4 DEF StealRunnable, countVars
    <3> HIDE DEF s
    <3> QED
      BY <1>b, <1>k, <3>1, <3>2
  <2>5. CASE ReserveThread(c)
    BY <1>u, <1>k, <2>5 DEF ReserveThread
  <2>6. CASE ReleaseThread(c)
    BY <1>b, <1>k, <2>6, <2>p DEF ReleaseThread
  <2> QED
    BY <1>14, <2>1, <2>2, <2>3, <2>4, <2>5, <2>6 DEF Call
<1>15. CASE UNCHANGED vars
  BY <1>15, <1>k, <1>u DEF vars, countVars
<1>16. ASSUME NEW t \in Threads, WaitLeave(t) PROVE RunningCounted'
  BY <1>16, <1>m DEF WaitLeave, countVars, At
<1> QED
  BY <1>1, <1>2, <1>3, <1>4, <1>5, <1>6, <1>7, <1>8, <1>9, <1>11, <1>12, <1>13, <1>14, <1>15,
     <1>16, NextCases

-----------------------------------------------------------------------------
(* Uses of a task are counted by QRunnable::ref                            *)

Holds(q, task) == {i \in DOMAIN q : q[i].task = task}
Given(task) == {t \in Threads : runnable[t] = task}
Ran(task) == {t \in Threads : thread[t].task = task}
Uses(task) == Cardinality(Holds(queue, task)) + Cardinality(Given(task)) + Cardinality(Ran(task))

UsesCounted ==
  /\ ref \in [Tasks -> Nat]
  /\ \A task \in AutoDelete : ref[task] >= Uses(task)

\* The entries of a task are finitely many.
LEMMA HoldsFinite ==
  ASSUME NEW q \in Seq(Entry), NEW task
  PROVE  IsFiniteSet(Holds(q, task)) /\ Cardinality(Holds(q, task)) \in Nat
<1>1. Holds(q, task) \in SUBSET (1 .. Len(q)) /\ Len(q) \in Nat
  BY DEF Holds
<1>2. IsFiniteSet(1 .. Len(q))
  BY <1>1, FS_Interval
<1> QED
  BY <1>1, <1>2, FS_Subset, FS_CardinalityType

\* A set that maps one to one into another has no more members.
LEMMA NotMore ==
  ASSUME NEW S, NEW T, IsFiniteSet(T), NEW f \in [S -> T],
         \A i, j \in S : f[i] = f[j] => i = j
  PROVE  IsFiniteSet(S) /\ Cardinality(S) <= Cardinality(T)
<1>1. f \in Injection(S, T)
  BY DEF Injection, IsInjective
<1> QED
  BY <1>1, FS_Injection

\* Without its first entries a queue holds a task no more often.
LEMMA DropHolds ==
  ASSUME NEW q \in Seq(Entry), NEW n \in Nat, NEW task
  PROVE  Cardinality(Holds(SubSeq(q, n + 1, Len(q)), task)) <= Cardinality(Holds(q, task))
<1> DEFINE s == SubSeq(q, n + 1, Len(q))
           f == [i \in Holds(s, task) |-> i + n]
<1>1. /\ s \in Seq(Entry) /\ Len(s) \in Nat
      /\ \A i \in 1 .. Len(s) : s[i] = q[i + n] /\ i + n \in 1 .. Len(q)
  BY DropProperties
<1>d. DOMAIN q = 1 .. Len(q) /\ DOMAIN s = 1 .. Len(s)
  BY <1>1
<1> HIDE DEF s
<1>2. f \in [Holds(s, task) -> Holds(q, task)]
  <2>1. \A i \in Holds(s, task) : i + n \in Holds(q, task)
    BY <1>1, <1>d DEF Holds
  <2> QED
    BY <2>1
<1>3. \A i, j \in Holds(s, task) : f[i] = f[j] => i = j
  BY <1>1 DEF Holds
<1> HIDE DEF f
<1> QED
  BY <1>2, <1>3, HoldsFinite, NotMore DEF s

\* Without one entry it holds the task of that entry once less.
LEMMA WithoutHolds ==
  ASSUME NEW q \in Seq(Entry), NEW n \in DOMAIN q, NEW task
  PROVE  LET s == SubSeq(q, 1, n - 1) \o SubSeq(q, n + 1, Len(q)) IN
         Cardinality(Holds(s, task))
           <= Cardinality(Holds(q, task)) - (IF q[n].task = task THEN 1 ELSE 0)
<1> DEFINE s == SubSeq(q, 1, n - 1) \o SubSeq(q, n + 1, Len(q))
           f == [i \in Holds(s, task) |-> IF i < n THEN i ELSE i + 1]
<1>1. /\ s \in Seq(Entry) /\ Len(s) = Len(q) - 1
      /\ \A i \in 1 .. Len(s) : s[i] = IF i < n THEN q[i] ELSE q[i + 1]
  BY WithoutProperties
<1>2. Len(q) \in Nat /\ n \in 1 .. Len(q)
  OBVIOUS
<1> HIDE DEF s
<1>3. f \in [Holds(s, task) -> Holds(q, task) \ {n}]
  BY <1>1, <1>2 DEF Holds
<1>4. \A i, j \in Holds(s, task) : f[i] = f[j] => i = j
  BY <1>1, <1>2 DEF Holds
<1> HIDE DEF f
<1>5. IsFiniteSet(Holds(q, task)) /\ Cardinality(Holds(q, task)) \in Nat
  BY HoldsFinite
<1>6. IsFiniteSet(Holds(q, task) \ {n})
  BY <1>5, FS_RemoveElement
<1>7. Cardinality(Holds(s, task)) <= Cardinality(Holds(q, task) \ {n})
  BY <1>3, <1>4, <1>6, NotMore
<1>8. CASE q[n].task = task
  <2>1. n \in Holds(q, task)
    BY <1>8 DEF Holds
  <2> QED
    BY <1>5, <1>7, <1>8, <2>1, FS_RemoveElement DEF s
<1>9. CASE q[n].task # task
  <2>1. Holds(q, task) \ {n} = Holds(q, task)
    BY <1>9 DEF Holds
  <2>2. Cardinality(Holds(q, task) \ {n}) = Cardinality(Holds(q, task))
    BY <2>1
  <2>3. Cardinality(Holds(s, task)) \in Nat
    BY <1>1, HoldsFinite
  <2>4. Cardinality(Holds(s, task)) <= Cardinality(Holds(q, task)) - 0
    BY <1>5, <1>7, <2>2, <2>3
  <2> QED
    BY <1>9, <2>4 DEF s
<1> QED
  BY <1>8, <1>9

\* So does the queue without its first entry.
LEMMA TailHolds ==
  ASSUME NEW q \in Seq(Entry), q # <<>>, NEW task
  PROVE  Cardinality(Holds(Tail(q), task))
           <= Cardinality(Holds(q, task)) - (IF Head(q).task = task THEN 1 ELSE 0)
<1> DEFINE f == [i \in Holds(Tail(q), task) |-> i + 1]
<1>1. Len(q) \in Nat /\ Len(q) # 0
  BY EmptySeq
<1>2. /\ Tail(q) \in Seq(Entry) /\ Len(Tail(q)) = Len(q) - 1 /\ Head(q) = q[1]
      /\ \A i \in 1 .. Len(Tail(q)) : Tail(q)[i] = q[i + 1]
  BY HeadTailProperties
<1>3. f \in [Holds(Tail(q), task) -> Holds(q, task) \ {1}]
  BY <1>1, <1>2 DEF Holds
<1>4. \A i, j \in Holds(Tail(q), task) : f[i] = f[j] => i = j
  BY <1>2 DEF Holds
<1> HIDE DEF f
<1>5. IsFiniteSet(Holds(q, task)) /\ Cardinality(Holds(q, task)) \in Nat
  BY HoldsFinite
<1>6. IsFiniteSet(Holds(q, task) \ {1})
  BY <1>5, FS_RemoveElement
<1>7. Cardinality(Holds(Tail(q), task)) <= Cardinality(Holds(q, task) \ {1})
  BY <1>3, <1>4, <1>6, NotMore
<1>8. CASE q[1].task = task
  <2>1. 1 \in Holds(q, task)
    BY <1>1, <1>8 DEF Holds
  <2> QED
    BY <1>2, <1>5, <1>7, <1>8, <2>1, FS_RemoveElement
<1>9. CASE q[1].task # task
  <2>1. Holds(q, task) \ {1} = Holds(q, task)
    BY <1>9 DEF Holds
  <2>2. Cardinality(Holds(q, task) \ {1}) = Cardinality(Holds(q, task))
    BY <2>1
  <2>3. Cardinality(Holds(Tail(q), task)) \in Nat
    BY <1>2, HoldsFinite
  <2>4. Cardinality(Holds(Tail(q), task)) <= Cardinality(Holds(q, task)) - 0
    BY <1>5, <1>7, <2>2, <2>3
  <2> QED
    BY <1>2, <1>9, <2>4
<1> QED
  BY <1>8, <1>9

\* A task that is inserted is held once more.
LEMMA InsertedHolds ==
  ASSUME NEW q \in Seq(Entry), NEW k \in Tasks, NEW p \in Priorities, NEW task
  PROVE  Cardinality(Holds(Inserted(q, k, p), task))
           <= Cardinality(Holds(q, task)) + (IF k = task THEN 1 ELSE 0)
<1> DEFINE s == Inserted(q, k, p)
<1>1. s \in Seq(Entry) /\ Len(s) = Len(q) + 1 /\ Len(q) \in Nat
  BY InsertedProperties
<1>0. \E n \in 0 .. Len(q) : IsInsertion(q, s, n, EntryOf(k, p))
  BY InsertedProperties
<1>2. PICK n \in 0 .. Len(q) : \A i \in 1 .. Len(q) + 1 :
        s[i] = IF i <= n THEN q[i]
               ELSE IF i = n + 1 THEN [task |-> k, priority |-> p] ELSE q[i - 1]
  BY <1>0 DEF IsInsertion, EntryOf
<1> HIDE DEF s
<1> DEFINE H == Holds(s, task) \ {n + 1}
           f == [i \in H |-> IF i <= n THEN i ELSE i - 1]
<1>3. f \in [H -> Holds(q, task)]
  BY <1>1, <1>2 DEF Holds
<1>4. \A i, j \in H : f[i] = f[j] => i = j
  BY <1>1, <1>2 DEF Holds
<1> HIDE DEF f
<1>5. IsFiniteSet(H) /\ Cardinality(H) <= Cardinality(Holds(q, task))
  BY <1>3, <1>4, HoldsFinite, NotMore
<1>6. IsFiniteSet(Holds(s, task)) /\ Cardinality(Holds(s, task)) \in Nat
      /\ Cardinality(Holds(q, task)) \in Nat /\ Cardinality(H) \in Nat
  BY <1>1, <1>5, HoldsFinite, FS_CardinalityType
<1>7. CASE k = task
  <2>1. Cardinality(H) = IF n + 1 \in Holds(s, task) THEN Cardinality(Holds(s, task)) - 1
                                                     ELSE Cardinality(Holds(s, task))
    BY <1>6, FS_RemoveElement
  <2> QED
    BY <1>5, <1>6, <1>7, <2>1 DEF s
<1>8. CASE k # task
  <2>1. s[n + 1].task = k
    BY <1>2
  <2>2. H = Holds(s, task)
    BY <1>8, <2>1 DEF Holds
  <2>3. n + 1 \notin Holds(s, task) /\ Cardinality(Holds(s, task)) = Cardinality(H)
    BY <2>2
  <2> QED
    BY <1>5, <1>6, <1>8, <2>3 DEF s
<1> QED
  BY <1>7, <1>8

\* A set of threads, with one of them told apart
LEMMA Apart ==
  ASSUME NEW S \in SUBSET Threads, NEW t \in Threads
  PROVE  /\ Cardinality(S) = Cardinality(S \ {t}) + (IF t \in S THEN 1 ELSE 0)
         /\ Cardinality(S) \in Nat /\ Cardinality(S \ {t}) \in Nat
<1>1. Cardinality(S) \in Nat /\ Cardinality(S \ {t}) \in Nat
  BY ThreadSet
<1>2. CASE t \in S
  BY <1>1, <1>2, OneLess
<1>3. CASE t \notin S
  <2>1. S \ {t} = S
    BY <1>3
  <2> QED
    BY <1>1, <1>3, <2>1
<1> QED
  BY <1>2, <1>3

\* The summands of Uses are numbers.
LEMMA UsesNat ==
  ASSUME queue \in Seq(Entry), NEW k
  PROVE  /\ Cardinality(Holds(queue, k)) \in Nat /\ Cardinality(Given(k)) \in Nat
         /\ Cardinality(Ran(k)) \in Nat /\ Uses(k) \in Nat
         /\ Given(k) \in SUBSET Threads /\ Ran(k) \in SUBSET Threads
<1>1. Given(k) \in SUBSET Threads /\ Ran(k) \in SUBSET Threads
  BY DEF Given, Ran
<1>2. Cardinality(Holds(queue, k)) \in Nat /\ Cardinality(Given(k)) \in Nat
      /\ Cardinality(Ran(k)) \in Nat
  BY <1>1, HoldsFinite, ThreadSet
<1> QED
  BY <1>1, <1>2 DEF Uses

\* One more use of a task
LEMMA RefTakenCounts ==
  ASSUME ref \in [Tasks -> Nat], NEW task \in Tasks, ref' = RefTaken(task)
  PROVE  /\ ref' \in [Tasks -> Nat]
         /\ \A k \in AutoDelete : ref'[k] = ref[k] + (IF k = task THEN 1 ELSE 0)
<1>1. AutoDelete \subseteq Tasks
  BY PoolAssumption
<1> QED
  BY <1>1 DEF RefTaken

\* One use less of a task that is in use
LEMMA RefDroppedCounts ==
  ASSUME UsesCounted, NEW task \in Tasks, Uses(task) \in Nat \ {0}, ref' = RefDropped(task)
  PROVE  /\ ref' \in [Tasks -> Nat]
         /\ \A k \in AutoDelete : ref'[k] = ref[k] - (IF k = task THEN 1 ELSE 0)
<1>1. AutoDelete \subseteq Tasks /\ ref \in [Tasks -> Nat]
  BY PoolAssumption DEF UsesCounted
<1>2. task \in AutoDelete => ref[task] - 1 \in Nat
  BY <1>1 DEF UsesCounted
<1> QED
  BY <1>1, <1>2 DEF RefDropped

\* Uses that do not grow
LEMMA UsesKept ==
  ASSUME queue \in Seq(Entry), queue' \in Seq(Entry), NEW k,
         Cardinality(Holds(queue', k)) <= Cardinality(Holds(queue, k)),
         Given(k)' \subseteq Given(k), Ran(k)' \subseteq Ran(k)
  PROVE  Uses(k)' <= Uses(k)
<1>1. Cardinality(Given(k)') <= Cardinality(Given(k)) /\ Cardinality(Ran(k)') <= Cardinality(Ran(k))
      /\ Cardinality(Given(k)') \in Nat /\ Cardinality(Ran(k)') \in Nat
  <2>1. Given(k) \in SUBSET Threads /\ Ran(k) \in SUBSET Threads
    BY DEF Given, Ran
  <2> QED
    BY <2>1, FewerThreads, ThreadSet
<1>2. Cardinality(Holds(queue', k)) \in Nat
  BY HoldsFinite
<1> QED
  BY <1>1, <1>2, UsesNat DEF Uses

\* A thread that looks for work, of which the former task is not counted
LEMMA LookUses ==
  ASSUME Shape, NEW t \in Threads, NEW k \in Tasks, NEW n \in Int,
         n >= Cardinality(Holds(queue, k)) + Cardinality(Given(k)) + Cardinality(Ran(k) \ {t}),
         NEW active, NEW ready, LookForWork(t, active, ready), UNCHANGED runnable
  PROVE  n >= Uses(k)'
<1>t. thread \in [Threads -> ThreadState] /\ queue \in Seq(Entry) /\ k # NoTask
  BY PoolAssumption DEF Shape, PoolTypes
<1>g. Given(k)' = Given(k)
  BY DEF Given
<1>r. /\ Ran(k) \in SUBSET Threads /\ Ran(k)' \in SUBSET Threads
      /\ Cardinality(Ran(k) \ {t}) \in Nat
      /\ Cardinality(Ran(k)') = Cardinality(Ran(k)' \ {t}) + (IF t \in Ran(k)' THEN 1 ELSE 0)
  <2>1. Ran(k) \in SUBSET Threads /\ Ran(k)' \in SUBSET Threads
    BY DEF Ran
  <2> QED
    BY <2>1, Apart
<1>m. ASSUME NEW s, thread' = [thread EXCEPT ![t] = s]
      PROVE  Ran(k)' \ {t} = Ran(k) \ {t} /\ (t \in Ran(k)' <=> s.task = k)
  <2>1. thread'[t] = s /\ \A u \in Threads : u # t => thread'[u] = thread[u]
    BY <1>t, <1>m, Moved
  <2> QED
    BY <2>1 DEF Ran
<1>n. Cardinality(Holds(queue, k)) \in Nat /\ Cardinality(Given(k)) \in Nat
  BY <1>t, UsesNat
<1>1. CASE Takes(t, active, ready)
  <2>1. /\ queue # <<>> /\ queue' = Tail(queue)
        /\ thread' = [thread EXCEPT ![t] = Runs(Head(queue).task)]
    BY <1>1 DEF Takes
  <2>2. Cardinality(Holds(queue', k))
          <= Cardinality(Holds(queue, k)) - (IF Head(queue).task = k THEN 1 ELSE 0)
    BY <1>t, <2>1, TailHolds
  <2>3. queue' \in Seq(Entry)
    BY <1>t, <2>1, FirstTask
  <2>4. Cardinality(Holds(queue', k)) \in Nat
    BY <2>3, HoldsFinite
  <2>5. Runs(Head(queue).task).task = Head(queue).task
    BY DEF Runs
  <2>6. Ran(k)' \ {t} = Ran(k) \ {t} /\ (t \in Ran(k)' <=> Head(queue).task = k)
    BY <1>m, <2>1, <2>5
  <2>7. Cardinality(Ran(k)') = Cardinality(Ran(k) \ {t}) + (IF Head(queue).task = k THEN 1 ELSE 0)
    BY <1>r, <2>6
  <2> QED
    BY <1>g, <1>n, <1>r, <2>2, <2>4, <2>7 DEF Uses
<1>2. ASSUME NEW where, thread' = [thread EXCEPT ![t] = At(where)], UNCHANGED queue
      PROVE  n >= Uses(k)'
  <2>1. At(where).task # k
    BY <1>t DEF At
  <2>2. Ran(k)' \ {t} = Ran(k) \ {t} /\ t \notin Ran(k)'
    BY <1>2, <1>m, <2>1
  <2>3. Cardinality(Ran(k)') = Cardinality(Ran(k) \ {t})
    BY <1>r, <2>2
  <2> QED
    BY <1>2, <1>g, <1>n, <1>r, <2>3 DEF Uses
<1>3. CASE Exits(t, active, ready)
  BY <1>2, <1>3 DEF Exits, Leaves_run
<1>4. CASE TooMany(t, active, ready)
  BY <1>2, <1>4 DEF TooMany, Expires, Leaves_run
<1>5. CASE Idles(t, active, ready)
  BY <1>2, <1>5 DEF Idles
<1> QED
  BY <1>1, <1>3, <1>4, <1>5, LookCases

\* tryStart counts the use that it makes of a task.
LEMMA TryStartUses ==
  ASSUME Shape, Shape', UsesCounted, NEW c, NEW more \in BOOLEAN, NEW task \in Tasks,
         TryStartTask(c, task, more)
  PROVE  UsesCounted'
<1>t. thread \in [Threads -> ThreadState] /\ queue \in Seq(Entry) /\ queue' \in Seq(Entry)
      /\ AutoDelete \subseteq Tasks /\ NoTask \notin Tasks /\ ref \in [Tasks -> Nat]
      /\ runnable \in [Threads -> Tasks \cup {NoTask}]
      /\ Removed(more) \in Nat /\ 1 + Removed(more) = Removed(more) + 1 /\ 0 \in Priorities
  BY PoolAssumption DEF Shape, PoolTypes, UsesCounted, Removed
<1>1. ref' = RefTaken(task)
  BY DEF TryStartTask, StartThread, RestartThread, RecycleThread, EnqueueTask
<1>2. /\ ref' \in [Tasks -> Nat]
      /\ \A k \in AutoDelete : ref'[k] = ref[k] + (IF k = task THEN 1 ELSE 0)
  BY <1>1, <1>t, RefTakenCounts
<1> SUFFICES ASSUME NEW k \in AutoDelete PROVE ref'[k] >= Uses(k)'
  BY <1>2 DEF UsesCounted
<1>3. SUFFICES Uses(k)' <= Uses(k) + (IF k = task THEN 1 ELSE 0)
  <2>1. ref[k] \in Nat /\ Uses(k) \in Nat /\ ref[k] >= Uses(k)
    BY <1>t, UsesNat DEF UsesCounted
  <2>2. Uses(k)' \in Nat
    <3>1. Given(k)' \in SUBSET Threads /\ Ran(k)' \in SUBSET Threads
      BY DEF Given, Ran
    <3>2. Cardinality(Holds(queue', k)) \in Nat /\ Cardinality(Given(k)') \in Nat
          /\ Cardinality(Ran(k)') \in Nat
      BY <1>t, <3>1, HoldsFinite, ThreadSet
    <3> QED
      BY <3>2 DEF Uses
  <2> QED
    BY <1>2, <1>3, <2>1, <2>2
<1>n. /\ Cardinality(Holds(queue, k)) \in Nat /\ Cardinality(Given(k)) \in Nat
      /\ Cardinality(Ran(k)) \in Nat /\ Cardinality(Holds(queue', k)) \in Nat
  BY <1>t, UsesNat, HoldsFinite
<1>4. ASSUME NEW t \in Threads, runnable' = [runnable EXCEPT ![t] = task],
             Ran(k)' \subseteq Ran(k), queue' = SubSeq(queue, 1 + Removed(more), Len(queue))
      PROVE  Uses(k)' <= Uses(k) + (IF k = task THEN 1 ELSE 0)
  <2>1. Cardinality(Holds(queue', k)) <= Cardinality(Holds(queue, k))
    BY <1>4, <1>t, DropHolds
  <2>2. Given(k) \in SUBSET Threads /\ Given(k)' \in SUBSET Threads /\ Ran(k) \in SUBSET Threads
    BY DEF Given, Ran
  <2>3. Cardinality(Ran(k)') <= Cardinality(Ran(k)) /\ Cardinality(Ran(k)') \in Nat
    BY <1>4, <2>2, FewerThreads, ThreadSet
  <2>4. CASE k = task
    <3>1. Given(k)' \subseteq Given(k) \cup {t}
      BY <1>4, <1>t DEF Given
    <3>2. Cardinality(Given(k)') <= Cardinality(Given(k)) + 1 /\ Cardinality(Given(k)') \in Nat
      BY <2>2, <3>1, OneMoreAtMost, ThreadSet
    <3> QED
      BY <1>n, <2>1, <2>3, <2>4, <3>2 DEF Uses
  <2>5. CASE k # task
    <3>1. Given(k)' \subseteq Given(k)
      BY <1>4, <1>t, <2>5 DEF Given
    <3>2. Cardinality(Given(k)') <= Cardinality(Given(k)) /\ Cardinality(Given(k)') \in Nat
      BY <2>2, <3>1, FewerThreads, ThreadSet
    <3> QED
      BY <1>n, <2>1, <2>3, <2>5, <3>2 DEF Uses
  <2> QED
    BY <2>4, <2>5
<1>5. CASE StartThread(c, task, more)
  <2>1. PICK t \in Threads : /\ thread' = [thread EXCEPT ![t] = At("done")]
                             /\ runnable' = [runnable EXCEPT ![t] = task]
                             /\ queue' = SubSeq(queue, 1 + Removed(more), Len(queue))
    BY <1>5 DEF StartThread
  <2>2. Ran(k)' \subseteq Ran(k)
    BY <1>t, <2>1 DEF Ran, At
  <2> QED
    BY <1>4, <2>1, <2>2
<1>6. CASE RestartThread(c, task, more) /\ expiredThreads # <<>>
  <2> DEFINE t == Head(expiredThreads)
  <2>1. t \in Threads
    BY <1>6, HeadTailProperties DEF Shape, PoolTypes
  <2>2. Ran(k)' \subseteq Ran(k)
    BY <1>6 DEF RestartThread, Ran
  <2>3. runnable' = [runnable EXCEPT ![t] = task]
        /\ queue' = SubSeq(queue, 1 + Removed(more), Len(queue))
    BY <1>6 DEF RestartThread
  <2> HIDE DEF t
  <2> QED
    BY <1>4, <2>1, <2>2, <2>3
<1>7. CASE RecycleThread(task, more)
  <2> DEFINE q == Inserted(queue, task, 0)
  <2>1. q \in Seq(Entry) /\ queue' = SubSeq(q, Removed(more) + 1, Len(q))
        /\ UNCHANGED <<runnable, thread>>
    BY <1>7, <1>t, InsertedProperties DEF RecycleThread, EnqueueTask
  <2>2. Cardinality(Holds(q, k)) <= Cardinality(Holds(queue, k)) + (IF task = k THEN 1 ELSE 0)
        /\ Cardinality(Holds(q, k)) \in Nat
    BY <1>t, <2>1, InsertedHolds, HoldsFinite
  <2> HIDE DEF q
  <2>3. Cardinality(Holds(queue', k)) <= Cardinality(Holds(q, k))
    BY <1>t, <2>1, DropHolds
  <2>4. Given(k)' = Given(k) /\ Ran(k)' = Ran(k)
    BY <2>1 DEF Given, Ran
  <2> QED
    BY <1>n, <2>2, <2>3, <2>4 DEF Uses
<1> QED
  BY <1>5, <1>6, <1>7 DEF TryStartTask

\* Every step that uses a task anew counts it, and no other count is given up.
LEMMA UsesStep ==
  ASSUME Shape, Shape', UsesCounted, [Next]_vars
  PROVE  UsesCounted'
<1>t. /\ thread \in [Threads -> ThreadState] /\ queue \in Seq(Entry) /\ queue' \in Seq(Entry)
      /\ AutoDelete \subseteq Tasks /\ NoTask \notin Tasks /\ ref \in [Tasks -> Nat]
      /\ runnable \in [Threads -> Tasks \cup {NoTask}]
  BY PoolAssumption DEF Shape, PoolTypes, UsesCounted
<1>k. ASSUME UNCHANGED <<ref, queue>>,
             \A k \in AutoDelete : Given(k)' \subseteq Given(k) /\ Ran(k)' \subseteq Ran(k)
      PROVE  UsesCounted'
  <2> SUFFICES ASSUME NEW k \in AutoDelete PROVE ref'[k] >= Uses(k)'
    BY <1>k DEF UsesCounted
  <2>1. Uses(k)' <= Uses(k)
    <3>1. Cardinality(Holds(queue', k)) <= Cardinality(Holds(queue, k))
      BY <1>k, <1>t, HoldsFinite
    <3> QED
      BY <1>k, <1>t, <3>1, UsesKept
  <2>2. ref[k] >= Uses(k) /\ ref[k] \in Nat /\ Uses(k) \in Nat
    BY <1>t, UsesNat DEF UsesCounted
  <2>3. Uses(k)' \in Nat
    <3>1. Given(k)' \in SUBSET Threads /\ Ran(k)' \in SUBSET Threads
      BY DEF Given, Ran
    <3>2. Cardinality(Holds(queue', k)) \in Nat /\ Cardinality(Given(k)') \in Nat
          /\ Cardinality(Ran(k)') \in Nat
      BY <1>t, <3>1, HoldsFinite, ThreadSet
    <3> QED
      BY <3>2 DEF Uses
  <2> QED
    BY <1>k, <2>1, <2>2, <2>3
<1>u. ASSUME UNCHANGED <<ref, queue, runnable, thread>> PROVE UsesCounted'
  BY <1>k, <1>u DEF Given, Ran
<1>m. ASSUME NEW t \in Threads, NEW s, s.task = NoTask, thread' = [thread EXCEPT ![t] = s],
             UNCHANGED <<ref, queue, runnable>>
      PROVE  UsesCounted'
  <2>1. \A k \in AutoDelete : Given(k)' \subseteq Given(k) /\ Ran(k)' \subseteq Ran(k)
    BY <1>m, <1>t DEF Given, Ran
  <2> QED
    BY <1>k, <1>m, <2>1
<1>1. ASSUME NEW t \in Threads, RunBegin(t) PROVE UsesCounted'
  <2>1. /\ thread' = [thread EXCEPT ![t] = Runs(runnable[t])]
        /\ runnable' = [runnable EXCEPT ![t] = NoTask] /\ UNCHANGED <<ref, queue>>
    BY <1>1 DEF RunBegin, listVars, taskVars
  <2>2. Runs(runnable[t]).task = runnable[t]
    BY DEF Runs
  <2> SUFFICES ASSUME NEW k \in AutoDelete PROVE ref'[k] >= Uses(k)'
    BY <1>t, <2>1 DEF UsesCounted
  <2>3. ref[k] >= Uses(k) /\ ref[k] \in Nat
    BY <1>t DEF UsesCounted
  <2>4. /\ Given(k)' = Given(k) \ {t}
        /\ Ran(k)' \ {t} = Ran(k) \ {t} /\ (t \in Ran(k)' <=> t \in Given(k))
    BY <1>t, <2>1, <2>2 DEF Given, Ran
  <2>5. Given(k) \in SUBSET Threads /\ Ran(k) \in SUBSET Threads /\ Ran(k)' \in SUBSET Threads
    BY DEF Given, Ran
  <2>6. /\ Cardinality(Given(k)) = Cardinality(Given(k) \ {t}) + (IF t \in Given(k) THEN 1 ELSE 0)
        /\ Cardinality(Ran(k)) = Cardinality(Ran(k) \ {t}) + (IF t \in Ran(k) THEN 1 ELSE 0)
        /\ Cardinality(Ran(k)') = Cardinality(Ran(k)' \ {t}) + (IF t \in Ran(k)' THEN 1 ELSE 0)
        /\ Cardinality(Given(k) \ {t}) \in Nat /\ Cardinality(Ran(k) \ {t}) \in Nat
    BY <2>5, Apart
  <2>7. Cardinality(Ran(k)' \ {t}) = Cardinality(Ran(k) \ {t})
        /\ Cardinality(Given(k)') = Cardinality(Given(k) \ {t})
    BY <2>4
  <2>8. Cardinality(Holds(queue, k)) \in Nat
    BY <1>t, HoldsFinite
  <2>9. Cardinality(Given(k)') + Cardinality(Ran(k)') <= Cardinality(Given(k)) + Cardinality(Ran(k))
    BY <2>4, <2>6, <2>7
  <2>10. Cardinality(Given(k)') + Cardinality(Ran(k)') \in Nat
         /\ Cardinality(Given(k)) + Cardinality(Ran(k)) \in Nat
    BY <2>6, <2>7
  <2>11. Uses(k)' <= Uses(k) /\ Uses(k)' \in Nat /\ Uses(k) \in Nat
    BY <2>1, <2>6, <2>7, <2>8, <2>9, <2>10 DEF Uses
  <2> QED
    BY <2>1, <2>3, <2>11
<1>2. ASSUME NEW t \in Threads, TaskEnd(t) PROVE UsesCounted'
  <2> DEFINE task == thread[t].task
  <2>1. /\ task \in Tasks /\ ref' = RefDropped(task)
        /\ LookForWork(t, activeThreads, runnableReady) /\ UNCHANGED runnable
    BY <1>2 DEF TaskEnd, Shape, PoolTypes, ThreadsKnown, ThreadState
  <2>2. Ran(task) \in SUBSET Threads /\ t \in Ran(task)
    BY DEF Ran
  <2>3. Uses(task) \in Nat \ {0}
    <3>1. Cardinality(Ran(task)) = Cardinality(Ran(task) \ {t}) + 1
          /\ Cardinality(Ran(task) \ {t}) \in Nat
      BY <2>2, Apart
    <3>2. Cardinality(Holds(queue, task)) \in Nat /\ Cardinality(Given(task)) \in Nat
      BY <1>t, UsesNat
    <3> QED
      BY <3>1, <3>2 DEF Uses
  <2>4. t \in Ran(task) /\ \A k : t \in Ran(k) <=> k = task
    BY DEF Ran
  <2> HIDE DEF task
  <2>5. /\ ref' \in [Tasks -> Nat]
        /\ \A k \in AutoDelete : ref'[k] = ref[k] - (IF k = task THEN 1 ELSE 0)
    BY <2>1, <2>3, RefDroppedCounts
  <2> SUFFICES ASSUME NEW k \in AutoDelete PROVE ref'[k] >= Uses(k)'
    BY <2>5 DEF UsesCounted
  <2>6. ref[k] >= Uses(k) /\ ref[k] \in Nat /\ k \in Tasks
    BY <1>t DEF UsesCounted
  <2>7. Ran(k) \in SUBSET Threads
    BY DEF Ran
  <2>8. Cardinality(Ran(k)) = Cardinality(Ran(k) \ {t}) + (IF k = task THEN 1 ELSE 0)
        /\ Cardinality(Ran(k) \ {t}) \in Nat
    BY <2>4, <2>7, Apart
  <2>9. Cardinality(Holds(queue, k)) \in Nat /\ Cardinality(Given(k)) \in Nat
    BY <1>t, UsesNat
  <2>10. ref'[k] >= Cardinality(Holds(queue, k)) + Cardinality(Given(k)) + Cardinality(Ran(k) \ {t})
         /\ ref'[k] \in Int
    BY <2>5, <2>6, <2>8, <2>9 DEF Uses
  <2> DEFINE n == ref'[k]
  <2>11. n >= Cardinality(Holds(queue, k)) + Cardinality(Given(k)) + Cardinality(Ran(k) \ {t})
         /\ n \in Int
    BY <2>10
  <2> HIDE DEF n
  <2>12. n >= Uses(k)'
    BY <2>1, <2>6, <2>11, LookUses
  <2> QED
    BY <2>12 DEF n
<1>3. ASSUME NEW t \in Threads, WaitEnd(t) PROVE UsesCounted'
  <2>1. thread[t].task = NoTask /\ UNCHANGED <<ref, runnable>>
    BY <1>3 DEF WaitEnd, taskVars, Shape, ThreadsKnown
  <2> SUFFICES ASSUME NEW k \in AutoDelete PROVE ref'[k] >= Uses(k)'
    BY <1>t, <2>1 DEF UsesCounted
  <2>2. Ran(k) \ {t} = Ran(k)
    BY <1>t, <2>1 DEF Ran
  <2>3. Cardinality(Ran(k) \ {t}) = Cardinality(Ran(k))
    BY <2>2
  <2>4. /\ ref[k] >= Cardinality(Holds(queue, k)) + Cardinality(Given(k)) + Cardinality(Ran(k) \ {t})
        /\ ref[k] \in Int
    BY <1>t, <2>3 DEF UsesCounted, Uses
  <2>5. CASE \E active, ready : LookForWork(t, active, ready)
    <3>1. PICK active, ready : LookForWork(t, active, ready)
      BY <2>5
    <3> DEFINE n == ref[k]
    <3>2. n >= Cardinality(Holds(queue, k)) + Cardinality(Given(k)) + Cardinality(Ran(k) \ {t})
          /\ n \in Int
      BY <2>4
    <3> HIDE DEF n
    <3>3. n >= Uses(k)'
      BY <1>t, <2>1, <3>1, <3>2, LookUses
    <3> QED
      BY <2>1, <3>3 DEF n
  <2>6. CASE Expires(t, ActiveAgain) /\ UNCHANGED queue
    <3>1. thread' = [thread EXCEPT ![t] = At("left")] /\ At("left").task = NoTask
      BY <2>6 DEF Expires, Leaves_run, At
    <3> QED
      BY <1>m, <2>1, <2>6, <3>1 DEF UsesCounted
  <2> QED
    BY <1>3, <2>5, <2>6 DEF WaitEnd
<1>4. ASSUME NEW t \in Threads, FinishBegin(t) \/ WaitLeave(t) PROVE UsesCounted'
  BY <1>4, <1>m DEF FinishBegin, WaitLeave, At, listVars, taskVars
<1>5. ASSUME NEW t \in Threads, FinishEnd(t) PROVE UsesCounted'
  BY <1>5, <1>m DEF FinishEnd, At, listVars, taskVars
<1>6. ASSUME NEW t \in Threads, WaitStep(t) PROVE UsesCounted'
  BY <1>6, <1>u DEF WaitStep, listVars, taskVars
<1>7. ASSUME NEW c \in Clients, QThreadStart(c) PROVE UsesCounted'
  <2> DEFINE t == client[c].thread
  <2>1. t \in Threads /\ UNCHANGED <<ref, queue, runnable>>
    BY <1>7 DEF QThreadStart, Shape, PoolTypes, ClientsKnown, ClientState, listVars, taskVars
  <2>2. CASE UNCHANGED thread
    BY <1>u, <2>1, <2>2
  <2>3. ASSUME NEW state \in StartsRunning, thread' = [thread EXCEPT ![t] = state]
        PROVE  UsesCounted'
    <3>1. state.task = NoTask
      BY DEF StartsRunning, At
    <3> HIDE DEF t
    <3> QED
      BY <1>m, <2>1, <2>3, <3>1
  <2> QED
    BY <1>7, <2>2, <2>3 DEF QThreadStart
<1>8. ASSUME NEW c \in Clients, TryToStartMoreThreads(c) PROVE UsesCounted'
  <2>1. CASE UNCHANGED <<ref, queue, runnable, thread>>
    BY <1>u, <2>1
  <2>2. CASE queue # <<>> /\ TryStartTask(c, Head(queue).task, TRUE)
    <3>1. Head(queue).task \in Tasks
      BY <1>t, <2>2, FirstTask
    <3> QED
      BY <2>2, <3>1, TryStartUses
  <2> QED
    BY <1>8, <2>1, <2>2 DEF TryToStartMoreThreads, listVars
<1>9. ASSUME NEW c \in Clients,
             StealEnd(c) \/ WaitForDoneWoken(c) \/ ResetEnd(c) \/ Reset(c) \/ WaitCall(c)
      PROVE  UsesCounted'
  BY <1>9, <1>u DEF StealEnd, WaitForDoneWoken, WaitCall, WaitForDone, WaitForDoneExpired, Looks,
                    ResetEnd, Reset, listVars, taskVars
<1>10. ASSUME NEW c \in Clients, NEW t \in Threads, Join(c, t) PROVE UsesCounted'
  <2>1. /\ thread' = [thread EXCEPT ![t] = At("none")]
        /\ runnable' = [runnable EXCEPT ![t] = NoTask] /\ UNCHANGED <<ref, queue>>
    BY <1>10 DEF Join, listVars, taskVars
  <2>2. \A k \in AutoDelete : Given(k)' \subseteq Given(k) /\ Ran(k)' \subseteq Ran(k)
    BY <1>t, <2>1 DEF Given, Ran, At
  <2> QED
    BY <1>k, <2>1, <2>2
<1>11. ASSUME NEW c \in Clients, NEW task \in Tasks, NEW p \in Priorities, Queue(c, task, p)
       PROVE  UsesCounted'
  <2> DEFINE q == Inserted(queue, task, p)
  <2>1. /\ q \in Seq(Entry) /\ ref' = RefTaken(task) /\ queue' = SubSeq(q, 0 + 1, Len(q))
        /\ UNCHANGED <<runnable, thread>>
    BY <1>11, <1>t, InsertedProperties DEF Queue, EnqueueTask
  <2>2. /\ ref' \in [Tasks -> Nat]
        /\ \A k \in AutoDelete : ref'[k] = ref[k] + (IF k = task THEN 1 ELSE 0)
    BY <2>1, <1>t, RefTakenCounts
  <2> SUFFICES ASSUME NEW k \in AutoDelete PROVE ref'[k] >= Uses(k)'
    BY <2>2 DEF UsesCounted
  <2>3. Cardinality(Holds(q, k)) <= Cardinality(Holds(queue, k)) + (IF task = k THEN 1 ELSE 0)
        /\ Cardinality(Holds(q, k)) \in Nat
    BY <1>t, <2>1, InsertedHolds, HoldsFinite
  <2> HIDE DEF q
  <2>4. Cardinality(Holds(queue', k)) <= Cardinality(Holds(q, k))
    BY <2>1, DropHolds
  <2>5. Given(k)' = Given(k) /\ Ran(k)' = Ran(k)
    BY <2>1 DEF Given, Ran
  <2>6. /\ Cardinality(Holds(queue, k)) \in Nat /\ Cardinality(Given(k)) \in Nat
        /\ Cardinality(Ran(k)) \in Nat /\ Cardinality(Holds(queue', k)) \in Nat
    BY <1>t, UsesNat, HoldsFinite
  <2>7. ref[k] >= Uses(k) /\ ref[k] \in Nat
    BY <1>t DEF UsesCounted
  <2> QED
    BY <2>2, <2>3, <2>4, <2>5, <2>6, <2>7 DEF Uses
<1>12. ASSUME NEW c \in Clients, NEW n \in DOMAIN queue, StealRunnable(c, n)
       PROVE  UsesCounted'
  <2> DEFINE task == queue[n].task
  <2>1. /\ ref' = RefDropped(task) /\ UNCHANGED <<runnable, thread>>
        /\ queue' = SubSeq(queue, 1, n - 1) \o SubSeq(queue, n + 1, Len(queue))
    BY <1>12 DEF StealRunnable
  <2>2. queue[n] \in Entry
    BY <1>t
  <2>3. task \in Tasks
    BY <2>2 DEF Entry
  <2>4. \A k \in AutoDelete :
          /\ Cardinality(Holds(queue', k))
               <= Cardinality(Holds(queue, k)) - (IF k = task THEN 1 ELSE 0)
          /\ Cardinality(Holds(queue', k)) \in Nat
    BY <1>t, <2>1, WithoutHolds, HoldsFinite
  <2>5. Uses(task) \in Nat \ {0}
    <3>1. Cardinality(Holds(SubSeq(queue, 1, n - 1) \o SubSeq(queue, n + 1, Len(queue)), task))
            <= Cardinality(Holds(queue, task)) - 1
      BY <1>t, WithoutHolds
    <3>2. Cardinality(Holds(queue', task)) \in Nat
      BY <1>t, HoldsFinite
    <3>3. Cardinality(Holds(queue', task)) <= Cardinality(Holds(queue, task)) - 1
      BY <2>1, <3>1
    <3>4. Cardinality(Holds(queue, task)) \in Nat /\ Cardinality(Given(task)) \in Nat
          /\ Cardinality(Ran(task)) \in Nat
      BY <1>t, UsesNat
    <3>5. Cardinality(Holds(queue, task)) \in Nat \ {0}
      BY <3>2, <3>3, <3>4
    <3> HIDE DEF task
    <3> QED
      BY <3>4, <3>5 DEF Uses
  <2> HIDE DEF task
  <2>6. /\ ref' \in [Tasks -> Nat]
        /\ \A k \in AutoDelete : ref'[k] = ref[k] - (IF k = task THEN 1 ELSE 0)
    BY <2>1, <2>3, <2>5, RefDroppedCounts
  <2> SUFFICES ASSUME NEW k \in AutoDelete PROVE ref'[k] >= Uses(k)'
    BY <2>6 DEF UsesCounted
  <2>7. Given(k)' = Given(k) /\ Ran(k)' = Ran(k)
    BY <2>1 DEF Given, Ran
  <2>8. /\ Cardinality(Holds(queue, k)) \in Nat /\ Cardinality(Given(k)) \in Nat
        /\ Cardinality(Ran(k)) \in Nat
    BY <1>t, UsesNat
  <2>9. ref[k] >= Uses(k) /\ ref[k] \in Nat
    BY <1>t DEF UsesCounted
  <2> QED
    BY <2>4, <2>6, <2>7, <2>8, <2>9 DEF Uses
<1>13. ASSUME NEW c \in Clients, Call(c) PROVE UsesCounted'
  <2>1. ASSUME NEW task \in Tasks, TryStart(c, task) PROVE UsesCounted'
    BY <2>1, TryStartUses DEF TryStart
  <2>2. CASE ReserveThread(c) \/ ReleaseThread(c)
             \/ \E n \in MaxThreadCounts : SetMaxThreadCount(c, n)
    BY <1>u, <2>2 DEF ReserveThread, ReleaseThread, SetMaxThreadCount, listVars, taskVars
  <2> QED
    BY <1>11, <1>12, <1>13, <2>1, <2>2 DEF Call
<1>14. CASE UNCHANGED vars
  BY <1>14, <1>u DEF vars, listVars, taskVars
<1> QED
  BY <1>1, <1>2, <1>3, <1>4, <1>5, <1>6, <1>7, <1>8, <1>9, <1>10, <1>13, <1>14, NextCases

-----------------------------------------------------------------------------
(* No task is deleted while it is in use                                   *)

\* A task is in the queue or with a thread.
InPool(k) ==
  \/ \E i \in DOMAIN queue : queue[i].task = k
  \/ \E t \in Threads : runnable[t] = k \/ thread[t].task = k

\* A task may be given to the pool.
Fresh(k) == k \notin deleted /\ (k \in AutoDelete /\ InUse(k) => InPool(k))

\* A task with autoDelete that has been taken out of the queue is nowhere else.
StolenUnused ==
  \A c \in Clients :
    /\ client[c].at = "steal" /\ client[c].flag => client[c].task \in AutoDelete
    /\ client[c].task \in AutoDelete =>
         /\ ~InPool(client[c].task)
         /\ \A d \in Clients : d # c => client[d].task # client[c].task

\* A task is in use in the pool or by a client that has taken it.
LEMMA InUseCases ==
  ASSUME NEW k
  PROVE  InUse(k) <=> InPool(k) \/ \E c \in Clients : client[c].task = k
BY DEF InUse, InPool

\* What SubSeq leaves of a queue was in it.
LEMMA DropFrom ==
  ASSUME NEW q \in Seq(Entry), NEW n \in Nat, NEW i \in DOMAIN SubSeq(q, n + 1, Len(q))
  PROVE  \E j \in DOMAIN q : q[j] = SubSeq(q, n + 1, Len(q))[i]
<1> DEFINE s == SubSeq(q, n + 1, Len(q))
<1>1. /\ s \in Seq(Entry)
      /\ \A j \in 1 .. Len(s) : s[j] = q[j + n] /\ j + n \in 1 .. Len(q)
  BY DropProperties
<1>2. i \in DOMAIN s
  OBVIOUS
<1> HIDE DEF s
<1>d. DOMAIN s = 1 .. Len(s) /\ DOMAIN q = 1 .. Len(q)
  BY <1>1
<1>3. s[i] = q[i + n] /\ i + n \in DOMAIN q
  BY <1>1, <1>2, <1>d
<1> QED
  BY <1>3 DEF s

\* What is in a queue after a task has been inserted
LEMMA InsertedFrom ==
  ASSUME NEW q \in Seq(Entry), NEW k \in Tasks, NEW p \in Priorities,
         NEW i \in DOMAIN Inserted(q, k, p)
  PROVE  Inserted(q, k, p)[i].task = k
         \/ \E j \in DOMAIN q : q[j].task = Inserted(q, k, p)[i].task
<1> DEFINE s == Inserted(q, k, p)
<1>1. s \in Seq(Entry) /\ Len(s) = Len(q) + 1 /\ Len(q) \in Nat /\ DOMAIN q = 1 .. Len(q)
  BY InsertedProperties
<1>2. \E n \in 0 .. Len(q) : IsInsertion(q, s, n, EntryOf(k, p))
  BY InsertedProperties
<1>3. i \in DOMAIN s
  OBVIOUS
<1> HIDE DEF s
<1>4. PICK n \in 0 .. Len(q) : \A j \in 1 .. Len(q) + 1 :
        s[j] = IF j <= n THEN q[j] ELSE IF j = n + 1 THEN EntryOf(k, p) ELSE q[j - 1]
  BY <1>2 DEF IsInsertion
<1>5. i \in 1 .. Len(q) + 1
  BY <1>1, <1>3
<1>6. EntryOf(k, p).task = k
  BY DEF EntryOf
<1>7. CASE i <= n
  <2>1. i \in DOMAIN q /\ s[i] = q[i]
    BY <1>1, <1>4, <1>5, <1>7
  <2> QED
    BY <2>1 DEF s
<1>8. CASE i = n + 1
  BY <1>4, <1>5, <1>6, <1>8 DEF s
<1>9. CASE ~(i <= n) /\ i # n + 1
  <2>1. i - 1 \in DOMAIN q /\ s[i] = q[i - 1]
    BY <1>1, <1>4, <1>5, <1>9
  <2> QED
    BY <2>1 DEF s
<1> QED
  BY <1>7, <1>8, <1>9

\* tryStart uses the task that it is given.
LEMMA TryStartPool ==
  ASSUME Shape, NEW c, NEW more \in BOOLEAN, NEW task \in Tasks,
         TryStartTask(c, task, more), NEW k \in Tasks, InPool(k)'
  PROVE  InPool(k) \/ k = task
<1>t. thread \in [Threads -> ThreadState] /\ queue \in Seq(Entry) /\ NoTask \notin Tasks
      /\ runnable \in [Threads -> Tasks \cup {NoTask}]
      /\ Removed(more) \in Nat /\ 1 + Removed(more) = Removed(more) + 1 /\ 0 \in Priorities
  BY PoolAssumption DEF Shape, PoolTypes, Removed
<1>1. ASSUME NEW t \in Threads, runnable' = [runnable EXCEPT ![t] = task],
             queue' = SubSeq(queue, 1 + Removed(more), Len(queue)),
             \A u \in Threads : thread'[u].task \in {thread[u].task, NoTask}
      PROVE  InPool(k) \/ k = task
  <2>1. ASSUME NEW i \in DOMAIN queue', queue'[i].task = k PROVE InPool(k)
    BY <1>1, <1>t, <2>1, DropFrom DEF InPool
  <2>2. ASSUME NEW u \in Threads, runnable'[u] = k \/ thread'[u].task = k
        PROVE  InPool(k) \/ k = task
    BY <1>1, <1>t, <2>2 DEF InPool
  <2> QED
    BY <2>1, <2>2 DEF InPool
<1>2. CASE StartThread(c, task, more)
  <2>1. PICK t \in Threads : /\ thread' = [thread EXCEPT ![t] = At("done")]
                             /\ runnable' = [runnable EXCEPT ![t] = task]
                             /\ queue' = SubSeq(queue, 1 + Removed(more), Len(queue))
    BY <1>2 DEF StartThread
  <2>2. \A u \in Threads : thread'[u].task \in {thread[u].task, NoTask}
    BY <1>t, <2>1 DEF At
  <2> QED
    BY <1>1, <2>1, <2>2
<1>3. CASE RestartThread(c, task, more) /\ expiredThreads # <<>>
  <2> DEFINE t == Head(expiredThreads)
  <2>1. t \in Threads
    BY <1>3, HeadTailProperties DEF Shape, PoolTypes
  <2>2. /\ runnable' = [runnable EXCEPT ![t] = task] /\ UNCHANGED thread
        /\ queue' = SubSeq(queue, 1 + Removed(more), Len(queue))
    BY <1>3 DEF RestartThread
  <2> HIDE DEF t
  <2> QED
    BY <1>1, <2>1, <2>2
<1>4. CASE RecycleThread(task, more)
  <2> DEFINE q == Inserted(queue, task, 0)
  <2>1. q \in Seq(Entry) /\ queue' = SubSeq(q, Removed(more) + 1, Len(q))
        /\ UNCHANGED <<runnable, thread>>
    BY <1>4, <1>t, InsertedProperties DEF RecycleThread, EnqueueTask
  <2>2. ASSUME NEW i \in DOMAIN queue', queue'[i].task = k PROVE InPool(k) \/ k = task
    <3>1. \A j \in DOMAIN q : q[j].task = task \/ \E l \in DOMAIN queue : queue[l].task = q[j].task
      BY <1>t, InsertedFrom
    <3> HIDE DEF q
    <3>2. \E j \in DOMAIN q : q[j] = queue'[i]
      BY <1>t, <2>1, <2>2, DropFrom
    <3> QED
      BY <2>2, <3>1, <3>2 DEF InPool
  <2> HIDE DEF q
  <2> QED
    BY <2>1, <2>2 DEF InPool
<1> QED
  BY <1>2, <1>3, <1>4 DEF TryStartTask

\* A thread that looks for work moves a task from the queue.
LEMMA LookPool ==
  ASSUME Shape, NEW t \in Threads, NEW active, NEW ready, LookForWork(t, active, ready),
         UNCHANGED runnable
  PROVE  /\ \A i \in DOMAIN queue' : \E j \in DOMAIN queue : queue[j] = queue'[i]
         /\ \A u \in Threads : u # t => thread'[u] = thread[u]
         /\ thread'[t].task = NoTask \/ \E j \in DOMAIN queue : queue[j].task = thread'[t].task
<1>t. thread \in [Threads -> ThreadState] /\ queue \in Seq(Entry)
  BY DEF Shape, PoolTypes
<1>1. CASE Takes(t, active, ready)
  <2>1. queue # <<>> /\ queue' = Tail(queue)
        /\ thread' = [thread EXCEPT ![t] = Runs(Head(queue).task)]
    BY <1>1 DEF Takes
  <2>2. /\ Head(queue) = queue[1] /\ 1 \in DOMAIN queue /\ Len(queue) \in Nat
        /\ Tail(queue) \in Seq(Entry) /\ Len(Tail(queue)) = Len(queue) - 1
        /\ \A i \in 1 .. Len(queue) - 1 : Tail(queue)[i] = queue[i + 1]
    BY <1>t, <2>1, FirstTask
  <2>3. \A i \in DOMAIN queue' : \E j \in DOMAIN queue : queue[j] = queue'[i]
    <3> TAKE i \in DOMAIN queue'
    <3>1. i \in 1 .. Len(queue) - 1
      BY <2>1, <2>2
    <3>2. i + 1 \in DOMAIN queue /\ queue[i + 1] = queue'[i]
      BY <1>t, <2>1, <2>2, <3>1
    <3> QED
      BY <3>2
  <2>4. thread'[t].task = Head(queue).task /\ \A u \in Threads : u # t => thread'[u] = thread[u]
    BY <1>t, <2>1 DEF Runs
  <2> QED
    BY <2>2, <2>3, <2>4
<1>2. ASSUME NEW where, thread' = [thread EXCEPT ![t] = At(where)], UNCHANGED queue
      PROVE  /\ \A i \in DOMAIN queue' : \E j \in DOMAIN queue : queue[j] = queue'[i]
             /\ \A u \in Threads : u # t => thread'[u] = thread[u]
             /\ thread'[t].task = NoTask
  BY <1>2, <1>t DEF At
<1>3. CASE Exits(t, active, ready)
  BY <1>2, <1>3 DEF Exits, Leaves_run
<1>4. CASE TooMany(t, active, ready)
  BY <1>2, <1>4 DEF TooMany, Expires, Leaves_run
<1>5. CASE Idles(t, active, ready)
  BY <1>2, <1>5 DEF Idles
<1> QED
  BY <1>1, <1>3, <1>4, <1>5, LookCases

\* A step uses in the pool only what was in use there, or what may be.
LEMMA PoolStep ==
  ASSUME Shape, [Next]_vars, NEW k \in Tasks, InPool(k)'
  PROVE  InPool(k) \/ Fresh(k)
<1>t. /\ thread \in [Threads -> ThreadState] /\ queue \in Seq(Entry) /\ NoTask \notin Tasks
      /\ runnable \in [Threads -> Tasks \cup {NoTask}]
  BY PoolAssumption DEF Shape, PoolTypes
<1>k. ASSUME UNCHANGED queue,
             \A t \in Threads : /\ runnable'[t] \in {runnable[t], NoTask}
                                /\ thread'[t].task \in {thread[t].task, NoTask}
      PROVE  InPool(k)
  BY <1>k, <1>t DEF InPool
<1>u. ASSUME UNCHANGED <<queue, runnable, thread>> PROVE InPool(k)
  BY <1>k, <1>u
<1>m. ASSUME NEW t \in Threads, NEW s, s.task = NoTask, thread' = [thread EXCEPT ![t] = s],
             UNCHANGED <<queue, runnable>>
      PROVE  InPool(k)
  BY <1>k, <1>m, <1>t
<1>l. ASSUME NEW t \in Threads, NEW active, NEW ready, LookForWork(t, active, ready),
             UNCHANGED runnable
      PROVE  InPool(k)
  <2>1. /\ \A i \in DOMAIN queue' : \E j \in DOMAIN queue : queue[j] = queue'[i]
        /\ \A u \in Threads : u # t => thread'[u] = thread[u]
        /\ thread'[t].task = NoTask \/ \E j \in DOMAIN queue : queue[j].task = thread'[t].task
    BY <1>l, LookPool
  <2> QED
    BY <1>l, <1>t, <2>1 DEF InPool
<1>1. ASSUME NEW t \in Threads, RunBegin(t) PROVE InPool(k)
  <2>1. /\ thread' = [thread EXCEPT ![t] = Runs(runnable[t])]
        /\ runnable' = [runnable EXCEPT ![t] = NoTask] /\ UNCHANGED queue
    BY <1>1 DEF RunBegin, listVars
  <2> QED
    BY <1>t, <2>1 DEF InPool, Runs
<1>2. ASSUME NEW t \in Threads, TaskEnd(t) PROVE InPool(k)
  BY <1>2, <1>l DEF TaskEnd
<1>3. ASSUME NEW t \in Threads, WaitEnd(t) PROVE InPool(k)
  <2>1. CASE Expires(t, ActiveAgain) /\ UNCHANGED queue
    <3>1. thread' = [thread EXCEPT ![t] = At("left")] /\ At("left").task = NoTask
          /\ UNCHANGED runnable
      BY <1>3, <2>1 DEF WaitEnd, Expires, Leaves_run, At
    <3> QED
      BY <1>m, <2>1, <3>1
  <2> QED
    BY <1>3, <1>l, <2>1 DEF WaitEnd
<1>4. ASSUME NEW t \in Threads, FinishBegin(t) \/ WaitLeave(t) PROVE InPool(k)
  BY <1>4, <1>m DEF FinishBegin, WaitLeave, At, listVars
<1>5. ASSUME NEW t \in Threads, FinishEnd(t) PROVE InPool(k)
  BY <1>5, <1>m DEF FinishEnd, At, listVars
<1>6. ASSUME NEW t \in Threads, WaitStep(t) PROVE InPool(k)
  BY <1>6, <1>u DEF WaitStep, listVars
<1>7. ASSUME NEW c \in Clients, QThreadStart(c) PROVE InPool(k)
  <2> DEFINE t == client[c].thread
  <2>1. t \in Threads /\ UNCHANGED <<queue, runnable>>
    BY <1>7 DEF QThreadStart, Shape, PoolTypes, ClientsKnown, ClientState, listVars
  <2>2. CASE UNCHANGED thread
    BY <1>u, <2>1, <2>2
  <2>3. ASSUME NEW state \in StartsRunning, thread' = [thread EXCEPT ![t] = state]
        PROVE  InPool(k)
    <3>1. state.task = NoTask
      BY DEF StartsRunning, At
    <3> HIDE DEF t
    <3> QED
      BY <1>m, <2>1, <2>3, <3>1
  <2> QED
    BY <1>7, <2>2, <2>3 DEF QThreadStart
<1>8. ASSUME NEW c \in Clients, TryToStartMoreThreads(c) PROVE InPool(k)
  <2>1. CASE UNCHANGED <<queue, runnable, thread>>
    BY <1>u, <2>1
  <2>2. CASE queue # <<>> /\ TryStartTask(c, Head(queue).task, TRUE)
    <3>1. Head(queue).task \in Tasks /\ Head(queue) = queue[1] /\ 1 \in DOMAIN queue
      BY <1>t, <2>2, FirstTask
    <3>2. InPool(k) \/ k = Head(queue).task
      BY <2>2, <3>1, TryStartPool
    <3> QED
      BY <3>1, <3>2 DEF InPool
  <2> QED
    BY <1>8, <2>1, <2>2 DEF TryToStartMoreThreads, listVars
<1>9. ASSUME NEW c \in Clients,
             StealEnd(c) \/ WaitForDoneWoken(c) \/ ResetEnd(c) \/ Reset(c) \/ WaitCall(c)
      PROVE  InPool(k)
  BY <1>9, <1>u DEF StealEnd, WaitForDoneWoken, WaitCall, WaitForDone, WaitForDoneExpired, Looks,
                    ResetEnd, Reset, listVars
<1>10. ASSUME NEW c \in Clients, NEW t \in Threads, Join(c, t) PROVE InPool(k)
  BY <1>10, <1>k, <1>t DEF Join, At, listVars
<1>11. ASSUME NEW c \in Clients, NEW task \in Tasks, NEW p \in Priorities, Queue(c, task, p)
       PROVE  InPool(k) \/ Fresh(k)
  <2> DEFINE q == Inserted(queue, task, p)
  <2>1. /\ q \in Seq(Entry) /\ queue' = SubSeq(q, 0 + 1, Len(q)) /\ UNCHANGED <<runnable, thread>>
        /\ task \notin deleted /\ ~Started(task)
    BY <1>11, <1>t, InsertedProperties DEF Queue, EnqueueTask, MayStart
  <2>2. \A j \in DOMAIN q : q[j].task = task \/ \E l \in DOMAIN queue : queue[l].task = q[j].task
    BY <1>t, InsertedFrom
  <2> HIDE DEF q
  <2>3. \A i \in DOMAIN queue' : \E j \in DOMAIN q : q[j] = queue'[i]
    BY <2>1, DropFrom
  <2>4. InPool(k) \/ k = task
    BY <2>1, <2>2, <2>3 DEF InPool
  <2> QED
    BY <2>1, <2>4 DEF Fresh, Started
<1>12. ASSUME NEW c \in Clients, NEW n \in DOMAIN queue, StealRunnable(c, n)
       PROVE  InPool(k)
  <2>1. /\ UNCHANGED <<runnable, thread>>
        /\ queue' = SubSeq(queue, 1, n - 1) \o SubSeq(queue, n + 1, Len(queue))
    BY <1>12 DEF StealRunnable
  <2>2. /\ queue' \in Seq(Entry) /\ Len(queue') = Len(queue) - 1
        /\ \A i \in 1 .. Len(queue') : queue'[i] = IF i < n THEN queue[i] ELSE queue[i + 1]
    BY <1>t, <2>1, WithoutProperties
  <2>3. DOMAIN queue' = 1 .. Len(queue') /\ DOMAIN queue = 1 .. Len(queue) /\ Len(queue) \in Nat
        /\ n \in 1 .. Len(queue)
    BY <1>t, <2>2
  <2>4. \A i \in DOMAIN queue' : \E j \in DOMAIN queue : queue[j] = queue'[i]
    BY <2>2, <2>3
  <2> QED
    BY <2>1, <2>4 DEF InPool
<1>13. ASSUME NEW c \in Clients, Call(c) PROVE InPool(k) \/ Fresh(k)
  <2>1. ASSUME NEW task \in Tasks, TryStart(c, task) PROVE InPool(k) \/ Fresh(k)
    <3>1. InPool(k) \/ k = task
      BY <2>1, TryStartPool DEF TryStart
    <3>2. task \notin deleted /\ (Started(task) => IsRun(task))
      BY <2>1 DEF TryStart, MayStart
    <3> QED
      BY <3>1, <3>2 DEF Fresh, Started, IsRun, InPool
  <2>2. CASE ReserveThread(c) \/ ReleaseThread(c)
             \/ \E n \in MaxThreadCounts : SetMaxThreadCount(c, n)
    BY <1>u, <2>2 DEF ReserveThread, ReleaseThread, SetMaxThreadCount, listVars
  <2> QED
    BY <1>11, <1>12, <1>13, <2>1, <2>2 DEF Call
<1>14. CASE UNCHANGED vars
  BY <1>14, <1>u DEF vars, listVars
<1> QED
  BY <1>1, <1>2, <1>3, <1>4, <1>5, <1>6, <1>7, <1>8, <1>9, <1>10, <1>13, <1>14, NextCases

\* What a client has taken it keeps, or is done with it.
TasksKept ==
  \A c \in Clients : /\ client'[c].task \in {client[c].task, NoTask}
                     /\ client'[c].at = "steal" => client'[c] = client[c]

\* Only stealRunnable gives a client a task.
LEMMA TasksStep ==
  ASSUME Shape, [Next]_vars
  PROVE  TasksKept \/ \E c \in Clients, n \in DOMAIN queue : StealRunnable(c, n)
<1>t. client \in [Clients -> ClientState] /\ ClientsKnown
  BY DEF Shape, PoolTypes
<1>u. UNCHANGED client => TasksKept
  BY DEF TasksKept
<1>b. ASSUME NEW c \in Clients, NEW s, Becomes(c, s), s.task = NoTask, s.at # "steal"
      PROVE  TasksKept
  BY <1>b, <1>t DEF TasksKept, Becomes
<1>i. ASSUME NEW n, RegisterInactive(n), UNCHANGED mutex PROVE TasksKept
  BY <1>i, <1>t, InactiveClients DEF TasksKept
<1>l. ASSUME NEW t \in Threads, NEW active, NEW ready, LookForWork(t, active, ready), UNCHANGED mutex
      PROVE  TasksKept
  BY <1>l, <1>u, <1>i, LookCases DEF Takes, Exits, TooMany, Idles, Expires, Leaves_run
<1>s. ASSUME NEW c \in Clients, NEW task, NEW more, TryStartTask(c, task, more)
      PROVE  TasksKept
  <2>1. ASSUME NEW t, Launches(c, t, more) PROVE TasksKept
    <3> DEFINE s == [User EXCEPT !.at = "launch", !.thread = t, !.flag = more]
    <3>1. Becomes(c, s) /\ s.task = NoTask /\ s.at # "steal"
      BY <2>1 DEF Launches, User
    <3> HIDE DEF s
    <3> QED
      BY <1>b, <3>1
  <2> QED
    BY <1>s, <1>u, <2>1 DEF TryStartTask, StartThread, RestartThread, RecycleThread
<1>w. ASSUME NEW c \in Clients, NEW a \in ClientState, a.task = NoTask, a.at # "steal", Looks(c, a)
      PROVE  TasksKept
  <2> DEFINE s == IF Done THEN [a EXCEPT !.at = "return"] ELSE a
  <2>1. Becomes(c, s) /\ s.task = NoTask /\ s.at # "steal"
    BY <1>w DEF Looks, ClientState
  <2> HIDE DEF s
  <2> QED
    BY <1>b, <2>1
<1>1. ASSUME NEW t \in Threads, RunBegin(t) \/ WaitLeave(t) \/ FinishBegin(t) \/ FinishEnd(t) \/ WaitStep(t)
      PROVE  TasksKept
  BY <1>1, <1>u DEF RunBegin, WaitLeave, FinishBegin, FinishEnd, WaitStep
<1>2. ASSUME NEW t \in Threads, TaskEnd(t) PROVE TasksKept
  BY <1>2, <1>l DEF TaskEnd
<1>3. ASSUME NEW t \in Threads, WaitEnd(t) PROVE TasksKept
  BY <1>3, <1>i, <1>l DEF WaitEnd, Expires, Leaves_run
<1>p. /\ User.task = NoTask /\ User.at # "steal" /\ User \in ClientState
      /\ [User EXCEPT !.at = "push"].task = NoTask /\ [User EXCEPT !.at = "push"].at # "steal"
      /\ [User EXCEPT !.at = "asleep"].task = NoTask /\ [User EXCEPT !.at = "asleep"].at # "steal"
      /\ [User EXCEPT !.at = "asleep"] \in ClientState
  BY DEF User, ClientState
<1>4. ASSUME NEW c \in Clients, QThreadStart(c) \/ StealEnd(c) PROVE TasksKept
  BY <1>4, <1>b, <1>p DEF QThreadStart, StealEnd
<1>5. ASSUME NEW c \in Clients, TryToStartMoreThreads(c) PROVE TasksKept
  BY <1>5, <1>b, <1>p, <1>s DEF TryToStartMoreThreads
<1>6. ASSUME NEW c \in Clients, WaitForDoneWoken(c) PROVE TasksKept
  <2> DEFINE a == [client[c] EXCEPT !.at = "asleep"]
  <2>1. client[c] \in ClientState /\ client[c].task = NoTask
    BY <1>6, <1>t DEF WaitForDoneWoken, ClientsKnown
  <2>2. a \in ClientState /\ a.task = NoTask /\ a.at # "steal"
    BY <2>1 DEF ClientState
  <2>3. Looks(c, a)
    BY <1>6 DEF WaitForDoneWoken
  <2> HIDE DEF a
  <2> QED
    BY <1>w, <2>2, <2>3
<1>7. ASSUME NEW c \in Clients, WaitCall(c) PROVE TasksKept
  BY <1>7, <1>p, <1>w DEF WaitCall, WaitForDone, WaitForDoneExpired
<1>8. ASSUME NEW c \in Clients, Reset(c) PROVE TasksKept
  <2> DEFINE s == [User EXCEPT !.at = "join", !.joining = allThreads]
  <2>1. Becomes(c, s) /\ s.task = NoTask /\ s.at # "steal"
    BY <1>8 DEF Reset, User
  <2> HIDE DEF s
  <2> QED
    BY <1>b, <2>1
<1>j. ASSUME NEW c \in Clients, client[c].at = "join", NEW S \in SUBSET Threads,
             Becomes(c, [client[c] EXCEPT !.joining = S])
      PROVE  TasksKept
  <2> DEFINE s == [client[c] EXCEPT !.joining = S]
  <2>1. client[c] \in ClientState /\ client[c].task = NoTask
    BY <1>j, <1>t DEF ClientsKnown
  <2>2. Becomes(c, s) /\ s.task = NoTask /\ s.at # "steal"
    BY <1>j, <2>1 DEF ClientState
  <2> HIDE DEF s
  <2> QED
    BY <1>b, <2>2
<1>9. ASSUME NEW c \in Clients, ResetEnd(c) PROVE TasksKept
  BY <1>9, <1>b, <1>j, <1>p DEF ResetEnd, Shape, PoolTypes
<1>10. ASSUME NEW c \in Clients, NEW t \in Threads, Join(c, t) PROVE TasksKept
  <2>1. client[c].joining \ {t} \in SUBSET Threads
    BY <1>t DEF ClientState
  <2> QED
    BY <1>10, <1>j, <2>1 DEF Join
<1>11. ASSUME NEW c \in Clients, Call(c)
       PROVE  TasksKept \/ \E n \in DOMAIN queue : StealRunnable(c, n)
  <2>1. ASSUME NEW task \in Tasks, TryStart(c, task) PROVE TasksKept
    BY <1>s, <2>1 DEF TryStart
  <2>2. ASSUME NEW task \in Tasks, NEW p \in Priorities, Queue(c, task, p) PROVE TasksKept
    BY <1>u, <2>2 DEF Queue
  <2>3. CASE ReleaseThread(c) \/ \E n \in MaxThreadCounts : SetMaxThreadCount(c, n)
    BY <1>b, <1>p, <2>3 DEF ReleaseThread, SetMaxThreadCount
  <2>4. CASE ReserveThread(c)
    BY <1>u, <2>4 DEF ReserveThread
  <2> QED
    BY <1>11, <2>1, <2>2, <2>3, <2>4 DEF Call
<1>12. CASE UNCHANGED vars
  BY <1>12, <1>u DEF vars
<1> QED
  BY <1>1, <1>2, <1>3, <1>4, <1>5, <1>6, <1>7, <1>8, <1>9, <1>10, <1>11, <1>12, NextCases

\* A task that has been taken stays out of the pool, and only one client has it.
LEMMA StolenStep ==
  ASSUME Shape, StolenUnused, [Next]_vars
  PROVE  StolenUnused'
<1>t. /\ client \in [Clients -> ClientState] /\ ClientsKnown /\ AutoDelete \subseteq Tasks
      /\ NoTask \notin Tasks /\ queue \in Seq(Entry)
  BY PoolAssumption DEF Shape, PoolTypes
<1>1. CASE TasksKept
  <2>1. \A c \in Clients : client'[c].at = "steal" /\ client'[c].flag
                             => client'[c].task \in AutoDelete
    BY <1>1 DEF TasksKept, StolenUnused
  <2>2. ASSUME NEW c \in Clients, NEW k \in AutoDelete, client'[c].task = k
        PROVE  ~InPool(k)' /\ \A d \in Clients : d # c => client'[d].task # k
    <3>1. client[c].task = k
      BY <1>1, <1>t, <2>2 DEF TasksKept
    <3>2. ~InPool(k) /\ \A d \in Clients : d # c => client[d].task # k
      BY <3>1 DEF StolenUnused
    <3>3. InUse(k)
      BY <3>1, InUseCases
    <3>4. ~InPool(k)'
      BY <1>t, <3>2, <3>3, PoolStep DEF Fresh
    <3>5. \A d \in Clients : d # c => client'[d].task # k
      BY <1>1, <1>t, <3>1, <3>2 DEF TasksKept
    <3> QED
      BY <3>4, <3>5
  <2> QED
    BY <2>1, <2>2 DEF StolenUnused, InPool
<1>2. ASSUME NEW c \in Clients, NEW n \in DOMAIN queue, StealRunnable(c, n)
      PROVE  StolenUnused'
  <2>0. PICK task : task = queue[n].task
    OBVIOUS
  <2> DEFINE s == [User EXCEPT !.at = "steal", !.task = task, !.flag = LastUse(task)]
  <2>1. s.task = task /\ (s.flag => task \in AutoDelete)
    BY DEF User, LastUse
  <2>2. Becomes(c, s) /\ UNCHANGED <<runnable, thread>> /\ client[c].at = "user"
    BY <1>2, <2>0 DEF StealRunnable, Calls
  <2> HIDE DEF s
  <2>3. client'[c].task = task /\ (client'[c].flag => task \in AutoDelete)
        /\ \A d \in Clients : d # c => client'[d] = client[d]
    BY <1>t, <2>1, <2>2 DEF Becomes
  <2>4. task \in AutoDelete => \A d \in Clients : client[d].task # task
    BY <2>0 DEF StolenUnused, InPool
  <2>5. task \in AutoDelete => ~InPool(task)'
    <3> SUFFICES ASSUME task \in AutoDelete PROVE ~InPool(task)'
      OBVIOUS
    <3>1. /\ \A i \in DOMAIN queue : i # n => queue[i].task # task
          /\ \A t \in Threads : runnable[t] # task /\ thread[t].task # task
      BY <1>2, <2>0 DEF StealRunnable, OnlyUse
    <3>2. queue' = SubSeq(queue, 1, n - 1) \o SubSeq(queue, n + 1, Len(queue))
      BY <1>2 DEF StealRunnable
    <3>3. /\ queue' \in Seq(Entry) /\ Len(queue') = Len(queue) - 1
          /\ \A i \in 1 .. Len(queue') : queue'[i] = IF i < n THEN queue[i] ELSE queue[i + 1]
      BY <1>t, <3>2, WithoutProperties
    <3>4. DOMAIN queue' = 1 .. Len(queue') /\ DOMAIN queue = 1 .. Len(queue) /\ Len(queue) \in Nat
          /\ n \in 1 .. Len(queue)
      BY <1>t, <3>3
    <3>5. \A i \in DOMAIN queue' : \E j \in DOMAIN queue : j # n /\ queue'[i] = queue[j]
      BY <3>3, <3>4
    <3> QED
      BY <2>2, <3>1, <3>5 DEF InPool
  <2>6. \A d \in Clients, k \in AutoDelete : client[d].task = k => ~InPool(k)'
    <3> SUFFICES ASSUME NEW d \in Clients, NEW k \in AutoDelete, client[d].task = k
                 PROVE  ~InPool(k)'
      OBVIOUS
    <3>1. ~InPool(k) /\ InUse(k)
      BY InUseCases DEF StolenUnused
    <3> QED
      BY <1>t, <3>1, PoolStep DEF Fresh
  <2> QED
    BY <2>3, <2>4, <2>5, <2>6 DEF StolenUnused, InPool
<1> QED
  BY <1>1, <1>2, TasksStep

\* A task that is not in use is used by a step only if it is not deleted.
LEMMA UsedAgain ==
  ASSUME Shape, [Next]_vars, NEW k \in Tasks, InUse(k)'
  PROVE  InUse(k) \/ k \notin deleted
<1>t. client \in [Clients -> ClientState] /\ NoTask \notin Tasks
  BY PoolAssumption DEF Shape, PoolTypes
<1>1. CASE InPool(k)'
  BY <1>1, PoolStep, InUseCases DEF Fresh
<1>2. ASSUME NEW c \in Clients, client'[c].task = k PROVE InUse(k)
  <2>1. CASE TasksKept
    BY <1>2, <1>t, <2>1, InUseCases DEF TasksKept
  <2>2. ASSUME NEW d \in Clients, NEW n \in DOMAIN queue, StealRunnable(d, n) PROVE InUse(k)
    <3> DEFINE s == [User EXCEPT !.at = "steal", !.task = queue[n].task,
                                 !.flag = LastUse(queue[n].task)]
    <3>1. Becomes(d, s) /\ s.task = queue[n].task
      BY <2>2 DEF StealRunnable, User
    <3> HIDE DEF s
    <3>2. client'[c].task \in {queue[n].task, client[c].task}
      BY <1>t, <3>1 DEF Becomes
    <3> QED
      BY <1>2, <3>2, InUseCases DEF InPool
  <2> QED
    BY <2>1, <2>2, TasksStep
<1> QED
  BY <1>1, <1>2 DEF InUse, InPool

\* A task is deleted by the thread that ran it last, or by who took it.
LEMMA DeletedCases ==
  ASSUME [Next]_vars
  PROVE  \/ deleted' = deleted
         \/ \E t \in Threads : /\ TaskEnd(t) /\ LastUse(thread[t].task)
                               /\ deleted' = deleted \cup {thread[t].task}
         \/ \E c \in Clients : /\ StealEnd(c) /\ client[c].flag
                               /\ deleted' = deleted \cup {client[c].task}
<1>1. ASSUME NEW t \in Threads,
             \/ RunBegin(t) \/ WaitLeave(t) \/ WaitEnd(t)
             \/ FinishBegin(t) \/ FinishEnd(t) \/ WaitStep(t)
      PROVE  deleted' = deleted
  BY <1>1 DEF RunBegin, WaitLeave, WaitEnd, FinishBegin, FinishEnd, WaitStep, taskVars
<1>2. ASSUME NEW t \in Threads, TaskEnd(t)
      PROVE  \/ deleted' = deleted
             \/ LastUse(thread[t].task) /\ deleted' = deleted \cup {thread[t].task}
  BY <1>2 DEF TaskEnd
<1>3. ASSUME NEW c \in Clients, StealEnd(c)
      PROVE  \/ deleted' = deleted
             \/ client[c].flag /\ deleted' = deleted \cup {client[c].task}
  BY <1>3 DEF StealEnd
<1>4. ASSUME NEW c \in Clients,
             \/ QThreadStart(c) \/ TryToStartMoreThreads(c) \/ WaitForDoneWoken(c)
             \/ Reset(c) \/ ResetEnd(c) \/ WaitCall(c) \/ \E t \in Threads : Join(c, t)
      PROVE  deleted' = deleted
  BY <1>4 DEF QThreadStart, TryToStartMoreThreads, WaitForDoneWoken, Reset, ResetEnd, WaitCall,
              WaitForDone, WaitForDoneExpired, Looks, Join, taskVars
<1>5. ASSUME NEW c \in Clients, Call(c) PROVE deleted' = deleted
  BY <1>5 DEF Call, TryStart, Queue, SetMaxThreadCount, ReserveThread, ReleaseThread,
              StealRunnable, taskVars
<1>6. CASE UNCHANGED vars
  BY <1>6 DEF vars, taskVars
<1> QED
  BY <1>1, <1>2, <1>3, <1>4, <1>5, <1>6, NextCases

\* The last use of a task that a thread has run is that thread's.
LEMMA LastUseAlone ==
  ASSUME Shape, UsesCounted, NEW t \in Threads, LastUse(thread[t].task)
  PROVE  LET k == thread[t].task IN
         /\ \A i \in DOMAIN queue : queue[i].task # k
         /\ \A u \in Threads : runnable[u] # k /\ (u # t => thread[u].task # k)
<1> DEFINE k == thread[t].task
<1>1. k \in AutoDelete /\ ref[k] = 1 /\ k \in Tasks /\ queue \in Seq(Entry)
  BY PoolAssumption DEF LastUse, Shape, PoolTypes
<1>2. Uses(k) <= 1
  BY <1>1 DEF UsesCounted
<1>3. Given(k) \in SUBSET Threads /\ Ran(k) \in SUBSET Threads /\ t \in Ran(k)
  BY DEF Given, Ran
<1> HIDE DEF k
<1>4. /\ Cardinality(Ran(k)) = Cardinality(Ran(k) \ {t}) + 1
      /\ Cardinality(Ran(k) \ {t}) \in Nat
  BY <1>3, Apart
<1>5. Cardinality(Holds(queue, k)) \in Nat /\ Cardinality(Given(k)) \in Nat
  BY <1>1, UsesNat
<1>6. /\ Cardinality(Holds(queue, k)) = 0 /\ Cardinality(Given(k)) = 0
      /\ Cardinality(Ran(k) \ {t}) = 0
  BY <1>2, <1>4, <1>5 DEF Uses
<1>7. IsFiniteSet(Holds(queue, k)) /\ IsFiniteSet(Given(k)) /\ IsFiniteSet(Ran(k) \ {t})
  BY <1>1, <1>3, HoldsFinite, ThreadSet
<1>8. Holds(queue, k) = {} /\ Given(k) = {} /\ Ran(k) \ {t} = {}
  BY <1>6, <1>7, FS_EmptySet
<1> QED
  BY <1>8 DEF Holds, Given, Ran, k

\* No task is deleted that is still in use, and none in use that is deleted.
LEMMA DeletedStep ==
  ASSUME Shape, UsesCounted, StolenUnused, NothingDeletedInUse, [Next]_vars
  PROVE  NothingDeletedInUse'
<1>t. /\ client \in [Clients -> ClientState] /\ ClientsKnown /\ deleted \subseteq Tasks
      /\ NoTask \notin Tasks /\ queue \in Seq(Entry) /\ AutoDelete \subseteq Tasks
  BY PoolAssumption DEF Shape, PoolTypes
<1>1. ASSUME NEW k \in deleted PROVE ~InUse(k)'
  BY <1>1, <1>t, UsedAgain DEF NothingDeletedInUse
<1>2. CASE deleted' = deleted
  BY <1>1, <1>2 DEF NothingDeletedInUse
<1>3. ASSUME NEW t \in Threads, TaskEnd(t), LastUse(thread[t].task),
             deleted' = deleted \cup {thread[t].task}
      PROVE  NothingDeletedInUse'
  <2>1. PICK k : k = thread[t].task
    OBVIOUS
  <2>2. /\ \A i \in DOMAIN queue : queue[i].task # k
        /\ \A u \in Threads : runnable[u] # k /\ (u # t => thread[u].task # k)
    BY <1>3, <2>1, LastUseAlone
  <2>3. k \in AutoDelete /\ InPool(k)
    BY <1>3, <2>1 DEF LastUse, InPool
  <2>4. \A c \in Clients : client[c].task # k
    BY <2>3 DEF StolenUnused
  <2>5. /\ \A i \in DOMAIN queue' : \E j \in DOMAIN queue : queue[j] = queue'[i]
        /\ \A u \in Threads : u # t => thread'[u] = thread[u]
        /\ thread'[t].task = NoTask \/ \E j \in DOMAIN queue : queue[j].task = thread'[t].task
        /\ UNCHANGED runnable
    BY <1>3, LookPool DEF TaskEnd
  <2>6. ~InPool(k)'
    BY <1>t, <2>2, <2>3, <2>5 DEF InPool
  <2>7. \A c \in Clients : client'[c].task # k
    <3>1. ~\E c \in Clients, n \in DOMAIN queue : StealRunnable(c, n)
      <4> SUFFICES ASSUME NEW c \in Clients, NEW n \in DOMAIN queue, StealRunnable(c, n)
                   PROVE  FALSE
        OBVIOUS
      <4>1. deleted' = deleted
        BY DEF StealRunnable
      <4> QED
        BY <1>3, <2>1, <2>3, <4>1, InUseCases DEF NothingDeletedInUse
    <3> QED
      BY <1>t, <2>3, <2>4, <3>1, TasksStep DEF TasksKept
  <2>8. ~InUse(k)'
    BY <2>6, <2>7 DEF InUse, InPool
  <2> QED
    BY <1>1, <1>3, <2>1, <2>8 DEF NothingDeletedInUse
<1>4. ASSUME NEW c \in Clients, StealEnd(c), client[c].flag, deleted' = deleted \cup {client[c].task}
      PROVE  NothingDeletedInUse'
  <2>1. PICK k : k = client[c].task
    OBVIOUS
  <2>2. client[c].at = "steal" /\ Becomes(c, User) /\ UNCHANGED <<queue, runnable, thread>>
    BY <1>4 DEF StealEnd, listVars
  <2>3. k \in AutoDelete /\ ~InPool(k) /\ \A d \in Clients : d # c => client[d].task # k
    BY <1>4, <2>1, <2>2 DEF StolenUnused
  <2>4. \A d \in Clients : client'[d].task # k
    BY <1>t, <2>2, <2>3 DEF Becomes, User
  <2>5. ~InUse(k)'
    BY <2>2, <2>3, <2>4 DEF InUse, InPool
  <2> QED
    BY <1>1, <1>4, <2>1, <2>5 DEF NothingDeletedInUse
<1> QED
  BY <1>2, <1>3, <1>4, DeletedCases

-----------------------------------------------------------------------------
(* What is known of the threads, while resets do not overlap               *)

\* The pool is being reset by one client, which joins the threads that were
\* the pool's; every thread is the pool's or is being joined.
ResetKnown ==
  /\ \A c, d \in Clients : client[c].at = "join" /\ client[d].at = "join" => c = d
  /\ isExiting <=> \E c \in Clients : client[c].at = "join"
  /\ isExiting => mutex = Free /\ allThreads = {}
  /\ \A t \in Threads : thread[t].at # "none" => t \in allThreads \/ Joined(t)
  /\ \A t \in allThreads : thread[t].at # "none"
  /\ ~isExiting => ExpiredSet \subseteq allThreads

\* An expired thread is in the list once and has no task; a thread that is
\* being started has one.
ExpiredKnown ==
  /\ \A i, j \in DOMAIN expiredThreads : expiredThreads[i] = expiredThreads[j] => i = j
  /\ \A t \in ExpiredSet : /\ thread[t].at \in {"left", "finish", "done", "none"}
                           /\ runnable[t] = NoTask
  /\ \A t \in Threads : thread[t].at \in {"none", "task", "idle", "called", "late"}
                          => runnable[t] = NoTask
  /\ \A t \in Threads : Launching(t) => /\ t \in allThreads /\ runnable[t] # NoTask
                                        /\ thread[t].at \in {"left", "finish", "done"}

PoolKnown == ResetKnown /\ ExpiredKnown
NoOverlap == "overlapped" \notin mishaps => PoolKnown

\* No client begins or ends to join threads, or begins to start one.
ClientsQuiet ==
  \A d \in Clients :
    /\ client'[d].at = "join" <=> client[d].at = "join"
    /\ client'[d].joining = client[d].joining
    /\ client'[d].at = "launch" => /\ client[d].at = "launch"
                                   /\ client'[d].thread = client[d].thread

\* registerTheadInactive does not make a client do so,
LEMMA InactiveQuiet ==
  ASSUME client \in [Clients -> ClientState], ClientsKnown, UNCHANGED mutex,
         NEW n, RegisterInactive(n)
  PROVE  ClientsQuiet
BY InactiveClients DEF ClientsQuiet

\* nor does a step of one that does neither,
LEMMA BecomesQuiet ==
  ASSUME client \in [Clients -> ClientState], ClientsKnown, NEW c \in Clients, NEW s,
         Becomes(c, s), client[c].at # "join", s.at \notin {"join", "launch"}, s.joining = {}
  PROVE  ClientsQuiet
<1>1. client'[c] = s /\ \A d \in Clients : d # c => client'[d] = client[d]
  BY DEF Becomes
<1>2. client[c].joining = {}
  BY DEF ClientsKnown
<1> QED
  BY <1>1, <1>2 DEF ClientsQuiet

\* so that nothing is known anew of the threads.
LEMMA QuietKnown ==
  ASSUME ClientsQuiet, NEW t
  PROVE  /\ Joined(t)' <=> Joined(t)
         /\ Launching(t)' => Launching(t)
BY DEF ClientsQuiet, Joined, Launching

\* While the mutex is free no thread is being started.
LEMMA FreeKnown ==
  ASSUME ClientsKnown, mutex = Free, NEW t
  PROVE  ~Launching(t)
BY PoolAssumption DEF ClientsKnown, Launching, Clients

\* Without a reset no thread is being joined.
LEMMA NoReset ==
  ASSUME ClientsKnown, ResetKnown, ~isExiting, NEW t
  PROVE  ~Joined(t)
BY DEF ClientsKnown, ResetKnown, Joined

\* The client that keeps the mutex is not in a reset, nor is another.
LEMMA HeldNoReset ==
  ASSUME ResetKnown, NEW c \in Clients, mutex = c
  PROVE  ~isExiting
BY PoolAssumption DEF ResetKnown, Clients

\* A thread moves.
LEMMA ThreadKnown ==
  ASSUME Shape, PoolKnown, ClientsQuiet, NEW t \in Threads, NEW s, NEW k,
         thread' = [thread EXCEPT ![t] = s], runnable' = [runnable EXCEPT ![t] = k],
         UNCHANGED <<isExiting, allThreads>>, isExiting => mutex' = Free,
         thread[t].at # "none", s.at # "none",
         s.at \in {"task", "idle", "called", "late"} => k = NoTask,
         ExpiredSet' \subseteq ExpiredSet \cup {t},
         t \in ExpiredSet' => s.at \in {"left", "finish", "done"} /\ k = NoTask,
         Launching(t)' => s.at \in {"left", "finish", "done"} /\ k # NoTask,
         \A i, j \in DOMAIN expiredThreads' : expiredThreads'[i] = expiredThreads'[j] => i = j
  PROVE  PoolKnown'
<1>t. /\ thread'[t] = s /\ \A u \in Threads : u # t => thread'[u] = thread[u]
      /\ runnable'[t] = k /\ \A u \in Threads : u # t => runnable'[u] = runnable[u]
  BY DEF Shape, PoolTypes
<1>q. \A u \in Threads : (Joined(u)' <=> Joined(u)) /\ (Launching(u)' => Launching(u))
  BY QuietKnown
<1>e. ExpiredSet \subseteq Threads
  BY DEF ExpiredSet, Shape, PoolTypes
<1>1. /\ \A c, d \in Clients : client'[c].at = "join" /\ client'[d].at = "join" => c = d
      /\ isExiting' <=> \E c \in Clients : client'[c].at = "join"
      /\ isExiting' => mutex' = Free /\ allThreads' = {}
  BY DEF PoolKnown, ResetKnown, ClientsQuiet
<1>2. /\ \A u \in Threads : thread'[u].at # "none" => u \in allThreads' \/ Joined(u)'
      /\ \A u \in allThreads' : thread'[u].at # "none"
  BY <1>t, <1>q DEF PoolKnown, ResetKnown, Shape, PoolTypes
<1>3. ~isExiting' => ExpiredSet' \subseteq allThreads'
  <2> SUFFICES ASSUME ~isExiting PROVE ExpiredSet' \subseteq allThreads
    OBVIOUS
  <2>1. t \in allThreads
    BY NoReset DEF Shape, PoolKnown, ResetKnown
  <2> QED
    BY <2>1 DEF PoolKnown, ResetKnown
<1>4. \A u \in ExpiredSet' : thread'[u].at \in {"left", "finish", "done", "none"}
                             /\ runnable'[u] = NoTask
  BY <1>t, <1>e DEF PoolKnown, ExpiredKnown
<1>5. \A u \in Threads : thread'[u].at \in {"none", "task", "idle", "called", "late"}
                           => runnable'[u] = NoTask
  BY <1>t DEF PoolKnown, ExpiredKnown
<1>6. \A u \in Threads : Launching(u)' => /\ u \in allThreads' /\ runnable'[u] # NoTask
                                          /\ thread'[u].at \in {"left", "finish", "done"}
  BY <1>t, <1>q DEF PoolKnown, ExpiredKnown
<1>7. ResetKnown'
  BY <1>1, <1>2, <1>3 DEF ResetKnown
<1>8. ExpiredKnown'
  BY <1>4, <1>5, <1>6 DEF ExpiredKnown
<1> QED
  BY <1>7, <1>8 DEF PoolKnown

\* Nothing that is known changes.
LEMMA KnownKept ==
  ASSUME PoolKnown, ClientsQuiet, isExiting => mutex' = Free,
         UNCHANGED <<isExiting, allThreads, expiredThreads, thread, runnable>>
  PROVE  PoolKnown'
<1>q. \A u \in Threads : (Joined(u)' <=> Joined(u)) /\ (Launching(u)' => Launching(u))
  BY QuietKnown
<1>1. ResetKnown'
  BY <1>q DEF PoolKnown, ResetKnown, ClientsQuiet, ExpiredSet
<1>2. ExpiredKnown'
  BY <1>q DEF PoolKnown, ExpiredKnown, ExpiredSet
<1> QED
  BY <1>1, <1>2 DEF PoolKnown

\* A thread is added to those that have expired.
LEMMA ExpiredMore ==
  ASSUME expiredThreads \in Seq(Threads), NEW t \in Threads,
         expiredThreads' = Append(expiredThreads, t)
  PROVE  /\ ExpiredSet' = ExpiredSet \cup {t}
         /\ t \notin ExpiredSet /\ ExpiredKnown =>
              \A i, j \in DOMAIN expiredThreads' : expiredThreads'[i] = expiredThreads'[j] => i = j
<1>1. Len(expiredThreads) \in Nat /\ DOMAIN expiredThreads = 1 .. Len(expiredThreads)
  OBVIOUS
<1>2. /\ expiredThreads' \in Seq(Threads)
      /\ Len(expiredThreads') = Len(expiredThreads) + 1
      /\ \A i \in 1 .. Len(expiredThreads) : expiredThreads'[i] = expiredThreads[i]
      /\ expiredThreads'[Len(expiredThreads) + 1] = t
  BY AppendProperties
<1>3. DOMAIN expiredThreads' = 1 .. Len(expiredThreads) + 1
  BY <1>2
<1>4. ExpiredSet' \subseteq ExpiredSet \cup {t}
  BY <1>1, <1>2, <1>3 DEF ExpiredSet
<1>5. ExpiredSet \subseteq ExpiredSet'
  BY <1>1, <1>2, <1>3 DEF ExpiredSet
<1>6. t \in ExpiredSet'
  <2>1. Len(expiredThreads) + 1 \in DOMAIN expiredThreads'
    BY <1>1, <1>3
  <2> QED
    BY <1>2, <2>1 DEF ExpiredSet
<1>7. ASSUME t \notin ExpiredSet, ExpiredKnown, NEW i \in DOMAIN expiredThreads',
             NEW j \in DOMAIN expiredThreads', expiredThreads'[i] = expiredThreads'[j]
      PROVE  i = j
  <2>1. \A l \in 1 .. Len(expiredThreads) : expiredThreads[l] # t
    BY <1>1, <1>7 DEF ExpiredSet
  <2> QED
    BY <1>1, <1>2, <1>3, <1>7, <2>1 DEF ExpiredKnown
<1> QED
  BY <1>4, <1>5, <1>6, <1>7

\* The first of them is taken out.
LEMMA ExpiredLess ==
  ASSUME expiredThreads \in Seq(Threads), expiredThreads # <<>>, ExpiredKnown,
         expiredThreads' = Tail(expiredThreads)
  PROVE  /\ Head(expiredThreads) \in ExpiredSet
         /\ ExpiredSet' = ExpiredSet \ {Head(expiredThreads)}
         /\ \A i, j \in DOMAIN expiredThreads' : expiredThreads'[i] = expiredThreads'[j] => i = j
<1>1. /\ Len(expiredThreads) \in Nat /\ DOMAIN expiredThreads = 1 .. Len(expiredThreads)
      /\ Len(expiredThreads) # 0
  BY EmptySeq
<1>2. /\ expiredThreads' \in Seq(Threads) /\ Head(expiredThreads) = expiredThreads[1]
      /\ Len(expiredThreads') = Len(expiredThreads) - 1
      /\ \A i \in 1 .. Len(expiredThreads') : expiredThreads'[i] = expiredThreads[i + 1]
  BY HeadTailProperties
<1>3. DOMAIN expiredThreads' = 1 .. Len(expiredThreads) - 1
  BY <1>2
<1>u. \A i, j \in 1 .. Len(expiredThreads) : expiredThreads[i] = expiredThreads[j] => i = j
  BY <1>1 DEF ExpiredKnown
<1>4. Head(expiredThreads) \in ExpiredSet
  <2>1. 1 \in DOMAIN expiredThreads
    BY <1>1
  <2> QED
    BY <1>2, <2>1 DEF ExpiredSet
<1>5. ExpiredSet' \subseteq ExpiredSet \ {Head(expiredThreads)}
  <2> SUFFICES ASSUME NEW i \in 1 .. Len(expiredThreads) - 1
               PROVE  expiredThreads'[i] \in ExpiredSet \ {expiredThreads[1]}
    BY <1>2, <1>3 DEF ExpiredSet
  <2>1. i + 1 \in 1 .. Len(expiredThreads) /\ i + 1 # 1 /\ 1 \in 1 .. Len(expiredThreads)
    BY <1>1
  <2>2. expiredThreads'[i] = expiredThreads[i + 1]
    BY <1>2
  <2>3. expiredThreads[i + 1] # expiredThreads[1]
    BY <1>u, <2>1
  <2> QED
    BY <1>1, <2>1, <2>2, <2>3 DEF ExpiredSet
<1>6. ExpiredSet \ {Head(expiredThreads)} \subseteq ExpiredSet'
  <2> SUFFICES ASSUME NEW i \in 1 .. Len(expiredThreads), expiredThreads[i] # expiredThreads[1]
               PROVE  expiredThreads[i] \in ExpiredSet'
    BY <1>1, <1>2 DEF ExpiredSet
  <2>1. i - 1 \in 1 .. Len(expiredThreads) - 1 /\ i - 1 + 1 = i
    BY <1>1
  <2>2. expiredThreads'[i - 1] = expiredThreads[i]
    BY <1>2, <2>1
  <2> QED
    BY <1>3, <2>1, <2>2 DEF ExpiredSet
<1>7. \A i, j \in DOMAIN expiredThreads' : expiredThreads'[i] = expiredThreads'[j] => i = j
  <2> SUFFICES ASSUME NEW i \in 1 .. Len(expiredThreads) - 1, NEW j \in 1 .. Len(expiredThreads) - 1,
                      expiredThreads'[i] = expiredThreads'[j]
               PROVE  i = j
    BY <1>3
  <2>1. i + 1 \in 1 .. Len(expiredThreads) /\ j + 1 \in 1 .. Len(expiredThreads)
    BY <1>1
  <2>2. expiredThreads[i + 1] = expiredThreads[j + 1]
    BY <1>2
  <2> QED
    BY <1>u, <2>1, <2>2
<1> QED
  BY <1>4, <1>5, <1>6, <1>7

\* A thread is started, with a task: a new one, or the first of the expired.
LEMMA LaunchKnownStep ==
  ASSUME Shape, PoolKnown, ~isExiting, NEW c \in Clients, mutex \in {Free, c},
         client[c].at # "join", mutex' = c,
         NEW more, NEW t \in Threads, Launches(c, t, more), NEW k \in Tasks,
         runnable' = [runnable EXCEPT ![t] = k], allThreads' = allThreads \cup {t},
         \A u \in Threads : u # t => thread'[u] = thread[u],
         thread'[t].at \in {"left", "finish", "done"}, UNCHANGED isExiting,
         ExpiredSet' \subseteq ExpiredSet \ {t},
         \A i, j \in DOMAIN expiredThreads' : expiredThreads'[i] = expiredThreads'[j] => i = j
  PROVE  PoolKnown'
<1>t. /\ runnable'[t] = k /\ \A u \in Threads : u # t => runnable'[u] = runnable[u]
      /\ k # NoTask /\ client \in [Clients -> ClientState] /\ ClientsKnown
      /\ allThreads \subseteq Threads
  BY PoolAssumption DEF Shape, PoolTypes
<1>e. ExpiredSet \subseteq Threads
  BY DEF ExpiredSet, Shape, PoolTypes
<1> DEFINE s == [User EXCEPT !.at = "launch", !.thread = t, !.flag = more]
<1>c. s.at = "launch" /\ s.thread = t /\ s.joining = {} /\ Becomes(c, s)
  BY DEF User, Launches
<1> HIDE DEF s
<1>d. client'[c] = s /\ \A d \in Clients : d # c => client'[d] = client[d]
  BY <1>t, <1>c DEF Becomes
<1>l. \A u \in Threads : Launching(u)' => u = t
  <2>1. \A d \in Clients : d # c => client[d].at # "launch"
    BY <1>t, PoolAssumption DEF ClientsKnown, Clients
  <2> QED
    BY <1>c, <1>d, <2>1 DEF Launching
<1>1. /\ \A d \in Clients : client'[d].at # "join" /\ client[d].at # "join"
      /\ ~isExiting'
  <2>1. \A d \in Clients : client[d].at # "join"
    BY DEF PoolKnown, ResetKnown
  <2> QED
    BY <1>c, <1>d, <2>1
<1>2. /\ \A u \in Threads : thread'[u].at # "none" => u \in allThreads'
      /\ \A u \in allThreads' : thread'[u].at # "none"
  <2>1. \A u \in Threads : ~Joined(u)
    BY <1>t, NoReset DEF PoolKnown
  <2> QED
    BY <1>t, <2>1 DEF PoolKnown, ResetKnown
<1>3. ExpiredSet' \subseteq allThreads'
  BY DEF PoolKnown, ResetKnown
<1>4. \A u \in ExpiredSet' : /\ thread'[u].at \in {"left", "finish", "done", "none"}
                             /\ runnable'[u] = NoTask
  BY <1>t, <1>e DEF PoolKnown, ExpiredKnown
<1>5. \A u \in Threads : thread'[u].at \in {"none", "task", "idle", "called", "late"}
                           => runnable'[u] = NoTask
  BY <1>t DEF PoolKnown, ExpiredKnown
<1>6. \A u \in Threads : Launching(u)' => /\ u \in allThreads' /\ runnable'[u] # NoTask
                                          /\ thread'[u].at \in {"left", "finish", "done"}
  BY <1>t, <1>l
<1>7. ResetKnown'
  BY <1>1, <1>2, <1>3 DEF ResetKnown
<1>8. ExpiredKnown'
  BY <1>4, <1>5, <1>6 DEF ExpiredKnown
<1> QED
  BY <1>7, <1>8 DEF PoolKnown

\* tryStart, which nobody calls during a reset
LEMMA TryStartKnown ==
  ASSUME Shape, PoolKnown, ~isExiting, NEW c, NEW more, MayTry(c, more), NEW task \in Tasks,
         TryStartTask(c, task, more), UNCHANGED isExiting
  PROVE  PoolKnown'
<1>c. c \in Clients /\ mutex \in {Free, c} /\ client[c].at # "join"
  BY DEF MayTry
<1>t. thread \in [Threads -> ThreadState] /\ expiredThreads \in Seq(Threads)
  BY DEF Shape, PoolTypes
<1>1. CASE StartThread(c, task, more)
  <2>1. PICK t \in Threads :
          /\ thread[t].at = "none" /\ thread' = [thread EXCEPT ![t] = At("done")]
          /\ allThreads' = allThreads \cup {t} /\ runnable' = [runnable EXCEPT ![t] = task]
          /\ mutex' = c /\ Launches(c, t, more) /\ UNCHANGED expiredThreads
    BY <1>1 DEF StartThread
  <2>2. /\ thread'[t].at = "done" /\ \A u \in Threads : u # t => thread'[u] = thread[u]
    BY <1>t, <2>1 DEF At
  <2>3. t \notin ExpiredSet
    BY <2>1 DEF PoolKnown, ResetKnown
  <2>4. ExpiredSet' \subseteq ExpiredSet \ {t}
    BY <2>1, <2>3 DEF ExpiredSet
  <2>5. \A i, j \in DOMAIN expiredThreads' : expiredThreads'[i] = expiredThreads'[j] => i = j
    BY <2>1 DEF PoolKnown, ExpiredKnown
  <2> QED
    BY <1>c, <2>1, <2>2, <2>4, <2>5, LaunchKnownStep
<1>2. CASE RestartThread(c, task, more) /\ expiredThreads # <<>>
  <2>0. PICK t : t = Head(expiredThreads)
    OBVIOUS
  <2>1. /\ expiredThreads' = Tail(expiredThreads) /\ UNCHANGED <<allThreads, thread>>
        /\ runnable' = [runnable EXCEPT ![t] = task] /\ mutex' = c /\ Launches(c, t, more)
    BY <1>2, <2>0 DEF RestartThread
  <2>2. /\ t \in ExpiredSet /\ ExpiredSet' = ExpiredSet \ {t}
        /\ \A i, j \in DOMAIN expiredThreads' : expiredThreads'[i] = expiredThreads'[j] => i = j
    BY <1>2, <1>t, <2>0, <2>1, ExpiredLess DEF PoolKnown
  <2>3. t \in allThreads /\ thread[t].at \in {"left", "finish", "done"}
    BY <2>2 DEF PoolKnown, ResetKnown, ExpiredKnown
  <2>4. t \in Threads /\ allThreads' = allThreads \cup {t}
    BY <2>1, <2>3 DEF Shape, PoolTypes
  <2> QED
    BY <1>c, <2>1, <2>2, <2>3, <2>4, LaunchKnownStep
<1>3. CASE RecycleThread(task, more)
  <2>1. /\ ClientsQuiet
        /\ UNCHANGED <<allThreads, expiredThreads, thread, runnable>>
    BY <1>3 DEF RecycleThread, ClientsQuiet
  <2> QED
    BY <2>1, KnownKept
<1> QED
  BY <1>1, <1>2, <1>3 DEF TryStartTask

\* A thread that looks for work
LEMMA LookKnown ==
  ASSUME Shape, PoolKnown, NEW t \in Threads, thread[t].at \in {"task", "called", "late"},
         NEW active, NEW ready, LookForWork(t, active, ready) \/ Expires(t, active),
         mutex = Free, UNCHANGED <<isExiting, allThreads, mutex, runnable>>
  PROVE  PoolKnown'
<1>t. /\ thread \in [Threads -> ThreadState] /\ expiredThreads \in Seq(Threads)
      /\ runnable \in [Threads -> Tasks \cup {NoTask}]
      /\ client \in [Clients -> ClientState] /\ ClientsKnown
  BY DEF Shape, PoolTypes
<1>1. /\ runnable' = [runnable EXCEPT ![t] = NoTask] /\ runnable[t] = NoTask
      /\ t \notin ExpiredSet
  BY <1>t DEF PoolKnown, ExpiredKnown
<1>2. ASSUME ClientsQuiet, NEW s, thread' = [thread EXCEPT ![t] = s],
             s.at \in {"task", "idle", "left"},
             \/ UNCHANGED expiredThreads
             \/ expiredThreads' = Append(expiredThreads, t) /\ s.at = "left"
      PROVE  PoolKnown'
  <2>1. /\ ExpiredSet' \subseteq ExpiredSet \cup {t}
        /\ \A i, j \in DOMAIN expiredThreads' : expiredThreads'[i] = expiredThreads'[j] => i = j
    <3>1. CASE UNCHANGED expiredThreads
      BY <3>1 DEF ExpiredSet, PoolKnown, ExpiredKnown
    <3>2. CASE expiredThreads' = Append(expiredThreads, t)
      BY <1>t, <1>1, <3>2, ExpiredMore DEF PoolKnown
    <3> QED
      BY <1>2, <3>1, <3>2
  <2>2. t \in ExpiredSet' => s.at = "left"
    BY <1>1, <1>2 DEF ExpiredSet
  <2>3. ~Launching(t)'
    BY <1>2, <1>t, FreeKnown, QuietKnown
  <2> QED
    BY <1>1, <1>2, <2>1, <2>2, <2>3, ThreadKnown
<1>q. \A n : RegisterInactive(n) => ClientsQuiet
  BY <1>t, InactiveQuiet
<1>a. \A where : At(where).at = where
  BY DEF At
<1>3. CASE Takes(t, active, ready)
  <2> DEFINE s == Runs(Head(queue).task)
  <2>1. s.at = "task" /\ thread' = [thread EXCEPT ![t] = s]
        /\ UNCHANGED <<client, expiredThreads>>
    BY <1>3 DEF Takes, Runs
  <2>2. ClientsQuiet
    BY <2>1 DEF ClientsQuiet
  <2> HIDE DEF s
  <2> QED
    BY <1>2, <2>1, <2>2
<1>4. CASE Exits(t, active, ready)
  BY <1>2, <1>4, <1>a, <1>q DEF Exits, Leaves_run
<1>5. CASE Expires(t, active)
  BY <1>2, <1>5, <1>a, <1>q DEF Expires, Leaves_run
<1>6. CASE Idles(t, active, ready)
  BY <1>2, <1>6, <1>a, <1>q DEF Idles
<1> QED
  BY <1>3, <1>4, <1>5, <1>6, LookCases DEF TooMany

\* The steps of threads
LEMMA ThreadsKnownStep ==
  ASSUME Shape, PoolKnown, NEW t \in Threads,
         \/ RunBegin(t) \/ TaskEnd(t) \/ WaitLeave(t) \/ WaitEnd(t)
         \/ FinishBegin(t) \/ FinishEnd(t) \/ WaitStep(t)
  PROVE  PoolKnown'
<1>t. /\ thread \in [Threads -> ThreadState] /\ ClientsKnown
      /\ runnable \in [Threads -> Tasks \cup {NoTask}]
  BY DEF Shape, PoolTypes
<1>u. UNCHANGED client => ClientsQuiet
  BY DEF ClientsQuiet
<1>x. isExiting => mutex = Free
  BY DEF PoolKnown, ResetKnown
<1>1. CASE RunBegin(t)
  <2> DEFINE s == Runs(runnable[t])
  <2>1. /\ thread' = [thread EXCEPT ![t] = s] /\ s.at = "task"
        /\ runnable' = [runnable EXCEPT ![t] = NoTask]
        /\ UNCHANGED <<isExiting, allThreads, expiredThreads, mutex>> /\ ClientsQuiet
        /\ thread[t].at = "start" /\ mutex = Free
    BY <1>1, <1>u DEF RunBegin, Runs, listVars
  <2> HIDE DEF s
  <2>2. t \notin ExpiredSet /\ ExpiredSet' = ExpiredSet
    BY <2>1 DEF PoolKnown, ExpiredKnown, ExpiredSet
  <2>3. ~Launching(t)'
    BY <1>t, <2>1, FreeKnown, QuietKnown
  <2>4. \A i, j \in DOMAIN expiredThreads' : expiredThreads'[i] = expiredThreads'[j] => i = j
    BY <2>1 DEF PoolKnown, ExpiredKnown
  <2> QED
    BY <1>x, <2>1, <2>2, <2>3, <2>4, ThreadKnown
<1>2. CASE TaskEnd(t)
  BY <1>2, LookKnown DEF TaskEnd
<1>3. CASE WaitEnd(t)
  BY <1>3, LookKnown DEF WaitEnd
<1>4. ASSUME NEW s, thread[t].at = "left" \/ thread[t].at = "finish",
             s.at = "finish" \/ s.at = "done", thread' = [thread EXCEPT ![t] = s],
             UNCHANGED <<isExiting, allThreads, expiredThreads, mutex, runnable, client>>
      PROVE  PoolKnown'
  <2>1. runnable' = [runnable EXCEPT ![t] = runnable[t]]
    BY <1>t, <1>4
  <2>2. ExpiredSet' = ExpiredSet /\ (t \in ExpiredSet => runnable[t] = NoTask)
    BY <1>4 DEF PoolKnown, ExpiredKnown, ExpiredSet
  <2>3. Launching(t)' => runnable[t] # NoTask
    BY <1>4, <1>u, QuietKnown DEF PoolKnown, ExpiredKnown
  <2>4. \A i, j \in DOMAIN expiredThreads' : expiredThreads'[i] = expiredThreads'[j] => i = j
    BY <1>4 DEF PoolKnown, ExpiredKnown
  <2> QED
    BY <1>4, <1>u, <1>x, <2>1, <2>2, <2>3, <2>4, ThreadKnown
<1>5. CASE FinishBegin(t)
  <2>1. /\ thread[t].at = "left" /\ thread' = [thread EXCEPT ![t] = At("finish")]
        /\ UNCHANGED <<isExiting, allThreads, expiredThreads, mutex, runnable, client>>
    BY <1>5 DEF FinishBegin, listVars
  <2>2. At("finish").at = "finish"
    BY DEF At
  <2> QED
    BY <1>4, <2>1, <2>2
<1>6. CASE FinishEnd(t)
  <2>1. /\ thread[t].at = "finish" /\ thread' = [thread EXCEPT ![t] = At("done")]
        /\ UNCHANGED <<isExiting, allThreads, expiredThreads, mutex, runnable, client>>
    BY <1>6 DEF FinishEnd, listVars
  <2>2. At("done").at = "done"
    BY DEF At
  <2> QED
    BY <1>4, <2>1, <2>2
<1>7. CASE WaitStep(t)
  BY <1>7, <1>u, <1>x, KnownKept DEF WaitStep, listVars
<1>8. CASE WaitLeave(t)
  <2>1. PICK s : /\ thread' = [thread EXCEPT ![t] = s] /\ s.at \in {"called", "late"}
    <3>1. PICK s : s = At(IF t \in runnableReady.signalled THEN "called" ELSE "late")
      OBVIOUS
    <3>2. s.at \in {"called", "late"}
      BY <3>1 DEF At
    <3> QED
      BY <1>8, <3>1, <3>2 DEF WaitLeave
  <2>2. /\ UNCHANGED <<isExiting, allThreads, expiredThreads, mutex, runnable>> /\ ClientsQuiet
        /\ thread[t].at = "idle"
    BY <1>8, <1>u DEF WaitLeave, listVars
  <2>3. /\ runnable[t] = NoTask /\ runnable' = [runnable EXCEPT ![t] = NoTask]
        /\ t \notin ExpiredSet /\ ExpiredSet' = ExpiredSet
    BY <1>t, <2>2 DEF PoolKnown, ExpiredKnown, ExpiredSet
  <2>4. ~Launching(t)'
    BY <2>2, <2>3, QuietKnown DEF PoolKnown, ExpiredKnown
  <2>5. \A i, j \in DOMAIN expiredThreads' : expiredThreads'[i] = expiredThreads'[j] => i = j
    BY <2>2 DEF PoolKnown, ExpiredKnown
  <2> QED
    BY <1>x, <2>1, <2>2, <2>3, <2>4, <2>5, ThreadKnown
<1> QED
  BY <1>1, <1>2, <1>3, <1>5, <1>6, <1>7, <1>8

\* The steps of clients other than calls
LEMMA ClientsKnownStep ==
  ASSUME Shape, PoolKnown, NEW c \in Clients, ~Overlapped',
         \/ QThreadStart(c) \/ TryToStartMoreThreads(c) \/ StealEnd(c)
         \/ WaitForDoneWoken(c) \/ Reset(c) \/ ResetEnd(c)
         \/ \E t \in Threads : Join(c, t)
  PROVE  PoolKnown'
<1>t. /\ thread \in [Threads -> ThreadState] /\ ClientsKnown /\ allThreads \subseteq Threads
      /\ client \in [Clients -> ClientState] /\ queue \in Seq(Entry) /\ Free \notin Clients
      /\ runnable \in [Threads -> Tasks \cup {NoTask}] /\ client[c] \in ClientState
  BY PoolAssumption DEF Shape, PoolTypes, Clients
<1>x. isExiting => mutex = Free
  BY DEF PoolKnown, ResetKnown
<1>p. /\ User.at = "user" /\ User.joining = {}
      /\ [User EXCEPT !.at = "push"].at = "push" /\ [User EXCEPT !.at = "push"].joining = {}
  BY DEF User
<1>f. ~isExiting => \A d \in Clients : client[d].at # "join"
  BY DEF PoolKnown, ResetKnown
<1>1. CASE QThreadStart(c)
  <2>0. PICK t : t = client[c].thread
    OBVIOUS
  <2>1. /\ mutex = c /\ t \in Threads /\ Launching(t) /\ client[c].at = "launch"
    BY <1>1, <1>t, <2>0 DEF QThreadStart, ClientsKnown, ClientState, Launching
  <2>2. /\ ~isExiting /\ thread[t].at \in {"left", "done"} /\ runnable[t] # NoTask
        /\ t \notin ExpiredSet
    BY <1>1, <1>t, <2>0, <2>1, <1>x DEF QThreadStart, PoolKnown, ExpiredKnown
  <2>3. ClientsQuiet
    <3>1. CASE Becomes(c, [User EXCEPT !.at = "push"])
      BY <1>t, <1>p, <2>1, <3>1, BecomesQuiet
    <3>2. CASE Becomes(c, User)
      BY <1>t, <1>p, <2>1, <3>2, BecomesQuiet
    <3> QED
      BY <1>1, <3>1, <3>2 DEF QThreadStart
  <2>4. \E s : /\ thread' = [thread EXCEPT ![t] = s] /\ s.at \in {"start", "left", "done"}
    <3>1. CASE UNCHANGED thread
      <4>1. thread' = [thread EXCEPT ![t] = thread[t]]
        BY <1>t, <3>1
      <4> QED
        BY <2>2, <4>1
    <3>2. ASSUME NEW state \in StartsRunning, thread' = [thread EXCEPT ![t] = state]
          PROVE  state.at \in {"start", "done"}
      BY DEF StartsRunning, At
    <3> QED
      BY <1>1, <2>0, <3>1, <3>2 DEF QThreadStart
  <2>5. PICK s : thread' = [thread EXCEPT ![t] = s] /\ s.at \in {"start", "left", "done"}
    BY <2>4
  <2>6. /\ UNCHANGED <<isExiting, allThreads, expiredThreads, runnable>>
        /\ runnable' = [runnable EXCEPT ![t] = runnable[t]]
    BY <1>1, <1>t DEF QThreadStart, listVars
  <2>7. ~Launching(t)'
    <3>1. \A d \in Clients : d # c => client[d].at # "launch"
      BY <1>t, <2>1 DEF ClientsKnown
    <3>2. client'[c].at # "launch"
      BY <1>1, <1>t, <1>p DEF QThreadStart, Becomes
    <3> QED
      BY <2>3, <3>1, <3>2 DEF Launching, ClientsQuiet
  <2>8. ExpiredSet' = ExpiredSet
        /\ \A i, j \in DOMAIN expiredThreads' : expiredThreads'[i] = expiredThreads'[j] => i = j
    BY <2>6 DEF ExpiredSet, PoolKnown, ExpiredKnown
  <2> QED
    BY <2>1, <2>2, <2>3, <2>5, <2>6, <2>7, <2>8, ThreadKnown
<1>2. CASE TryToStartMoreThreads(c)
  <2>1. mutex = c /\ client[c].at = "push" /\ ~isExiting /\ UNCHANGED isExiting
    BY <1>2, <1>t, <1>x DEF TryToStartMoreThreads, ClientsKnown
  <2>2. CASE /\ Becomes(c, User) /\ UNCHANGED <<listVars, thread, runnable>>
    <3>1. ClientsQuiet
      BY <1>t, <1>p, <2>1, <2>2, BecomesQuiet
    <3> QED
      BY <2>1, <2>2, <3>1, KnownKept DEF listVars
  <2>3. CASE queue # <<>> /\ TryStartTask(c, Head(queue).task, TRUE)
    <3>1. Head(queue).task \in Tasks /\ MayTry(c, TRUE)
      BY <1>t, <2>1, <2>3, FirstTask DEF MayTry
    <3> QED
      BY <2>1, <2>3, <3>1, TryStartKnown
  <2> QED
    BY <1>2, <2>2, <2>3 DEF TryToStartMoreThreads
<1>3. CASE StealEnd(c)
  <2>1. ClientsQuiet
    BY <1>3, <1>t, <1>p, BecomesQuiet DEF StealEnd
  <2> QED
    BY <1>3, <1>x, <2>1, KnownKept DEF StealEnd, listVars
<1>4. CASE WaitForDoneWoken(c)
  <2> DEFINE a == [client[c] EXCEPT !.at = "asleep"]
             s == IF Done THEN [a EXCEPT !.at = "return"] ELSE a
  <2>1. client[c].at = "woken" /\ client[c].joining = {}
    BY <1>4, <1>t DEF WaitForDoneWoken, ClientsKnown
  <2>2. s.at \in {"asleep", "return"} /\ s.joining = {}
    BY <1>t, <2>1 DEF ClientState
  <2>3. Becomes(c, s) /\ UNCHANGED <<isExiting, allThreads, expiredThreads, thread, runnable, mutex>>
    BY <1>4 DEF WaitForDoneWoken, Looks, listVars
  <2> HIDE DEF s
  <2>4. ClientsQuiet
    BY <1>t, <2>1, <2>2, <2>3, BecomesQuiet
  <2> QED
    BY <1>x, <2>3, <2>4, KnownKept
<1>5. CASE Reset(c)
  <2> DEFINE s == [User EXCEPT !.at = "join", !.joining = allThreads]
  <2>1. s.at = "join" /\ s.joining = allThreads /\ Becomes(c, s)
    BY <1>5 DEF User, Reset
  <2>2. /\ client[c].at = "return" /\ mutex = Free /\ mutex' = Free /\ isExiting' = TRUE
        /\ allThreads' = {} /\ UNCHANGED <<expiredThreads, thread, runnable>>
    BY <1>5 DEF Reset
  <2> HIDE DEF s
  <2>3. client'[c] = s /\ \A d \in Clients : d # c => client'[d] = client[d]
    BY <1>t, <2>1 DEF Becomes
  <2>4. \A d \in Clients : d # c => client[d].at # "join"
    BY <2>1, <2>3 DEF Overlapped
  <2>5. ~isExiting
    BY <2>2, <2>4 DEF PoolKnown, ResetKnown
  <2>6. \A t \in Threads : /\ ~Launching(t)' /\ ~Joined(t)
                           /\ (t \in allThreads => Joined(t)')
    <3>1. \A t \in Threads : ~Launching(t) /\ ~Joined(t)
      BY <1>t, <2>2, <2>5, FreeKnown, NoReset DEF PoolKnown
    <3> QED
      BY <2>1, <2>3, <3>1 DEF Launching, Joined
  <2>7. ResetKnown'
    <3>1. /\ \A d, e \in Clients : client'[d].at = "join" /\ client'[e].at = "join" => d = e
          /\ \E d \in Clients : client'[d].at = "join"
      BY <2>1, <2>3, <2>4
    <3>2. \A t \in Threads : thread'[t].at # "none" => Joined(t)'
      BY <2>2, <2>6 DEF PoolKnown, ResetKnown
    <3> QED
      BY <2>2, <3>1, <3>2 DEF ResetKnown
  <2>8. ExpiredKnown'
    BY <2>2, <2>6 DEF PoolKnown, ExpiredKnown, ExpiredSet
  <2> QED
    BY <2>7, <2>8 DEF PoolKnown
<1>j. client[c].at = "join" => /\ isExiting /\ mutex = Free /\ allThreads = {}
                               /\ \A d \in Clients : d # c => /\ client[d].at # "join"
                                                              /\ client[d].joining = {}
                               /\ \A t \in Threads : Joined(t) <=> t \in client[c].joining
                               /\ \A t \in Threads : ~Launching(t)
  <2> SUFFICES ASSUME client[c].at = "join"
               PROVE  /\ isExiting /\ mutex = Free /\ allThreads = {}
                      /\ \A d \in Clients : d # c => client[d].at # "join" /\ client[d].joining = {}
                      /\ \A t \in Threads : Joined(t) <=> t \in client[c].joining
                      /\ \A t \in Threads : ~Launching(t)
    OBVIOUS
  <2>1. isExiting /\ mutex = Free /\ allThreads = {}
    BY DEF PoolKnown, ResetKnown
  <2>2. \A d \in Clients : d # c => client[d].at # "join" /\ client[d].joining = {}
    BY <1>t DEF PoolKnown, ResetKnown, ClientsKnown
  <2>3. \A t \in Threads : Joined(t) <=> t \in client[c].joining
    BY <2>2 DEF Joined
  <2> QED
    BY <1>t, <2>1, <2>2, <2>3, FreeKnown
<1>6. CASE ResetEnd(c)
  <2>1. /\ client[c].at = "join" /\ client[c].joining = {} /\ allThreads = {}
        /\ \A d \in Clients : d # c => client[d].at # "join"
        /\ \A t \in Threads : ~Joined(t) /\ ~Launching(t)
    BY <1>6, <1>j DEF ResetEnd
  <2>2. /\ Becomes(c, User) /\ isExiting' = FALSE /\ expiredThreads' = <<>>
        /\ UNCHANGED <<allThreads, mutex, thread, runnable>>
    BY <1>6, <2>1 DEF ResetEnd
  <2>3. client'[c] = User /\ \A d \in Clients : d # c => client'[d] = client[d]
    BY <1>t, <2>2 DEF Becomes
  <2>4. \A t \in Threads : ~Launching(t)' /\ thread[t].at = "none"
    <3>1. \A t \in Threads : ~Launching(t)'
      BY <1>p, <2>1, <2>3 DEF Launching
    <3> QED
      BY <2>1, <3>1 DEF PoolKnown, ResetKnown
  <2>5. \A d \in Clients : client'[d].at # "join"
    BY <1>p, <2>1, <2>3
  <2>6. DOMAIN expiredThreads' = {}
    BY <2>2
  <2>7. ExpiredSet' = {}
    BY <2>6 DEF ExpiredSet
  <2>8. ResetKnown'
    BY <2>1, <2>2, <2>4, <2>5, <2>7 DEF ResetKnown
  <2>9. ExpiredKnown'
    BY <2>2, <2>4, <2>6, <2>7 DEF PoolKnown, ExpiredKnown
  <2> QED
    BY <2>8, <2>9 DEF PoolKnown
<1>7. ASSUME NEW t \in Threads, Join(c, t) PROVE PoolKnown'
  <2> DEFINE s == [client[c] EXCEPT !.joining = @ \ {t}]
  <2>1. /\ client[c].at = "join" /\ thread' = [thread EXCEPT ![t] = At("none")]
        /\ runnable' = [runnable EXCEPT ![t] = NoTask] /\ Becomes(c, s)
        /\ UNCHANGED <<isExiting, allThreads, expiredThreads, mutex>>
    BY <1>7 DEF Join, listVars
  <2>2. s.at = "join" /\ s.joining = client[c].joining \ {t}
    BY <1>t, <2>1 DEF ClientState
  <2> HIDE DEF s
  <2>3. client'[c] = s /\ \A d \in Clients : d # c => client'[d] = client[d]
    BY <1>t, <2>1 DEF Becomes
  <2>4. /\ isExiting /\ mutex = Free /\ allThreads = {}
        /\ \A d \in Clients : d # c => client[d].at # "join" /\ client[d].joining = {}
        /\ \A u \in Threads : Joined(u) <=> u \in client[c].joining
        /\ \A u \in Threads : ~Launching(u)
    BY <1>j, <2>1
  <2>5. /\ thread'[t].at = "none" /\ \A u \in Threads : u # t => thread'[u] = thread[u]
        /\ runnable'[t] = NoTask /\ \A u \in Threads : u # t => runnable'[u] = runnable[u]
    BY <1>t, <2>1 DEF At
  <2>6. \A u \in Threads : /\ ~Launching(u)'
                           /\ u # t /\ Joined(u) => Joined(u)'
    BY <2>2, <2>3, <2>4 DEF Launching, Joined
  <2>7. ResetKnown'
    <3>1. /\ \A d, e \in Clients : client'[d].at = "join" /\ client'[e].at = "join" => d = e
          /\ \E d \in Clients : client'[d].at = "join"
      BY <2>2, <2>3, <2>4
    <3>2. \A u \in Threads : thread'[u].at # "none" => Joined(u)'
      BY <2>4, <2>5, <2>6 DEF PoolKnown, ResetKnown
    <3> QED
      BY <2>1, <2>4, <3>1, <3>2 DEF ResetKnown
  <2>8. ExpiredSet' = ExpiredSet /\ ExpiredSet \subseteq Threads
    BY <2>1 DEF ExpiredSet, Shape, PoolTypes
  <2>9. ExpiredKnown'
    <3>1. \A u \in ExpiredSet' : /\ thread'[u].at \in {"left", "finish", "done", "none"}
                                 /\ runnable'[u] = NoTask
      BY <2>5, <2>8 DEF PoolKnown, ExpiredKnown
    <3>2. \A u \in Threads : thread'[u].at \in {"none", "task", "idle", "called", "late"}
                           => runnable'[u] = NoTask
      BY <2>5 DEF PoolKnown, ExpiredKnown
    <3>3. \A i, j \in DOMAIN expiredThreads' : expiredThreads'[i] = expiredThreads'[j] => i = j
      BY <2>1 DEF PoolKnown, ExpiredKnown
    <3> QED
      BY <2>6, <3>1, <3>2, <3>3 DEF ExpiredKnown
  <2> QED
    BY <2>7, <2>9 DEF PoolKnown
<1> QED
  BY <1>1, <1>2, <1>3, <1>4, <1>5, <1>6, <1>7

\* The calls
LEMMA CallsKnownStep ==
  ASSUME Shape, PoolKnown, NEW c \in Clients, Call(c) \/ WaitCall(c)
  PROVE  PoolKnown'
<1>t. /\ ClientsKnown /\ client \in [Clients -> ClientState] /\ Free \notin Clients
  BY PoolAssumption DEF Shape, PoolTypes, Clients
<1>x. isExiting => mutex = Free
  BY DEF PoolKnown, ResetKnown
<1>b. ASSUME NEW s, Becomes(c, s), client[c].at # "join", s.at \notin {"join", "launch"},
             s.joining = {}, isExiting => mutex' = Free,
             UNCHANGED <<isExiting, allThreads, expiredThreads, thread, runnable>>
      PROVE  PoolKnown'
  BY <1>t, <1>b, BecomesQuiet, KnownKept
<1>u. ASSUME UNCHANGED <<isExiting, allThreads, expiredThreads, thread, runnable, client, mutex>>
      PROVE  PoolKnown'
  <2>1. ClientsQuiet
    BY <1>u DEF ClientsQuiet
  <2> QED
    BY <1>u, <1>x, <2>1, KnownKept
<1>p. [User EXCEPT !.at = "push"].at = "push" /\ [User EXCEPT !.at = "push"].joining = {}
  BY DEF User
<1>1. ASSUME NEW task \in Tasks, TryStart(c, task) PROVE PoolKnown'
  <2>1. MayTry(c, FALSE) /\ ~isExiting
    BY <1>1 DEF TryStart, MayStart, MayLaunch, Calls, MayTry
  <2> QED
    BY <1>1, <2>1, TryStartKnown DEF TryStart
<1>2. ASSUME NEW task \in Tasks, NEW p \in Priorities, Queue(c, task, p) PROVE PoolKnown'
  BY <1>2, <1>u DEF Queue
<1>3. CASE ReleaseThread(c) \/ \E n \in MaxThreadCounts : SetMaxThreadCount(c, n)
  <2>1. /\ Becomes(c, [User EXCEPT !.at = "push"]) /\ ~isExiting /\ client[c].at # "join"
        /\ UNCHANGED <<isExiting, allThreads, expiredThreads, thread, runnable>>
    BY <1>3 DEF ReleaseThread, SetMaxThreadCount, MayLaunch, Calls, listVars
  <2> QED
    BY <1>b, <1>p, <2>1
<1>4. CASE ReserveThread(c)
  BY <1>4, <1>u DEF ReserveThread, listVars
<1>5. ASSUME NEW n \in DOMAIN queue, StealRunnable(c, n) PROVE PoolKnown'
  <2> DEFINE s == [User EXCEPT !.at = "steal", !.task = queue[n].task,
                               !.flag = LastUse(queue[n].task)]
  <2>1. s.at = "steal" /\ s.joining = {}
    BY DEF User
  <2>2. /\ Becomes(c, s) /\ client[c].at # "join"
        /\ UNCHANGED <<isExiting, allThreads, expiredThreads, thread, runnable, mutex>>
    BY <1>5 DEF StealRunnable, Calls
  <2> HIDE DEF s
  <2> QED
    BY <1>b, <1>x, <2>1, <2>2
<1>6. CASE WaitCall(c)
  <2>1. PICK a \in {[User EXCEPT !.at = "asleep"], User} :
          mutex = Free /\ client[c].at # "join" /\ Looks(c, a)
    BY <1>6 DEF WaitCall, WaitForDone, WaitForDoneExpired, Calls
  <2> DEFINE s == IF Done THEN [a EXCEPT !.at = "return"] ELSE a
  <2>2. a \in ClientState /\ a.at \in {"asleep", "user"} /\ a.joining = {}
    <3>1. CASE a = User
      BY <3>1 DEF User, ClientState
    <3>2. CASE a = [User EXCEPT !.at = "asleep"]
      BY <3>2 DEF User, ClientState
    <3> QED
      BY <3>1, <3>2
  <2>3. s.at \notin {"join", "launch"} /\ s.joining = {}
    BY <2>2 DEF ClientState
  <2>4. Becomes(c, s) /\ UNCHANGED <<isExiting, allThreads, expiredThreads, thread, runnable, mutex>>
    BY <2>1 DEF Looks, listVars
  <2> HIDE DEF s
  <2> QED
    BY <1>b, <2>1, <2>3, <2>4
<1> QED
  BY <1>1, <1>2, <1>3, <1>4, <1>5, <1>6 DEF Call

\* What went wrong is remembered.
LEMMA Remembered ==
  ASSUME Remember
  PROVE  /\ mishaps \subseteq mishaps' /\ (Lost' => "lost" \in mishaps')
         /\ (Overtaken => "overtaken" \in mishaps') /\ (Overlapped' => "overlapped" \in mishaps')
BY DEF Remember

\* Until resets overlap, all this stays known.
LEMMA NoOverlapStep ==
  ASSUME Shape, NoOverlap, [Next]_vars
  PROVE  NoOverlap'
<1>1. CASE Next
  <2> SUFFICES ASSUME "overlapped" \notin mishaps' PROVE PoolKnown'
    BY DEF NoOverlap
  <2>1. PoolKnown /\ ~Overlapped'
    BY <1>1, NextCases, Remembered DEF NoOverlap
  <2> QED
    BY <1>1, <2>1, NextCases, ThreadsKnownStep, ClientsKnownStep, CallsKnownStep
<1>2. CASE UNCHANGED vars
  BY <1>2 DEF vars, listVars, NoOverlap, PoolKnown, ResetKnown, ExpiredKnown, ExpiredSet,
              Launching, Joined
<1> QED
  BY <1>1, <1>2

-----------------------------------------------------------------------------
(* activeThreads is the number of busy threads                             *)

\* Which threads are busy, before and after a step
LEMMA BusyIsSet ==
  /\ Busy \in SUBSET Threads /\ Busy' \in SUBSET Threads
  /\ \A t \in Threads : t \in Busy <=> runnable[t] # NoTask \/ thread[t].at = "task"
  /\ \A t \in Threads : t \in Busy' <=> runnable'[t] # NoTask \/ thread'[t].at = "task"
BY DEF Busy

\* A thread becomes busy, or is no longer busy.
LEMMA BusyChanges ==
  ASSUME activeThreads = Cardinality(Busy), NEW t \in Threads,
         \A u \in Threads : u # t => (u \in Busy' <=> u \in Busy),
         activeThreads' = activeThreads + (IF t \in Busy' THEN 1 ELSE 0) - (IF t \in Busy THEN 1 ELSE 0)
  PROVE  activeThreads' = Cardinality(Busy')
<1>1. Busy \in SUBSET Threads /\ Busy' \in SUBSET Threads
  BY BusyIsSet
<1>2. Busy \ {t} = Busy' \ {t}
  BY <1>1
<1>3. /\ Cardinality(Busy) = Cardinality(Busy \ {t}) + (IF t \in Busy THEN 1 ELSE 0)
      /\ Cardinality(Busy') = Cardinality(Busy' \ {t}) + (IF t \in Busy' THEN 1 ELSE 0)
      /\ Cardinality(Busy \ {t}) \in Nat
  BY <1>1, Apart
<1>4. Cardinality(Busy \ {t}) = Cardinality(Busy' \ {t})
  BY <1>2
<1> QED
  BY <1>3, <1>4

\* The same threads are busy.
LEMMA BusySame ==
  ASSUME activeThreads = Cardinality(Busy), activeThreads' = activeThreads,
         \A u \in Threads : u \in Busy' <=> u \in Busy
  PROVE  activeThreads' = Cardinality(Busy')
<1>1. Busy' = Busy
  BY BusyIsSet
<1> QED
  BY <1>1

\* A thread that looks for work is busy if it finds some.
LEMMA LookBusy ==
  ASSUME Shape, PoolKnown, activeThreads = Cardinality(Busy), NEW t \in Threads, NEW active \in Int,
         NEW ready, thread[t].at \in {"task", "called", "late"},
         active = activeThreads + (IF thread[t].at = "task" THEN 0 ELSE 1),
         activeThreads \in Int,
         LookForWork(t, active, ready) \/ Expires(t, active), UNCHANGED runnable
  PROVE  activeThreads' = Cardinality(Busy')
<1>t. thread \in [Threads -> ThreadState]
  BY DEF Shape, PoolTypes
<1>1. runnable[t] = NoTask /\ (t \in Busy <=> thread[t].at = "task")
  BY BusyIsSet DEF PoolKnown, ExpiredKnown
<1>2. ASSUME NEW s, thread' = [thread EXCEPT ![t] = s],
             activeThreads' = active - (IF s.at = "task" THEN 0 ELSE 1)
      PROVE  activeThreads' = Cardinality(Busy')
  <2>1. thread'[t] = s /\ \A u \in Threads : u # t => thread'[u] = thread[u]
    BY <1>t, <1>2
  <2>2. \A u \in Threads : u # t => (u \in Busy' <=> u \in Busy)
    BY <2>1, BusyIsSet
  <2>3. t \in Busy' <=> s.at = "task"
    BY <1>1, <2>1, BusyIsSet
  <2> QED
    BY <1>1, <1>2, <2>2, <2>3, BusyChanges
<1>3. CASE Takes(t, active, ready)
  <2> DEFINE s == Runs(Head(queue).task)
  <2>1. /\ thread' = [thread EXCEPT ![t] = s] /\ s.at = "task" /\ activeThreads' = active - 0
    BY <1>3 DEF Takes, Runs
  <2> HIDE DEF s
  <2> QED
    BY <1>2, <2>1
<1>4. ASSUME NEW where, where # "task", RegisterInactive(active),
             thread' = [thread EXCEPT ![t] = At(where)]
      PROVE  activeThreads' = Cardinality(Busy')
  BY <1>2, <1>4 DEF At, RegisterInactive
<1>5. CASE Exits(t, active, ready) \/ Expires(t, active)
  BY <1>4, <1>5 DEF Exits, Expires, Leaves_run
<1>6. CASE Idles(t, active, ready)
  BY <1>4, <1>6 DEF Idles
<1> QED
  BY <1>3, <1>5, <1>6, LookCases DEF TooMany

\* tryStart makes the thread busy that it starts.
LEMMA TryStartBusy ==
  ASSUME Shape, PoolKnown, ~isExiting, activeThreads = Cardinality(Busy), activeThreads \in Int,
         NEW c, NEW more, NEW task \in Tasks, TryStartTask(c, task, more)
  PROVE  activeThreads' = Cardinality(Busy')
<1>t. /\ thread \in [Threads -> ThreadState] /\ task # NoTask
      /\ runnable \in [Threads -> Tasks \cup {NoTask}] /\ expiredThreads \in Seq(Threads)
  BY PoolAssumption DEF Shape, PoolTypes
<1>1. CASE StartThread(c, task, more)
  <2>1. PICK t \in Threads :
          /\ thread[t].at = "none" /\ thread' = [thread EXCEPT ![t] = At("done")]
          /\ runnable' = [runnable EXCEPT ![t] = task] /\ activeThreads' = activeThreads + 1
    BY <1>1 DEF StartThread
  <2>2. t \notin Busy
    BY <2>1, BusyIsSet DEF PoolKnown, ExpiredKnown
  <2>3. t \in Busy' /\ \A u \in Threads : u # t => (u \in Busy' <=> u \in Busy)
    BY <1>t, <2>1, BusyIsSet
  <2> QED
    BY <2>1, <2>2, <2>3, BusyChanges
<1>2. CASE RestartThread(c, task, more) /\ expiredThreads # <<>>
  <2>0. PICK t : t = Head(expiredThreads)
    OBVIOUS
  <2>1. /\ t \in Threads /\ UNCHANGED thread
        /\ runnable' = [runnable EXCEPT ![t] = task] /\ activeThreads' = activeThreads + 1
    BY <1>2, <1>t, <2>0, HeadTailProperties DEF RestartThread
  <2>2. t \in ExpiredSet
    BY <1>2, <1>t, <2>0, ExpiredLess DEF PoolKnown, RestartThread
  <2>3. t \notin Busy
    BY <2>1, <2>2, BusyIsSet DEF PoolKnown, ExpiredKnown
  <2>4. t \in Busy' /\ \A u \in Threads : u # t => (u \in Busy' <=> u \in Busy)
    BY <1>t, <2>1, BusyIsSet
  <2> QED
    BY <2>1, <2>3, <2>4, BusyChanges
<1>3. CASE RecycleThread(task, more)
  BY <1>3, BusySame, BusyIsSet DEF RecycleThread
<1> QED
  BY <1>1, <1>2, <1>3 DEF TryStartTask

\* Every step counts the threads that become busy and those that no longer are.
LEMMA CountedStep ==
  ASSUME Shape, PoolKnown, activeThreads \in Int, activeThreads = Cardinality(Busy), ~Lost,
         [Next]_vars
  PROVE  activeThreads' = Cardinality(Busy')
<1>t. /\ thread \in [Threads -> ThreadState] /\ ClientsKnown /\ queue \in Seq(Entry)
      /\ runnable \in [Threads -> Tasks \cup {NoTask}] /\ client \in [Clients -> ClientState]
  BY DEF Shape, PoolTypes
<1>u. ASSUME UNCHANGED <<activeThreads, thread, runnable>>
      PROVE  activeThreads' = Cardinality(Busy')
  BY <1>u, BusySame, BusyIsSet
<1>m. ASSUME UNCHANGED <<activeThreads, runnable>>, NEW t \in Threads, NEW s,
             thread' = [thread EXCEPT ![t] = s], runnable[t] # NoTask \/ s.at # "task",
             thread[t].at # "task"
      PROVE  activeThreads' = Cardinality(Busy')
  <2>1. thread'[t] = s /\ \A u \in Threads : u # t => thread'[u] = thread[u]
    BY <1>t, <1>m
  <2>2. \A u \in Threads : u \in Busy' <=> u \in Busy
    BY <1>m, <2>1, BusyIsSet
  <2> QED
    BY <1>m, <2>2, BusySame
<1>1. ASSUME NEW t \in Threads, RunBegin(t) PROVE activeThreads' = Cardinality(Busy')
  <2>1. /\ thread' = [thread EXCEPT ![t] = Runs(runnable[t])] /\ UNCHANGED activeThreads
        /\ runnable' = [runnable EXCEPT ![t] = NoTask] /\ runnable[t] # NoTask
    BY <1>1 DEF RunBegin, countVars, Shape, ThreadsKnown
  <2>2. \A u \in Threads : u \in Busy' <=> u \in Busy
    BY <1>t, <2>1, BusyIsSet DEF Runs
  <2> QED
    BY <2>1, <2>2, BusySame
<1>2. ASSUME NEW t \in Threads, TaskEnd(t) PROVE activeThreads' = Cardinality(Busy')
  <2>1. activeThreads = activeThreads + (IF thread[t].at = "task" THEN 0 ELSE 1)
    BY <1>2 DEF TaskEnd
  <2> QED
    BY <1>2, <2>1, LookBusy DEF TaskEnd
<1>3. ASSUME NEW t \in Threads, WaitEnd(t) PROVE activeThreads' = Cardinality(Busy')
  <2>1. /\ ActiveAgain \in Int
        /\ ActiveAgain = activeThreads + (IF thread[t].at = "task" THEN 0 ELSE 1)
    BY <1>3 DEF WaitEnd, ActiveAgain
  <2> QED
    BY <1>3, <2>1, LookBusy DEF WaitEnd
<1>4. ASSUME NEW t \in Threads, WaitLeave(t) \/ FinishBegin(t) \/ FinishEnd(t)
      PROVE  activeThreads' = Cardinality(Busy')
  BY <1>4, <1>m DEF WaitLeave, FinishBegin, FinishEnd, At, countVars
<1>5. ASSUME NEW t \in Threads, WaitStep(t) PROVE activeThreads' = Cardinality(Busy')
  BY <1>5, <1>u DEF WaitStep, countVars
<1>6. ASSUME NEW c \in Clients, QThreadStart(c) PROVE activeThreads' = Cardinality(Busy')
  <2>0. PICK t : t = client[c].thread
    OBVIOUS
  <2>1. t \in Threads /\ Launching(t) /\ UNCHANGED <<activeThreads, runnable>>
    BY <1>6, <1>t, <2>0 DEF QThreadStart, ClientsKnown, ClientState, Launching, countVars
  <2>2. runnable[t] # NoTask /\ thread[t].at # "task"
    BY <2>1 DEF PoolKnown, ExpiredKnown
  <2>3. CASE UNCHANGED thread
    BY <1>u, <2>1, <2>3
  <2>4. CASE \E state \in StartsRunning : thread' = [thread EXCEPT ![t] = state]
    BY <1>m, <2>1, <2>2, <2>4
  <2> QED
    BY <1>6, <2>0, <2>3, <2>4 DEF QThreadStart
<1>7. ASSUME NEW c \in Clients, TryToStartMoreThreads(c)
      PROVE  activeThreads' = Cardinality(Busy')
  <2>1. ~isExiting
    BY <1>7, <1>t, HeldNoReset DEF TryToStartMoreThreads, ClientsKnown, PoolKnown
  <2>2. CASE UNCHANGED <<activeThreads, thread, runnable>>
    BY <1>u, <2>2
  <2>3. CASE queue # <<>> /\ TryStartTask(c, Head(queue).task, TRUE)
    BY <1>t, <2>1, <2>3, FirstTask, TryStartBusy
  <2> QED
    BY <1>7, <2>2, <2>3 DEF TryToStartMoreThreads
<1>8. ASSUME NEW c \in Clients,
             StealEnd(c) \/ WaitForDoneWoken(c) \/ ResetEnd(c) \/ Reset(c) \/ WaitCall(c)
      PROVE  activeThreads' = Cardinality(Busy')
  BY <1>8, <1>u DEF StealEnd, WaitForDoneWoken, WaitCall, WaitForDone, WaitForDoneExpired, Looks,
                    ResetEnd, Reset, countVars
<1>9. ASSUME NEW c \in Clients, NEW t \in Threads, Join(c, t)
      PROVE  activeThreads' = Cardinality(Busy')
  <2>1. /\ client[c].at = "join" /\ thread[t].at = "done" /\ UNCHANGED activeThreads
        /\ thread' = [thread EXCEPT ![t] = At("none")]
        /\ runnable' = [runnable EXCEPT ![t] = NoTask]
    BY <1>9 DEF Join, countVars
  <2>2. mutex = Free
    BY <2>1 DEF PoolKnown, ResetKnown
  <2>3. \A d \in Clients : client[d].thread # t
    BY <1>t, <2>2, PoolAssumption DEF ClientsKnown, Clients
  <2>4. runnable[t] = NoTask
    BY <2>1, <2>3 DEF Lost
  <2>5. \A u \in Threads : u \in Busy' <=> u \in Busy
    BY <1>t, <2>1, <2>4, BusyIsSet DEF At
  <2> QED
    BY <2>1, <2>5, BusySame
<1>10. ASSUME NEW c \in Clients, Call(c) PROVE activeThreads' = Cardinality(Busy')
  <2>1. ASSUME NEW task \in Tasks, TryStart(c, task) PROVE activeThreads' = Cardinality(Busy')
    BY <2>1, TryStartBusy DEF TryStart, MayStart, MayLaunch
  <2>2. CASE ~\E task \in Tasks : TryStart(c, task)
    BY <1>10, <1>u, <2>2 DEF Call, Queue, SetMaxThreadCount, ReserveThread, ReleaseThread,
                             StealRunnable, countVars
  <2> QED
    BY <2>1, <2>2
<1>11. CASE UNCHANGED vars
  BY <1>11, <1>u DEF vars, countVars
<1> QED
  BY <1>1, <1>2, <1>3, <1>4, <1>5, <1>6, <1>7, <1>8, <1>9, <1>10, <1>11, NextCases

-----------------------------------------------------------------------------
(* The limit                                                               *)

\* As many threads have expired as the list is long.
LEMMA ExpiredCount ==
  ASSUME expiredThreads \in Seq(Threads), ExpiredKnown
  PROVE  Cardinality(ExpiredSet) = Len(expiredThreads) /\ Len(expiredThreads) \in Nat
         /\ ExpiredSet \in SUBSET Threads
<1> DEFINE D == 1 .. Len(expiredThreads)
<1>1. Len(expiredThreads) \in Nat /\ DOMAIN expiredThreads = D
      /\ expiredThreads \in [D -> Threads]
  OBVIOUS
<1>2. IsFiniteSet(D) /\ Cardinality(D) = Len(expiredThreads)
  BY <1>1, FS_Interval
<1>3. expiredThreads \in [D -> ExpiredSet]
  BY <1>1 DEF ExpiredSet
<1>4. \A i, j \in D : expiredThreads[i] = expiredThreads[j] => i = j
  BY <1>1 DEF ExpiredKnown
<1>5. ExpiredSet \in SUBSET Threads
  BY <1>1 DEF ExpiredSet
<1>6. Cardinality(D) <= Cardinality(ExpiredSet)
  BY <1>3, <1>4, <1>5, ThreadSet, NotMore
<1>7. expiredThreads \in Surjection(D, ExpiredSet)
  BY <1>1, <1>3 DEF ExpiredSet, Surjection
<1> HIDE DEF D
<1>8. Cardinality(ExpiredSet) <= Cardinality(D)
  BY <1>2, <1>7, FS_Surjection
<1>9. Cardinality(ExpiredSet) \in Nat
  BY <1>5, ThreadSet
<1> QED
  BY <1>1, <1>2, <1>5, <1>6, <1>8, <1>9

\* The threads that are busy are among those of the pool that have not expired.
LEMMA BusyAreActive ==
  ASSUME Shape, PoolKnown, ~isExiting
  PROVE  /\ Busy \subseteq allThreads
         /\ Cardinality(Busy) <= Cardinality(allThreads) - Len(expiredThreads)
         /\ Cardinality(Busy) \in Nat /\ Cardinality(allThreads) \in Nat
         /\ Len(expiredThreads) \in Nat
<1>t. ClientsKnown /\ allThreads \in SUBSET Threads /\ expiredThreads \in Seq(Threads)
  BY DEF Shape, PoolTypes
<1>1. Busy \subseteq allThreads \ ExpiredSet
  <2> SUFFICES ASSUME NEW t \in Busy PROVE t \in allThreads /\ t \notin ExpiredSet
    OBVIOUS
  <2>1. t \in Threads /\ (runnable[t] # NoTask \/ thread[t].at = "task")
    BY BusyIsSet
  <2>2. thread[t].at # "none"
    BY <2>1 DEF PoolKnown, ExpiredKnown
  <2>3. t \in allThreads
    BY <1>t, <2>1, <2>2, NoReset DEF PoolKnown, ResetKnown
  <2>4. t \notin ExpiredSet
    BY <2>1 DEF PoolKnown, ExpiredKnown
  <2> QED
    BY <2>3, <2>4
<1>2. /\ Cardinality(ExpiredSet) = Len(expiredThreads) /\ Len(expiredThreads) \in Nat
      /\ ExpiredSet \subseteq allThreads
  BY <1>t, ExpiredCount DEF PoolKnown, ResetKnown
<1>3. IsFiniteSet(allThreads) /\ allThreads \cap ExpiredSet = ExpiredSet
  BY <1>t, <1>2, ThreadSet
<1>4. Cardinality(allThreads \ ExpiredSet)
        = Cardinality(allThreads) - Cardinality(allThreads \cap ExpiredSet)
  BY <1>3, FS_Difference
<1>5. Cardinality(allThreads \cap ExpiredSet) = Len(expiredThreads)
  BY <1>2, <1>3
<1>6. /\ Cardinality(Busy) <= Cardinality(allThreads \ ExpiredSet)
      /\ Cardinality(Busy) \in Nat /\ Cardinality(allThreads) \in Nat
  <2>1. allThreads \ ExpiredSet \in SUBSET Threads /\ Busy \in SUBSET (allThreads \ ExpiredSet)
    BY <1>t, <1>1
  <2>2. Busy \in SUBSET Threads
    BY BusyIsSet
  <2>3. Cardinality(Busy) <= Cardinality(allThreads \ ExpiredSet)
    BY <2>1, FewerThreads
  <2> QED
    BY <1>t, <2>2, <2>3, ThreadSet
<1> QED
  BY <1>1, <1>2, <1>4, <1>5, <1>6

\* Only tryStart gives a thread something to run.
LEMMA GivenByTryStart ==
  ASSUME Shape, PoolKnown, [Next]_vars,
         NEW t \in Threads, runnable[t] = NoTask, runnable'[t] # NoTask
  PROVE  /\ ~isExiting
         /\ \E c \in Clients, task \in Tasks, more \in BOOLEAN :
              TryStartTask(c, task, more) /\ ~RecycleThread(task, more)
<1>t. /\ ClientsKnown /\ queue \in Seq(Entry) /\ runnable \in [Threads -> Tasks \cup {NoTask}]
  BY DEF Shape, PoolTypes
<1>r. \A c, task, more : RecycleThread(task, more) => UNCHANGED runnable
  BY DEF RecycleThread
<1>1. ~UNCHANGED runnable
  OBVIOUS
<1>2. ~\E u \in Threads : runnable' = [runnable EXCEPT ![u] = NoTask]
  BY <1>t
<1>3. ~\E u \in Threads : \/ RunBegin(u) \/ TaskEnd(u) \/ WaitLeave(u) \/ WaitEnd(u)
                          \/ FinishBegin(u) \/ FinishEnd(u) \/ WaitStep(u)
  BY <1>1, <1>2 DEF RunBegin, TaskEnd, WaitLeave, WaitEnd, FinishBegin, FinishEnd, WaitStep
<1>4. ASSUME NEW c \in Clients PROVE ~QThreadStart(c) /\ ~StealEnd(c) /\ ~WaitForDoneWoken(c)
  BY <1>1 DEF QThreadStart, StealEnd, WaitForDoneWoken, Looks
<1>5. ASSUME NEW c \in Clients PROVE ~Reset(c) /\ ~ResetEnd(c) /\ ~WaitCall(c)
  BY <1>1 DEF Reset, ResetEnd, WaitCall, WaitForDone, WaitForDoneExpired, Looks
<1>6. ASSUME NEW c \in Clients, NEW u \in Threads PROVE ~Join(c, u)
  BY <1>2 DEF Join
<1>7. ASSUME NEW c \in Clients, TryToStartMoreThreads(c)
      PROVE  /\ ~isExiting
             /\ \E task \in Tasks, more \in BOOLEAN :
                  TryStartTask(c, task, more) /\ ~RecycleThread(task, more)
  <2>1. ~isExiting
    BY <1>7, <1>t, HeldNoReset DEF TryToStartMoreThreads, ClientsKnown, PoolKnown
  <2>2. queue # <<>> /\ TryStartTask(c, Head(queue).task, TRUE)
    BY <1>1, <1>7 DEF TryToStartMoreThreads
  <2>3. Head(queue).task \in Tasks
    BY <1>t, <2>2, FirstTask
  <2> QED
    BY <1>1, <1>r, <2>1, <2>2, <2>3
<1>8. ASSUME NEW c \in Clients, Call(c)
      PROVE  /\ ~isExiting
             /\ \E task \in Tasks, more \in BOOLEAN :
                  TryStartTask(c, task, more) /\ ~RecycleThread(task, more)
  <2>1. \E task \in Tasks : TryStart(c, task)
    BY <1>1, <1>8 DEF Call, Queue, SetMaxThreadCount, ReserveThread, ReleaseThread, StealRunnable
  <2> QED
    BY <1>1, <1>r, <2>1 DEF TryStart, MayStart, MayLaunch
<1>9. ~UNCHANGED vars
  BY <1>1 DEF vars
<1> QED
  BY <1>3, <1>4, <1>5, <1>6, <1>7, <1>8, <1>9, NextCases

\* A thread is given a task only while the limit allows it, or while none is busy.
LEMMA LimitStep ==
  ASSUME Shape, NoOverlap, [Next]_vars, NEW t \in Threads,
         runnable[t] = NoTask, runnable'[t] # NoTask, "overlapped" \notin mishaps
  PROVE  Busy = {} \/ Cardinality(Busy) + reservedThreads < maxThreadCount
<1>1. PoolKnown /\ ~isExiting
  BY GivenByTryStart DEF NoOverlap
<1>2. PICK c \in Clients, task \in Tasks, more \in BOOLEAN :
        TryStartTask(c, task, more) /\ ~RecycleThread(task, more)
  BY <1>1, GivenByTryStart
<1>3. /\ Busy \subseteq allThreads
      /\ Cardinality(Busy) <= Cardinality(allThreads) - Len(expiredThreads)
      /\ Cardinality(Busy) \in Nat /\ Cardinality(allThreads) \in Nat
      /\ Len(expiredThreads) \in Nat
  BY <1>1, BusyAreActive
<1>4. waitingThreads \in Int /\ reservedThreads \in Int /\ maxThreadCount \in Int
  BY PoolAssumption DEF Shape, PoolTypes
<1>5. CASE allThreads = {}
  BY <1>3, <1>5
<1>6. CASE ~AtLimit /\ waitingThreads <= 0
  <2>1. ActiveThreadCount < maxThreadCount
    BY <1>3, <1>4, <1>6 DEF AtLimit, ActiveThreadCount
  <2>2. Cardinality(Busy) + reservedThreads <= ActiveThreadCount
    BY <1>3, <1>4, <1>6 DEF ActiveThreadCount
  <2>3. ActiveThreadCount \in Int
    BY <1>3, <1>4 DEF ActiveThreadCount
  <2> QED
    BY <1>3, <1>4, <2>1, <2>2, <2>3
<1> QED
  BY <1>2, <1>5, <1>6 DEF TryStartTask

-----------------------------------------------------------------------------
(* The mishaps                                                             *)

\* What has not been remembered has not happened.
MishapsKnown ==
  /\ "lost" \notin mishaps => ~Lost
  /\ "overlapped" \notin mishaps => ~Overlapped

\* Every step remembers what goes wrong.
LEMMA MishapsStep ==
  ASSUME MishapsKnown, [Next]_vars
  PROVE  MishapsKnown'
<1>1. CASE Next
  BY <1>1, NextCases, Remembered DEF MishapsKnown
<1>2. CASE UNCHANGED vars
  BY <1>2 DEF vars, countVars, MishapsKnown, Lost, Overlapped
<1> QED
  BY <1>1, <1>2

-----------------------------------------------------------------------------
(* A thread of the pool that does not run has expired, or is being started *)

Stopped(t) == thread[t].at \in {"left", "finish", "done"}
StoppedKnown == \A t \in allThreads : Stopped(t) => t \in ExpiredSet \/ Launching(t)
Finished == mishaps \cap {"lost", "overlapped"} = {} => StoppedKnown

\* A client that was starting no thread leaves those that start one alone.
LEMMA LaunchingKept ==
  ASSUME client \in [Clients -> ClientState], NEW c \in Clients, client[c].at # "launch",
         NEW s, Becomes(c, s), NEW t, Launching(t)
  PROVE  Launching(t)'
<1>1. \A d \in Clients : d # c => client'[d] = client[d]
  BY DEF Becomes
<1>2. PICK d \in Clients : client[d].at = "launch" /\ client[d].thread = t
  BY DEF Launching
<1> QED
  BY <1>1, <1>2 DEF Launching

\* No other thread stops.
LEMMA StoppedKept ==
  ASSUME StoppedKnown, allThreads' = allThreads,
         \A t \in allThreads : Launching(t) => Launching(t)',
         \A t \in allThreads : Stopped(t)' => Stopped(t) \/ t \in ExpiredSet',
         ExpiredSet \subseteq ExpiredSet'
  PROVE  StoppedKnown'
BY DEF StoppedKnown

\* A thread that looks for work in vain has expired.
LEMMA LookStopped ==
  ASSUME Shape, PoolKnown, StoppedKnown, mutex = Free, NEW t \in Threads, NEW active, NEW ready,
         LookForWork(t, active, ready) \/ Expires(t, active), UNCHANGED allThreads
  PROVE  StoppedKnown'
<1>t. thread \in [Threads -> ThreadState] /\ ClientsKnown /\ allThreads \subseteq Threads
      /\ expiredThreads \in Seq(Threads)
  BY DEF Shape, PoolTypes
<1>l. \A u \in allThreads : ~Launching(u)
  BY <1>t, FreeKnown
<1>1. ASSUME NEW s, thread' = [thread EXCEPT ![t] = s], ExpiredSet \subseteq ExpiredSet',
             s.at \in {"task", "idle"} \/ t \in ExpiredSet'
      PROVE  StoppedKnown'
  <2>1. thread'[t] = s /\ \A u \in Threads : u # t => thread'[u] = thread[u]
    BY <1>1, <1>t
  <2>2. \A u \in allThreads : Stopped(u)' => Stopped(u) \/ u \in ExpiredSet'
    BY <1>1, <1>t, <2>1 DEF Stopped
  <2> QED
    BY <1>1, <1>l, <2>2, StoppedKept
<1>2. CASE Takes(t, active, ready)
  <2> DEFINE s == Runs(Head(queue).task)
  <2>1. thread' = [thread EXCEPT ![t] = s] /\ s.at = "task" /\ UNCHANGED expiredThreads
    BY <1>2 DEF Takes, Runs
  <2> HIDE DEF s
  <2>2. ExpiredSet' = ExpiredSet
    BY <2>1 DEF ExpiredSet
  <2> QED
    BY <1>1, <2>1, <2>2
<1>3. CASE Exits(t, active, ready)
  BY <1>3 DEF Exits, PoolKnown, ResetKnown, StoppedKnown
<1>4. CASE Expires(t, active)
  <2>1. ExpiredSet' = ExpiredSet \cup {t}
    BY <1>4, <1>t, ExpiredMore DEF Expires
  <2> QED
    BY <1>1, <1>4, <2>1 DEF Expires, Leaves_run
<1>5. CASE Idles(t, active, ready)
  <2>1. ExpiredSet' = ExpiredSet
    BY <1>5 DEF Idles, ExpiredSet
  <2> QED
    BY <1>1, <1>5, <2>1 DEF Idles, At
<1> QED
  BY <1>2, <1>3, <1>4, <1>5, LookCases DEF TooMany

\* tryStart starts the thread it makes, or takes out of the expired ones.
LEMMA TryStartStopped ==
  ASSUME Shape, PoolKnown, StoppedKnown, NEW c \in Clients, client[c].at # "launch", NEW more,
         NEW task, TryStartTask(c, task, more)
  PROVE  StoppedKnown'
<1>t. /\ thread \in [Threads -> ThreadState] /\ allThreads \subseteq Threads
      /\ client \in [Clients -> ClientState] /\ expiredThreads \in Seq(Threads)
  BY DEF Shape, PoolTypes
<1>1. ASSUME NEW t \in Threads, Launches(c, t, more), allThreads' \subseteq allThreads \cup {t},
             \A u \in Threads : u # t => thread'[u] = thread[u],
             ExpiredSet \ {t} \subseteq ExpiredSet'
      PROVE  StoppedKnown'
  <2> DEFINE s == [User EXCEPT !.at = "launch", !.thread = t, !.flag = more]
  <2>1. s.at = "launch" /\ s.thread = t /\ Becomes(c, s)
    BY <1>1 DEF User, Launches
  <2> HIDE DEF s
  <2>2. client'[c] = s /\ \A u \in Threads : Launching(u) => Launching(u)'
    BY <1>t, <2>1, LaunchingKept DEF Becomes
  <2>3. Launching(t)'
    BY <2>1, <2>2 DEF Launching
  <2>4. \A u \in Threads : u # t => (Stopped(u)' <=> Stopped(u))
    BY <1>1 DEF Stopped
  <2> QED
    BY <1>1, <1>t, <2>2, <2>3, <2>4 DEF StoppedKnown
<1>2. CASE StartThread(c, task, more)
  <2>1. PICK t \in Threads : /\ thread' = [thread EXCEPT ![t] = At("done")]
                             /\ allThreads' = allThreads \cup {t} /\ Launches(c, t, more)
    BY <1>2 DEF StartThread
  <2>2. ExpiredSet' = ExpiredSet
    BY <1>2 DEF StartThread, ExpiredSet
  <2> QED
    BY <1>1, <1>t, <2>1, <2>2
<1>3. CASE RestartThread(c, task, more) /\ expiredThreads # <<>>
  <2>0. PICK t : t = Head(expiredThreads)
    OBVIOUS
  <2>1. t \in Threads /\ Launches(c, t, more) /\ UNCHANGED <<allThreads, thread>>
    BY <1>3, <1>t, <2>0, HeadTailProperties DEF RestartThread
  <2>2. ExpiredSet' = ExpiredSet \ {t}
    BY <1>3, <1>t, <2>0, ExpiredLess DEF RestartThread, PoolKnown
  <2> QED
    BY <1>1, <2>1, <2>2
<1>4. CASE RecycleThread(task, more)
  BY <1>4 DEF RecycleThread, StoppedKnown, Stopped, Launching, ExpiredSet
<1> QED
  BY <1>2, <1>3, <1>4 DEF TryStartTask

\* A thread that was started, and neither starts nor is lost, does not exist.
LEMMA StartStopped ==
  ASSUME Shape, PoolKnown, StoppedKnown, ~Lost', NEW c \in Clients, QThreadStart(c)
  PROVE  StoppedKnown'
<1>t. /\ thread \in [Threads -> ThreadState] /\ allThreads \subseteq Threads
      /\ client \in [Clients -> ClientState] /\ ClientsKnown
  BY DEF Shape, PoolTypes
<1>0. PICK t : t = client[c].thread
  OBVIOUS
<1>1. /\ t \in Threads /\ Launching(t) /\ mutex = c
      /\ UNCHANGED <<allThreads, expiredThreads, runnable>>
  BY <1>t, <1>0 DEF QThreadStart, ClientsKnown, ClientState, Launching, listVars
<1>2. PICK s : Becomes(c, s) /\ s.thread = NoThread
  BY DEF QThreadStart, User
<1>3. \A d \in Clients : d # c => client[d].at # "launch"
  BY <1>t, <1>1, OneLaunches
<1>4. \A d \in Clients : client'[d].thread = NoThread
  <2>1. client'[c] = s /\ \A d \in Clients : d # c => client'[d] = client[d]
    BY <1>t, <1>2 DEF Becomes
  <2> QED
    BY <1>t, <1>2, <1>3, <2>1 DEF ClientsKnown
<1>5. runnable'[t] # NoTask
  BY <1>1 DEF PoolKnown, ExpiredKnown
<1>6. thread'[t].at = "start"
  BY <1>1, <1>4, <1>5, PoolAssumption DEF Lost
<1>7. \A u \in Threads : u # t => thread'[u] = thread[u] /\ ~Launching(u)
  <2>1. \A u \in Threads : u # t => thread'[u] = thread[u]
    BY <1>0, <1>t DEF QThreadStart
  <2>2. \A u \in Threads : u # t => ~Launching(u)
    BY <1>0, <1>3 DEF Launching
  <2> QED
    BY <2>1, <2>2
<1>8. ExpiredSet' = ExpiredSet
  BY <1>1 DEF ExpiredSet
<1> QED
  BY <1>1, <1>6, <1>7, <1>8, <1>t DEF StoppedKnown, Stopped

\* So it is of every step, until a task is lost or resets overlap.
LEMMA StoppedStep ==
  ASSUME Shape, PoolKnown, StoppedKnown, ~Lost', Next
  PROVE  StoppedKnown'
<1>t. /\ thread \in [Threads -> ThreadState] /\ allThreads \subseteq Threads
      /\ client \in [Clients -> ClientState] /\ ClientsKnown /\ queue \in Seq(Entry)
  BY DEF Shape, PoolTypes
<1>u. ASSUME UNCHANGED <<allThreads, expiredThreads>>,
             \A t \in allThreads : Stopped(t)' => Stopped(t),
             \A t \in allThreads : Launching(t) => Launching(t)'
      PROVE  StoppedKnown'
  BY <1>u, StoppedKept DEF ExpiredSet
<1>k. ASSUME UNCHANGED thread PROVE \A t \in allThreads : Stopped(t)' => Stopped(t)
  BY <1>k DEF Stopped
<1>l. ASSUME UNCHANGED client PROVE \A t \in allThreads : Launching(t) => Launching(t)'
  BY <1>l DEF Launching
<1>b. ASSUME NEW c \in Clients, client[c].at # "launch", NEW s, Becomes(c, s)
      PROVE  \A t \in allThreads : Launching(t) => Launching(t)'
  BY <1>b, <1>t, LaunchingKept
<1>1. ASSUME NEW t \in Threads, \/ RunBegin(t) \/ WaitLeave(t) \/ FinishBegin(t)
                                \/ FinishEnd(t) \/ WaitStep(t)
      PROVE  StoppedKnown'
  <2>1. UNCHANGED <<allThreads, expiredThreads, client>>
    BY <1>1 DEF RunBegin, WaitLeave, FinishBegin, FinishEnd, WaitStep, listVars
  <2>2. CASE RunBegin(t)
    <3>1. PICK s : s = Runs(runnable[t])
      OBVIOUS
    <3>2. s.at = "task" /\ thread' = [thread EXCEPT ![t] = s]
      BY <2>2, <3>1 DEF RunBegin, Runs
    <3>3. \A u \in allThreads : Stopped(u)' => Stopped(u)
      BY <1>t, <3>2 DEF Stopped
    <3> QED
      BY <1>l, <1>u, <2>1, <3>3
  <2>3. CASE WaitLeave(t) \/ FinishBegin(t) \/ FinishEnd(t)
    <3>1. \A u \in allThreads : Stopped(u)' => Stopped(u)
      BY <1>t, <2>3 DEF WaitLeave, FinishBegin, FinishEnd, Stopped, At
    <3> QED
      BY <1>l, <1>u, <2>1, <3>1
  <2>4. CASE WaitStep(t)
    BY <1>k, <1>l, <1>u, <2>1, <2>4 DEF WaitStep
  <2> QED
    BY <1>1, <2>2, <2>3, <2>4
<1>2. ASSUME NEW t \in Threads, TaskEnd(t) \/ WaitEnd(t)
      PROVE  StoppedKnown'
  BY <1>2, LookStopped DEF TaskEnd, WaitEnd
<1>3. ASSUME NEW c \in Clients, TryToStartMoreThreads(c)
      PROVE  StoppedKnown'
  <2>1. CASE UNCHANGED <<listVars, thread>> /\ Becomes(c, User)
    BY <1>3, <1>b, <1>k, <1>u, <2>1 DEF TryToStartMoreThreads, listVars
  <2>2. CASE TryStartTask(c, Head(queue).task, TRUE)
    BY <1>3, <2>2, TryStartStopped DEF TryToStartMoreThreads
  <2> QED
    BY <1>3, <2>1, <2>2 DEF TryToStartMoreThreads
<1>4. ASSUME NEW c \in Clients, StealEnd(c) \/ WaitForDoneWoken(c) \/ WaitCall(c)
      PROVE  StoppedKnown'
  <2>1. UNCHANGED <<allThreads, expiredThreads, thread>> /\ client[c].at # "launch"
    BY <1>4 DEF StealEnd, WaitForDoneWoken, WaitCall, WaitForDone, WaitForDoneExpired, Looks,
                Calls, listVars
  <2>2. \E s : Becomes(c, s)
    BY <1>4 DEF StealEnd, WaitForDoneWoken, WaitCall, WaitForDone, WaitForDoneExpired, Looks
  <2> QED
    BY <1>b, <1>k, <1>u, <2>1, <2>2
<1>5. ASSUME NEW c \in Clients, Reset(c) \/ ResetEnd(c)
      PROVE  StoppedKnown'
  <2>1. allThreads' = {}
    BY <1>5 DEF Reset, ResetEnd
  <2> QED
    BY <2>1 DEF StoppedKnown
<1>6. ASSUME NEW c \in Clients, NEW t \in Threads, Join(c, t)
      PROVE  StoppedKnown'
  <2>1. allThreads' = {}
    BY <1>6 DEF Join, PoolKnown, ResetKnown, listVars
  <2> QED
    BY <2>1 DEF StoppedKnown
<1>7. ASSUME NEW c \in Clients, Call(c)
      PROVE  StoppedKnown'
  <2>1. ASSUME NEW task \in Tasks, TryStart(c, task) PROVE StoppedKnown'
    BY <2>1, TryStartStopped DEF TryStart, MayStart, MayLaunch, Calls
  <2>2. ASSUME NEW task, NEW p, Queue(c, task, p) PROVE StoppedKnown'
    BY <2>2, <1>k, <1>l, <1>u DEF Queue
  <2>3. CASE ReserveThread(c)
    BY <2>3, <1>k, <1>l, <1>u DEF ReserveThread, listVars
  <2>4. ASSUME NEW n, SetMaxThreadCount(c, n) \/ ReleaseThread(c) \/ StealRunnable(c, n)
        PROVE  StoppedKnown'
    <3>1. UNCHANGED <<allThreads, expiredThreads, thread>> /\ client[c].at # "launch"
      BY <2>4 DEF SetMaxThreadCount, ReleaseThread, StealRunnable, MayLaunch, Calls, listVars
    <3>2. \E s : Becomes(c, s)
      BY <2>4 DEF SetMaxThreadCount, ReleaseThread, StealRunnable
    <3> QED
      BY <1>b, <1>k, <1>u, <3>1, <3>2
  <2> QED
    BY <1>7, <2>1, <2>2, <2>3, <2>4 DEF Call
<1> QED
  BY <1>1, <1>2, <1>3, <1>4, <1>5, <1>6, <1>7, NextCases, StartStopped

\* Every step keeps it known.
LEMMA FinishedStep ==
  ASSUME Shape, NoOverlap, Finished, [Next]_vars
  PROVE  Finished'
<1>1. CASE Next
  <2> SUFFICES ASSUME mishaps' \cap {"lost", "overlapped"} = {} PROVE StoppedKnown'
    BY DEF Finished
  <2>1. mishaps \subseteq mishaps' /\ ~Lost'
    BY <1>1, NextCases, Remembered
  <2> QED
    BY <1>1, <2>1, StoppedStep DEF Finished, NoOverlap
<1>2. CASE UNCHANGED vars
  BY <1>2 DEF vars, listVars, Finished, StoppedKnown, Stopped, ExpiredSet, Launching
<1> QED
  BY <1>1, <1>2

-----------------------------------------------------------------------------
(* Threads that are back from the condition: called by wakeOne, or late    *)

Called == {t \in Threads : thread[t].at = "called"}
Late == {t \in Threads : thread[t].at = "late"}

\* A thread moves that is neither, nor will be.
LEMMA BackKept ==
  ASSUME thread \in [Threads -> ThreadState], NEW t \in Threads,
         thread[t].at \notin {"called", "late"}, NEW s, s.at \notin {"called", "late"},
         thread' = [thread EXCEPT ![t] = s]
  PROVE  Called' = Called /\ Late' = Late
BY Moved DEF Called, Late

\* A thread that goes on from the wait is neither any more.
LEMMA BackLeft ==
  ASSUME thread \in [Threads -> ThreadState], NEW t \in Threads, NEW s,
         s.at \notin {"called", "late"}, thread' = [thread EXCEPT ![t] = s]
  PROVE  Called' = Called \ {t} /\ Late' = Late \ {t}
BY Moved DEF Called, Late

LEMMA LookBack ==
  ASSUME thread \in [Threads -> ThreadState], NEW t \in Threads, NEW active, NEW ready,
         LookForWork(t, active, ready)
  PROVE  Called' = Called \ {t} /\ Late' = Late \ {t}
<1>1. CASE Takes(t, active, ready)
  BY <1>1, BackLeft DEF Takes, Runs
<1>2. CASE Exits(t, active, ready)
  BY <1>2, BackLeft DEF Exits, Leaves_run, At
<1>3. CASE TooMany(t, active, ready)
  BY <1>3, BackLeft DEF TooMany, Expires, Leaves_run, At
<1>4. CASE Idles(t, active, ready)
  BY <1>4, BackLeft DEF Idles, At
<1> QED
  BY <1>1, <1>2, <1>3, <1>4, LookCases

\* A thread leaves the condition.
LEMMA LeaveBack ==
  ASSUME thread \in [Threads -> ThreadState], NEW t \in Threads, WaitLeave(t)
  PROVE  /\ t \notin Called /\ t \notin Late
         /\ t \in runnableReady.signalled => Called' = Called \cup {t} /\ Late' = Late
         /\ t \notin runnableReady.signalled => Late' = Late \cup {t} /\ Called' = Called
<1>1. PICK where : where = IF t \in runnableReady.signalled THEN "called" ELSE "late"
  OBVIOUS
<1>2. PICK s : s = At(where)
  OBVIOUS
<1>3. s.at = where /\ thread' = [thread EXCEPT ![t] = s] /\ thread[t].at = "idle"
  BY <1>1, <1>2 DEF At, WaitLeave
<1>4. thread'[t] = s /\ \A u \in Threads : u # t => thread'[u] = thread[u]
  BY <1>3
<1> QED
  BY <1>1, <1>3, <1>4 DEF Called, Late

\* The steps that leave both sets as they are
OtherStep ==
  \/ \E t \in Threads : RunBegin(t) \/ FinishBegin(t) \/ FinishEnd(t) \/ WaitStep(t)
  \/ \E c \in Clients :
       \/ QThreadStart(c) \/ TryToStartMoreThreads(c) \/ StealEnd(c)
       \/ WaitForDoneWoken(c) \/ Reset(c) \/ ResetEnd(c) \/ WaitCall(c) \/ Call(c)
       \/ \E t \in Threads : Join(c, t)

LEMMA BackSame ==
  ASSUME Shape, OtherStep
  PROVE  Called' = Called /\ Late' = Late
<1>t. thread \in [Threads -> ThreadState]
  BY DEF Shape, PoolTypes
<1>u. UNCHANGED thread => Called' = Called /\ Late' = Late
  BY DEF Called, Late
<1>s. ASSUME NEW c, NEW task, NEW more, TryStartTask(c, task, more)
      PROVE  Called' = Called /\ Late' = Late
  <2>1. CASE StartThread(c, task, more)
    BY <1>t, <2>1, BackKept DEF StartThread, At
  <2>2. CASE RestartThread(c, task, more) \/ RecycleThread(task, more)
    BY <1>u, <2>2 DEF RestartThread, RecycleThread
  <2> QED
    BY <1>s, <2>1, <2>2 DEF TryStartTask
<1>1. ASSUME NEW t \in Threads, RunBegin(t) PROVE Called' = Called /\ Late' = Late
  BY <1>1, <1>t, BackKept DEF RunBegin, Runs
<1>2. ASSUME NEW t \in Threads, FinishBegin(t) PROVE Called' = Called /\ Late' = Late
  BY <1>2, <1>t, BackKept DEF FinishBegin, At
<1>3. ASSUME NEW t \in Threads, FinishEnd(t) PROVE Called' = Called /\ Late' = Late
  BY <1>3, <1>t, BackKept DEF FinishEnd, At
<1>4. ASSUME NEW t \in Threads, WaitStep(t) PROVE Called' = Called /\ Late' = Late
  BY <1>4, <1>u DEF WaitStep
<1>5. ASSUME NEW c \in Clients, QThreadStart(c) PROVE Called' = Called /\ Late' = Late
  <2> DEFINE t == client[c].thread
  <2>1. t \in Threads
    BY <1>5 DEF QThreadStart, Shape, PoolTypes, ClientsKnown, ClientState
  <2>2. ASSUME NEW state \in StartsRunning, thread' = [thread EXCEPT ![t] = state],
               thread[t].at = "done"
        PROVE  Called' = Called /\ Late' = Late
    <3>1. state.at \notin {"called", "late"}
      BY <2>2 DEF StartsRunning, At
    <3> HIDE DEF t
    <3> QED
      BY <1>t, <2>1, <2>2, <3>1, BackKept
  <2> QED
    BY <1>5, <1>u, <2>2 DEF QThreadStart
<1>6. ASSUME NEW c \in Clients, TryToStartMoreThreads(c) PROVE Called' = Called /\ Late' = Late
  BY <1>6, <1>s, <1>u DEF TryToStartMoreThreads
<1>7. ASSUME NEW c \in Clients,
             StealEnd(c) \/ WaitForDoneWoken(c) \/ Reset(c) \/ ResetEnd(c) \/ WaitCall(c)
      PROVE  Called' = Called /\ Late' = Late
  <2>1. UNCHANGED thread
    BY <1>7 DEF StealEnd, WaitForDoneWoken, Looks, Reset, ResetEnd, WaitCall, WaitForDone,
                WaitForDoneExpired
  <2> QED
    BY <1>u, <2>1
<1>8. ASSUME NEW c \in Clients, NEW t \in Threads, Join(c, t)
      PROVE  Called' = Called /\ Late' = Late
  <2>1. PICK s : s = At("none")
    OBVIOUS
  <2>2. thread[t].at = "done" /\ s.at = "none" /\ thread' = [thread EXCEPT ![t] = s]
    BY <1>8, <2>1 DEF Join, At
  <2> QED
    BY <1>t, <2>2, BackKept
<1>9. ASSUME NEW c \in Clients, Call(c) PROVE Called' = Called /\ Late' = Late
  <2>1. ASSUME NEW task \in Tasks, TryStart(c, task) PROVE Called' = Called /\ Late' = Late
    BY <1>s, <2>1 DEF TryStart
  <2>2. ASSUME NEW task \in Tasks, NEW p \in Priorities, Queue(c, task, p) PROVE UNCHANGED thread
    BY <2>2 DEF Queue
  <2>3. ASSUME NEW n \in MaxThreadCounts, SetMaxThreadCount(c, n) PROVE UNCHANGED thread
    BY <2>3 DEF SetMaxThreadCount
  <2>4. ASSUME NEW n \in DOMAIN queue, StealRunnable(c, n) PROVE UNCHANGED thread
    BY <2>4 DEF StealRunnable
  <2>5. CASE ReserveThread(c) \/ ReleaseThread(c)
    BY <1>u, <2>5 DEF ReserveThread, ReleaseThread
  <2> QED
    BY <1>9, <1>u, <2>1, <2>2, <2>3, <2>4, <2>5 DEF Call
<1> QED
  BY <1>1, <1>2, <1>3, <1>4, <1>5, <1>6, <1>7, <1>8, <1>9 DEF OtherStep

-----------------------------------------------------------------------------
(* What the operations of the condition make of its numbers                *)

\* What a condition consists of
LEMMA ConditionParts ==
  ASSUME NEW c, NEW w, WaitedFor(c, w)
  PROVE  /\ c.signalled \in SUBSET Threads /\ c.asleep \in SUBSET Threads
         /\ c.expired \in SUBSET Threads /\ w \in SUBSET Threads
         /\ c.wakeups \in Nat /\ c.waiters \in Nat /\ Cardinality(c.signalled) \in Nat
         /\ Cardinality(w) = c.waiters /\ Cardinality(c.signalled) <= c.waiters
<1>1. /\ c.signalled \in SUBSET Threads /\ c.asleep \in SUBSET Threads
      /\ c.expired \in SUBSET Threads /\ w \in SUBSET Threads
      /\ c.wakeups \in Nat /\ c.waiters \in Nat
      /\ c.signalled \subseteq w
  BY DEF WaitedFor, ConditionOf
<1>2. Cardinality(c.signalled) <= Cardinality(w)
  BY <1>1, FewerThreads
<1>3. c.waiters = Cardinality(w) /\ Cardinality(c.signalled) \in Nat
  BY <1>1, ThreadSet DEF WaitedFor
<1> QED
  BY <1>1, <1>2, <1>3

\* wakeOne signals a thread if one sleeps; it counts a wake-up if it finds one
\* to wake, which is a waiter without one.
LEMMA WokenOneNumbers ==
  ASSUME NEW c, NEW w, WaitedFor(c, w), NEW d \in WokenOne(c)
  PROVE  /\ d.waiters = c.waiters
         /\ d.wakeups = IF c.wakeups < c.waiters THEN c.wakeups + 1 ELSE c.waiters
         /\ Cardinality(d.signalled) = Cardinality(c.signalled) + (IF c.asleep = {} THEN 0 ELSE 1)
         /\ ~(Cardinality(c.asleep \cup c.signalled) <= c.wakeups) =>
              c.wakeups < c.waiters /\ (c.asleep = {} => Cardinality(c.signalled) > c.wakeups)
<1>p. /\ c.signalled \in SUBSET Threads /\ c.asleep \in SUBSET Threads /\ w \in SUBSET Threads
      /\ c.wakeups \in Nat /\ c.waiters \in Nat /\ Cardinality(c.signalled) \in Nat
      /\ Cardinality(w) = c.waiters
      /\ c.asleep \cap c.signalled = {} /\ c.asleep \cup c.signalled \in SUBSET w
  BY ConditionParts DEF WaitedFor
<1>1. /\ d.waiters = c.waiters
      /\ d.wakeups = IF c.wakeups < c.waiters THEN c.wakeups + 1 ELSE c.waiters
      /\ \/ c.asleep = {} /\ d.signalled = c.signalled
         \/ \E t \in c.asleep : d.signalled = c.signalled \cup {t}
  BY WokenOneCases
<1>2. Cardinality(d.signalled) = Cardinality(c.signalled) + (IF c.asleep = {} THEN 0 ELSE 1)
  <2>1. CASE c.asleep = {}
    BY <1>1, <1>p, <2>1
  <2>2. CASE c.asleep # {}
    <3>1. PICK t \in c.asleep : d.signalled = c.signalled \cup {t}
      BY <1>1, <2>2
    <3>2. Cardinality(d.signalled) = Cardinality(c.signalled) + 1
      BY <1>p, <3>1, OneMore
    <3> QED
      BY <2>2, <3>2
  <2> QED
    BY <2>1, <2>2
<1>3. Cardinality(c.asleep \cup c.signalled) <= c.waiters
      /\ Cardinality(c.asleep \cup c.signalled) \in Nat
  BY <1>p, FewerThreads, ThreadSet
<1>4. c.asleep = {} => Cardinality(c.asleep \cup c.signalled) = Cardinality(c.signalled)
  <2>1. c.asleep = {} => c.asleep \cup c.signalled = c.signalled
    OBVIOUS
  <2> QED
    BY <2>1
<1> QED
  BY <1>1, <1>2, <1>3, <1>4, <1>p

\* wakeAll signals and counts all who wait.
LEMMA WokenAllNumbers ==
  ASSUME NEW c, NEW w, WaitedFor(c, w), NEW d, d = WokenAll(c)
  PROVE  /\ d.waiters = c.waiters /\ d.wakeups = c.waiters /\ d.asleep = {}
         /\ Cardinality(d.signalled) \in Nat
         /\ Cardinality(d.signalled) >= Cardinality(c.signalled)
         /\ Cardinality(d.signalled) <= c.waiters
<1>1. /\ d.waiters = c.waiters /\ d.wakeups = c.waiters /\ d.asleep = {}
      /\ d.signalled = c.signalled \cup c.asleep /\ WaitedFor(d, w)
  BY WokenAllCounted
<1>2. /\ d.signalled \in SUBSET Threads /\ Cardinality(d.signalled) \in Nat
      /\ Cardinality(d.signalled) <= d.waiters
  BY <1>1, ConditionParts
<1>3. Cardinality(c.signalled) <= Cardinality(d.signalled)
  BY <1>1, <1>2, FewerThreads
<1>4. Cardinality(c.signalled) \in Nat
  BY ConditionParts
<1> QED
  BY <1>1, <1>2, <1>3, <1>4

\* A thread that moves in the condition is signalled no more only if there is
\* no wake-up to take.
LEMMA StepsNumbers ==
  ASSUME NEW c, NEW w, WaitedFor(c, w), NEW t \in Threads, NEW d, Steps(c, t, d)
  PROVE  /\ d.waiters = c.waiters /\ d.wakeups = c.wakeups /\ Cardinality(d.signalled) \in Nat
         /\ Cardinality(d.signalled) >= Cardinality(c.signalled) \/ c.wakeups = 0
<1>p. /\ c.signalled \in SUBSET Threads /\ Cardinality(c.signalled) \in Nat
      /\ c.asleep \cap c.signalled = {}
  BY ConditionParts DEF WaitedFor
<1>1. /\ WaitedFor(d, w) /\ d.wakeups = c.wakeups /\ d.waiters = c.waiters
      /\ \/ d.signalled = c.signalled
         \/ t \in c.asleep /\ d.signalled = c.signalled \cup {t}
         \/ c.wakeups = 0
  BY StepsCounted
<1>2. Cardinality(d.signalled) \in Nat
  BY <1>1, ConditionParts
<1>3. CASE d.signalled = c.signalled
  BY <1>1, <1>3, <1>p
<1>4. CASE t \in c.asleep /\ d.signalled = c.signalled \cup {t}
  <2>1. Cardinality(d.signalled) = Cardinality(c.signalled) + 1
    BY <1>p, <1>4, OneMore
  <2> QED
    BY <1>1, <1>2, <1>p, <2>1
<1> QED
  BY <1>1, <1>2, <1>3, <1>4

\* A thread that leaves by a wake-up takes it along.
LEMMA LeftNumbers ==
  ASSUME NEW c, NEW w, WaitedFor(c, w), NEW t, Leaves(c, t), NEW d, d = Left(c, t)
  PROVE  /\ d.waiters = c.waiters - 1
         /\ t \in c.signalled => /\ d.wakeups = c.wakeups - 1
                                 /\ Cardinality(d.signalled) = Cardinality(c.signalled) - 1
         /\ t \notin c.signalled => d.wakeups = c.wakeups /\ d.signalled = c.signalled
<1>p. c.signalled \in SUBSET Threads /\ c.wakeups \in Nat
  BY ConditionParts
<1>1. /\ d.waiters = c.waiters - 1
      /\ d.wakeups = c.wakeups - (IF t \in c.signalled THEN 1 ELSE 0)
      /\ d.signalled = c.signalled \ {t}
  BY LeftCounted
<1>2. t \in c.signalled => Cardinality(c.signalled \ {t}) = Cardinality(c.signalled) - 1
  BY <1>p, OneLess
<1>3. t \notin c.signalled => c.signalled \ {t} = c.signalled
  OBVIOUS
<1> QED
  BY <1>1, <1>2, <1>3, <1>p

-----------------------------------------------------------------------------
(* waitingThreads covers the threads that no one has called                *)

\* It counts those that have timed out and are about to lock the pool's mutex,
\* and as many in the condition as have no wake-up, or have not been chosen.
Covered(c, late, n) ==
  n >= late + c.waiters - c.wakeups /\ n >= late + c.waiters - Cardinality(c.signalled)
WaitsCovered == Covered(runnableReady, Cardinality(Late), waitingThreads)

\* So it stays when a thread moves in the condition or leaves it,
LEMMA CoveredMoves ==
  ASSUME NEW c, NEW w, WaitedFor(c, w), NEW late \in Nat, NEW n \in Int, Covered(c, late, n),
         NEW t \in Threads, NEW d
  PROVE  /\ Steps(c, t, d) => Covered(d, late, n)
         /\ d = Sleep(c, t) => Covered(d, late, n + 1)
         /\ Leaves(c, t) /\ d = Left(c, t) =>
              Covered(d, IF t \in c.signalled THEN late ELSE late + 1, n)
<1>p. c.wakeups \in Nat /\ c.waiters \in Nat /\ Cardinality(c.signalled) \in Nat
  BY ConditionParts
<1>n. n >= late + c.waiters - c.wakeups /\ n >= late + c.waiters - Cardinality(c.signalled)
  BY DEF Covered
<1>1. ASSUME Steps(c, t, d) PROVE Covered(d, late, n)
  <2>1. /\ d.waiters = c.waiters /\ d.wakeups = c.wakeups /\ Cardinality(d.signalled) \in Nat
        /\ Cardinality(d.signalled) >= Cardinality(c.signalled) \/ c.wakeups = 0
    BY <1>1, StepsNumbers
  <2> QED
    BY <1>n, <1>p, <2>1 DEF Covered
<1>2. ASSUME d = Sleep(c, t) PROVE Covered(d, late, n + 1)
  <2>1. d.waiters = c.waiters + 1 /\ d.wakeups = c.wakeups /\ d.signalled = c.signalled
    BY <1>2 DEF Sleep, WaitedFor, ConditionOf
  <2> QED
    BY <1>n, <1>p, <2>1 DEF Covered
<1>3. ASSUME Leaves(c, t), d = Left(c, t)
      PROVE  Covered(d, IF t \in c.signalled THEN late ELSE late + 1, n)
  <2>1. /\ d.waiters = c.waiters - 1
        /\ t \in c.signalled => /\ d.wakeups = c.wakeups - 1
                                /\ Cardinality(d.signalled) = Cardinality(c.signalled) - 1
        /\ t \notin c.signalled => d.wakeups = c.wakeups /\ d.signalled = c.signalled
    BY <1>3, LeftNumbers
  <2>2. CASE t \in c.signalled
    BY <1>n, <1>p, <2>1, <2>2 DEF Covered
  <2>3. CASE t \notin c.signalled
    BY <1>n, <1>p, <2>1, <2>3 DEF Covered
  <2> QED
    BY <2>2, <2>3
<1> QED
  BY <1>1, <1>2, <1>3

\* and when threads are called; tryStart, which counts one less, finds one.
LEMMA CoveredWoken ==
  ASSUME NEW c, NEW w, WaitedFor(c, w), NEW late \in Nat, NEW n \in Int, Covered(c, late, n), NEW d
  PROVE  /\ d \in WokenOne(c) => Covered(d, late, n)
         /\ d \in WokenOne(c) /\ ~(Cardinality(c.asleep \cup c.signalled) <= c.wakeups)
              => Covered(d, late, n - 1)
         /\ d = WokenAll(c) => Covered(d, late, n)
<1>p. /\ c.wakeups \in Nat /\ c.waiters \in Nat /\ Cardinality(c.signalled) \in Nat
      /\ Cardinality(c.signalled) <= c.waiters
  BY ConditionParts
<1>n. n >= late + c.waiters - c.wakeups /\ n >= late + c.waiters - Cardinality(c.signalled)
  BY DEF Covered
<1>1. ASSUME d \in WokenOne(c)
      PROVE  /\ Covered(d, late, n)
             /\ ~(Cardinality(c.asleep \cup c.signalled) <= c.wakeups) => Covered(d, late, n - 1)
  <2>1. /\ d.waiters = c.waiters
        /\ d.wakeups = IF c.wakeups < c.waiters THEN c.wakeups + 1 ELSE c.waiters
        /\ Cardinality(d.signalled) = Cardinality(c.signalled) + (IF c.asleep = {} THEN 0 ELSE 1)
        /\ ~(Cardinality(c.asleep \cup c.signalled) <= c.wakeups) =>
             c.wakeups < c.waiters /\ (c.asleep = {} => Cardinality(c.signalled) > c.wakeups)
    BY <1>1, WokenOneNumbers
  <2>2. Covered(d, late, n)
    BY <1>n, <1>p, <2>1 DEF Covered
  <2>3. ASSUME ~(Cardinality(c.asleep \cup c.signalled) <= c.wakeups)
        PROVE  Covered(d, late, n - 1)
    <3>1. c.wakeups < c.waiters /\ (c.asleep = {} => Cardinality(c.signalled) > c.wakeups)
      BY <2>1, <2>3
    <3>2. d.wakeups = c.wakeups + 1
      BY <2>1, <3>1
    <3>3. CASE c.asleep = {}
      BY <1>n, <1>p, <2>1, <3>1, <3>2, <3>3 DEF Covered
    <3>4. CASE c.asleep # {}
      BY <1>n, <1>p, <2>1, <3>2, <3>4 DEF Covered
    <3> QED
      BY <3>3, <3>4
  <2> QED
    BY <2>2, <2>3
<1>2. ASSUME d = WokenAll(c) PROVE Covered(d, late, n)
  <2>1. /\ d.waiters = c.waiters /\ d.wakeups = c.waiters /\ Cardinality(d.signalled) \in Nat
        /\ Cardinality(d.signalled) >= Cardinality(c.signalled)
    BY <1>2, WokenAllNumbers
  <2> QED
    BY <1>n, <1>p, <2>1 DEF Covered
<1> QED
  BY <1>1, <1>2

\* A thread that looks for work waits, and is counted, or does not.
LEMMA LookCovered ==
  ASSUME Shape, WaitsCounted, WaitsCovered, NEW t \in Threads, t \notin Late, NEW active,
         LookForWork(t, active, runnableReady)
  PROVE  WaitsCovered'
<1>t. thread \in [Threads -> ThreadState] /\ waitingThreads \in Int /\ Cardinality(Late) \in Nat
  BY ThreadSet DEF Shape, PoolTypes, Late
<1>1. Late' = Late
  BY <1>t, LookBack
<1>2. CASE runnableReady' = runnableReady /\ UNCHANGED waitingThreads
  BY <1>1, <1>2 DEF WaitsCovered, Covered
<1>3. CASE waitingThreads' = waitingThreads + 1 /\ runnableReady' = Sleep(runnableReady, t)
  <2>1. PICK c, d, w, n : c = runnableReady /\ d = runnableReady' /\ w = Idle /\ n = waitingThreads'
    OBVIOUS
  <2>2. WaitedFor(c, w) /\ Covered(c, Cardinality(Late), waitingThreads) /\ d = Sleep(c, t)
    BY <1>3, <2>1 DEF WaitsCounted, WaitsCovered
  <2>3. Covered(d, Cardinality(Late), waitingThreads + 1)
    BY <1>t, <2>2, CoveredMoves
  <2> QED
    BY <1>1, <1>3, <2>1, <2>3 DEF WaitsCovered, Covered
<1> QED
  BY <1>2, <1>3, LookCases DEF Takes, Exits, TooMany, Idles

\* Every step leaves waitingThreads so, as long as wakeOne finds a thread to
\* wake for the one that tryStart takes off it.
LEMMA CoveredStep ==
  ASSUME Shape, WaitsCounted, WaitsCounted', PoolKnown, WaitsCovered, ~Overtaken, Next
  PROVE  WaitsCovered'
<1>t. /\ thread \in [Threads -> ThreadState] /\ ClientsKnown /\ waitingThreads \in Int
      /\ Cardinality(Late) \in Nat /\ Late \in SUBSET Threads
  BY ThreadSet DEF Shape, PoolTypes, Late
<1>u. ASSUME Late' = Late, UNCHANGED <<runnableReady, waitingThreads>>
      PROVE  WaitsCovered'
  BY <1>u DEF WaitsCovered, Covered
<1>w. ASSUME NEW n \in Int, Late' = Late, waitingThreads' = n, NEW d, d = runnableReady',
             Covered(d, Cardinality(Late), n)
      PROVE  WaitsCovered'
  BY <1>w DEF WaitsCovered, Covered
<1>c. /\ WaitedFor(runnableReady, Idle)
      /\ Covered(runnableReady, Cardinality(Late), waitingThreads)
  BY DEF WaitsCounted, WaitsCovered
<1>r. ASSUME NEW task, NEW more, RecycleThread(task, more), ~isExiting, Late' = Late
      PROVE  WaitsCovered'
  <2>1. PICK d : d = runnableReady'
    OBVIOUS
  <2>2. d \in WokenOne(runnableReady) /\ waitingThreads' = waitingThreads - 1 /\ UNCHANGED thread
    BY <1>r, <2>1 DEF RecycleThread, EnqueueTask
  <2>3. waitingThreads' < waitingThreads
    BY <1>t, <2>2
  <2>4. ~(Cardinality(runnableReady.asleep \cup runnableReady.signalled) <= runnableReady.wakeups)
    BY <1>r, <2>2, <2>3 DEF Overtaken
  <2>5. Covered(d, Cardinality(Late), waitingThreads - 1)
    BY <1>c, <1>t, <2>2, <2>4, CoveredWoken
  <2>6. waitingThreads - 1 \in Int
    BY <1>t
  <2> QED
    BY <1>r, <1>w, <2>1, <2>2, <2>5, <2>6
<1>s. ASSUME NEW c, NEW task, NEW more, TryStartTask(c, task, more), ~isExiting, Late' = Late
      PROVE  WaitsCovered'
  BY <1>s, <1>r, <1>u DEF TryStartTask, StartThread, RestartThread
<1>1. ASSUME NEW t \in Threads, RunBegin(t) \/ FinishBegin(t) \/ FinishEnd(t)
      PROVE  WaitsCovered'
  <2>1. Late' = Late
    BY <1>1, BackSame DEF OtherStep
  <2> QED
    BY <1>1, <1>u, <2>1 DEF RunBegin, FinishBegin, FinishEnd, countVars
<1>2. ASSUME NEW t \in Threads, TaskEnd(t)
      PROVE  WaitsCovered'
  <2>1. t \notin Late
    BY <1>2 DEF TaskEnd, Late
  <2> QED
    BY <1>2, <2>1, LookCovered DEF TaskEnd
<1>3. ASSUME NEW t \in Threads, WaitEnd(t)
      PROVE  WaitsCovered'
  <2>1. CASE thread[t].at = "called" /\ LookForWork(t, ActiveAgain, runnableReady)
    <3>1. t \notin Late
      BY <2>1 DEF Late
    <3> QED
      BY <2>1, <3>1, LookCovered
  <2>2. CASE /\ thread[t].at = "late" /\ waitingThreads' = waitingThreads - 1
             /\ Expires(t, ActiveAgain) /\ UNCHANGED runnableReady
    <3>1. t \in Late /\ Late' = Late \ {t}
      BY <1>t, <2>2, BackLeft DEF Expires, Leaves_run, At, Late
    <3>2. Cardinality(Late') = Cardinality(Late) - 1
      BY <1>t, <3>1, OneLess
    <3>3. /\ runnableReady.wakeups \in Nat /\ runnableReady.waiters \in Nat
          /\ Cardinality(runnableReady.signalled) \in Nat
      BY <1>c, ConditionParts
    <3> QED
      BY <1>t, <2>2, <3>2, <3>3 DEF WaitsCovered, Covered
  <2> QED
    BY <1>3, <2>1, <2>2 DEF WaitEnd
<1>4. ASSUME NEW t \in Threads, WaitLeave(t)
      PROVE  WaitsCovered'
  <2>1. PICK d : d = runnableReady'
    OBVIOUS
  <2>2. Leaves(runnableReady, t) /\ d = Left(runnableReady, t) /\ UNCHANGED waitingThreads
    BY <1>4, <2>1 DEF WaitLeave, countVars
  <2>3. Covered(d, IF t \in runnableReady.signalled THEN Cardinality(Late) ELSE Cardinality(Late) + 1,
                waitingThreads)
    BY <1>c, <1>t, <2>2, CoveredMoves
  <2>4. CASE t \in runnableReady.signalled
    <3>1. Late' = Late
      BY <1>4, <1>t, <2>4, LeaveBack
    <3> QED
      BY <1>t, <1>w, <2>1, <2>2, <2>3, <2>4, <3>1
  <2>5. CASE t \notin runnableReady.signalled
    <3>1. Cardinality(Late') = Cardinality(Late) + 1
      BY <1>4, <1>t, <2>5, LeaveBack, OneMore
    <3>2. Covered(d, Cardinality(Late'), waitingThreads')
      BY <2>2, <2>3, <2>5, <3>1
    <3> QED
      BY <2>1, <3>2 DEF WaitsCovered, Covered
  <2> QED
    BY <2>4, <2>5
<1>5. ASSUME NEW t \in Threads, WaitStep(t)
      PROVE  WaitsCovered'
  <2>1. PICK d : d = runnableReady'
    OBVIOUS
  <2>2. Steps(runnableReady, t, d) /\ UNCHANGED waitingThreads
    BY <1>5, <2>1 DEF WaitStep, Steps, countVars
  <2>3. Late' = Late
    BY <1>5, BackSame DEF OtherStep
  <2> QED
    BY <1>c, <1>t, <1>w, <2>1, <2>2, <2>3, CoveredMoves
<1>6. ASSUME NEW c \in Clients, QThreadStart(c) \/ StealEnd(c) \/ WaitForDoneWoken(c) \/ WaitCall(c)
                                \/ \E t \in Threads : Join(c, t)
      PROVE  WaitsCovered'
  <2>1. Late' = Late
    BY <1>6, BackSame DEF OtherStep
  <2>2. CASE QThreadStart(c) \/ StealEnd(c) \/ \E t \in Threads : Join(c, t)
    BY <1>u, <2>1, <2>2 DEF QThreadStart, StealEnd, Join, countVars
  <2>3. CASE WaitForDoneWoken(c) \/ WaitCall(c)
    BY <1>u, <2>1, <2>3 DEF WaitForDoneWoken, Looks, WaitCall, WaitForDone, WaitForDoneExpired,
                            countVars
  <2> QED
    BY <1>6, <2>2, <2>3
<1>7. ASSUME NEW c \in Clients, TryToStartMoreThreads(c)
      PROVE  WaitsCovered'
  <2>1. Late' = Late
    BY <1>7, BackSame DEF OtherStep
  <2>2. ~isExiting
    <3>1. mutex = c
      BY <1>7, <1>t DEF TryToStartMoreThreads, ClientsKnown
    <3> QED
      BY <3>1, HeldNoReset DEF PoolKnown
  <2> QED
    BY <1>7, <1>s, <1>u, <2>1, <2>2 DEF TryToStartMoreThreads
<1>8. ASSUME NEW c \in Clients, Reset(c)
      PROVE  WaitsCovered'
  <2>1. Late' = Late
    BY <1>8, BackSame DEF OtherStep
  <2>2. PICK d : d = runnableReady'
    OBVIOUS
  <2>3. d = WokenAll(runnableReady) /\ UNCHANGED waitingThreads
    BY <1>8, <2>2 DEF Reset, countVars
  <2> QED
    BY <1>c, <1>t, <1>w, <2>1, <2>2, <2>3, CoveredWoken
<1>9. ASSUME NEW c \in Clients, ResetEnd(c)
      PROVE  WaitsCovered'
  <2>1. Late' = Late
    BY <1>9, BackSame DEF OtherStep
  <2>2. CASE allThreads # {}
    BY <1>9, <1>u, <2>1, <2>2 DEF ResetEnd
  <2>3. CASE allThreads = {}
    <3>1. /\ client[c].at = "join" /\ client[c].joining = {} /\ isExiting
          /\ waitingThreads' = 0 /\ UNCHANGED runnableReady
      BY <1>9, <2>3 DEF ResetEnd, PoolKnown, ResetKnown
    <3>2. \A u \in Threads : ~Joined(u)
      BY <3>1, <1>t DEF Joined, ClientsKnown, PoolKnown, ResetKnown
    <3>3. Idle = {} /\ Late = {}
      BY <2>3, <3>2 DEF PoolKnown, ResetKnown, Idle, Late
    <3>4. Cardinality(Late) = 0 /\ Cardinality(Idle) = 0
      BY <3>3, FS_EmptySet
    <3>5. /\ runnableReady.wakeups \in Nat /\ Cardinality(runnableReady.signalled) \in Nat
          /\ runnableReady.waiters = 0
      BY <1>c, <3>4, ConditionParts
    <3>6. Covered(runnableReady, Cardinality(Late), 0)
      BY <3>4, <3>5 DEF Covered
    <3> QED
      BY <1>w, <2>1, <3>1, <3>6
  <2> QED
    BY <2>2, <2>3
<1>10. ASSUME NEW c \in Clients, Call(c)
       PROVE  WaitsCovered'
  <2>1. Late' = Late
    BY <1>10, BackSame DEF OtherStep
  <2>2. ASSUME NEW task \in Tasks, TryStart(c, task) PROVE WaitsCovered'
    BY <1>s, <2>1, <2>2 DEF TryStart, MayStart, MayLaunch
  <2>3. ASSUME NEW task \in Tasks, NEW p \in Priorities, Queue(c, task, p) PROVE WaitsCovered'
    <3>1. PICK d : d = runnableReady'
      OBVIOUS
    <3>2. d \in WokenOne(runnableReady) /\ UNCHANGED waitingThreads
      BY <2>3, <3>1 DEF Queue, EnqueueTask, countVars
    <3> QED
      BY <1>c, <1>t, <1>w, <2>1, <3>1, <3>2, CoveredWoken
  <2>4. ASSUME NEW n \in MaxThreadCounts, SetMaxThreadCount(c, n) PROVE WaitsCovered'
    BY <1>u, <2>1, <2>4 DEF SetMaxThreadCount
  <2>5. ASSUME NEW n \in DOMAIN queue, StealRunnable(c, n) PROVE WaitsCovered'
    BY <1>u, <2>1, <2>5 DEF StealRunnable, countVars
  <2>6. CASE ReserveThread(c) \/ ReleaseThread(c)
    BY <1>u, <2>1, <2>6 DEF ReserveThread, ReleaseThread
  <2> QED
    BY <1>10, <2>2, <2>3, <2>4, <2>5, <2>6 DEF Call
<1> QED
  BY <1>1, <1>2, <1>3, <1>4, <1>5, <1>6, <1>7, <1>8, <1>9, <1>10, NextCases

-----------------------------------------------------------------------------
(* A task in the queue has the limit, or a thread, to wait for             *)

\* Nobody is in tryToStartMoreThreads.
Settled == \A c \in Clients : client[c].at # "push" /\ ~(client[c].at = "launch" /\ client[c].flag)

\* For each of the tasks, of which the first number tells, there is a thread
\* that was called, of which the last one tells, or a wake-up and a chosen thread.
Enough(tasks, c, called) ==
  tasks <= c.wakeups + called /\ tasks <= Cardinality(c.signalled) + called
EnoughCalled == Enough(Len(queue), runnableReady, Cardinality(Called))

\* So it is for every task in the queue, unless the pool is at its limit.
Waiting == Settled /\ ~isExiting /\ queue # <<>> => AtLimit \/ EnoughCalled

\* A thread that moves in the condition, or out of it, keeps to its wake-up.
LEMMA EnoughMoves ==
  ASSUME NEW c, NEW w, WaitedFor(c, w), NEW k \in Nat, NEW m \in Nat, Enough(k, c, m),
         NEW t \in Threads, NEW d
  PROVE  /\ Steps(c, t, d) => Enough(k, d, m)
         /\ Leaves(c, t) /\ d = Left(c, t) => Enough(k, d, IF t \in c.signalled THEN m + 1 ELSE m)
<1>p. c.wakeups \in Nat /\ c.waiters \in Nat /\ Cardinality(c.signalled) \in Nat
  BY ConditionParts
<1>n. k <= c.wakeups + m /\ k <= Cardinality(c.signalled) + m
  BY DEF Enough
<1>1. ASSUME Steps(c, t, d) PROVE Enough(k, d, m)
  <2>1. /\ d.waiters = c.waiters /\ d.wakeups = c.wakeups /\ Cardinality(d.signalled) \in Nat
        /\ Cardinality(d.signalled) >= Cardinality(c.signalled) \/ c.wakeups = 0
    BY <1>1, StepsNumbers
  <2> QED
    BY <1>n, <1>p, <2>1 DEF Enough
<1>2. ASSUME Leaves(c, t), d = Left(c, t)
      PROVE  Enough(k, d, IF t \in c.signalled THEN m + 1 ELSE m)
  <2>1. /\ t \in c.signalled => /\ d.wakeups = c.wakeups - 1
                                /\ Cardinality(d.signalled) = Cardinality(c.signalled) - 1
        /\ t \notin c.signalled => d.wakeups = c.wakeups /\ d.signalled = c.signalled
    BY <1>2, LeftNumbers
  <2>2. CASE t \in c.signalled
    BY <1>n, <1>p, <2>1, <2>2 DEF Enough
  <2>3. CASE t \notin c.signalled
    BY <1>n, <1>p, <2>1, <2>3 DEF Enough
  <2> QED
    BY <2>2, <2>3
<1> QED
  BY <1>1, <1>2

\* wakeOne calls one thread more, if there is one that was not called.
LEMMA EnoughWoken ==
  ASSUME NEW c, NEW w, WaitedFor(c, w), NEW k \in Nat, NEW m \in Nat, Enough(k, c, m),
         NEW d \in WokenOne(c), ~(Cardinality(c.asleep \cup c.signalled) <= c.wakeups)
  PROVE  Enough(k + 1, d, m)
<1>p. c.wakeups \in Nat /\ c.waiters \in Nat /\ Cardinality(c.signalled) \in Nat
  BY ConditionParts
<1>n. k <= c.wakeups + m /\ k <= Cardinality(c.signalled) + m
  BY DEF Enough
<1>1. /\ d.wakeups = IF c.wakeups < c.waiters THEN c.wakeups + 1 ELSE c.waiters
      /\ Cardinality(d.signalled) = Cardinality(c.signalled) + (IF c.asleep = {} THEN 0 ELSE 1)
      /\ c.wakeups < c.waiters /\ (c.asleep = {} => Cardinality(c.signalled) > c.wakeups)
  BY WokenOneNumbers
<1>2. CASE c.asleep = {}
  BY <1>n, <1>p, <1>1, <1>2 DEF Enough
<1>3. CASE c.asleep # {}
  BY <1>n, <1>p, <1>1, <1>3 DEF Enough
<1> QED
  BY <1>2, <1>3

\* While the mutex is free, nobody is in tryToStartMoreThreads.
LEMMA SettledFree ==
  ASSUME ClientsKnown, mutex = Free
  PROVE  Settled
BY PoolAssumption DEF ClientsKnown, Settled, Clients

\* A client that was not leaves the others where they are.
LEMMA SettledMoves ==
  ASSUME client \in [Clients -> ClientState], NEW c \in Clients, NEW s, Becomes(c, s),
         client[c].at # "push", client[c].at = "launch" => ~client[c].flag, Settled'
  PROVE  Settled
<1>1. \A d \in Clients : d # c => client'[d] = client[d]
  BY DEF Becomes
<1> QED
  BY <1>1 DEF Settled

\* The counters are numbers.
LEMMA CountTypes ==
  ASSUME Shape, WaitsCounted
  PROVE  /\ Cardinality(allThreads) \in Nat /\ Len(expiredThreads) \in Nat /\ Len(queue) \in Nat
         /\ waitingThreads \in Int /\ reservedThreads \in Int /\ maxThreadCount \in Int
         /\ runnableReady.wakeups \in Nat /\ runnableReady.waiters \in Nat
         /\ Cardinality(runnableReady.signalled) \in Nat /\ Cardinality(Called) \in Nat
         /\ ActiveThreadCount \in Int
<1>1. /\ Cardinality(allThreads) \in Nat /\ Len(expiredThreads) \in Nat /\ Len(queue) \in Nat
      /\ Cardinality(Called) \in Nat
  BY ThreadSet DEF Shape, PoolTypes, Called
<1>2. waitingThreads \in Int /\ reservedThreads \in Int /\ maxThreadCount \in Int
  BY PoolAssumption DEF Shape, PoolTypes
<1>3. /\ runnableReady.wakeups \in Nat /\ runnableReady.waiters \in Nat
      /\ Cardinality(runnableReady.signalled) \in Nat
  BY ConditionParts DEF WaitsCounted
<1> QED
  BY <1>1, <1>2, <1>3 DEF ActiveThreadCount

\* So is the count after a step.
LEMMA CountTypesNext ==
  ASSUME Shape'
  PROVE  ActiveThreadCount' \in Int
<1>1. /\ expiredThreads' \in Seq(Threads) /\ allThreads' \in SUBSET Threads
      /\ waitingThreads' \in Int /\ reservedThreads' \in Int
  BY PoolAssumption DEF Shape, PoolTypes
<1>2. Cardinality(allThreads') \in Nat /\ Len(expiredThreads') \in Nat
  BY <1>1, ThreadSet
<1> QED
  BY <1>1, <1>2 DEF ActiveThreadCount

\* The tasks that wait have no less to wait for.
LEMMA WaitingKept ==
  ASSUME Shape, Shape', WaitsCounted, Waiting, Settled' => Settled,
         UNCHANGED <<isExiting, maxThreadCount>>, ActiveThreadCount' >= ActiveThreadCount,
         queue' = <<>> \/ (queue # <<>> /\ (EnoughCalled => EnoughCalled'))
  PROVE  Waiting'
<1>1. maxThreadCount \in Int /\ ActiveThreadCount \in Int /\ ActiveThreadCount' \in Int
  BY CountTypes, CountTypesNext
<1>2. AtLimit => AtLimit'
  BY <1>1 DEF AtLimit
<1> QED
  BY <1>2 DEF Waiting

\* A shorter queue has enough.
LEMMA EnoughFewer ==
  ASSUME Shape, WaitsCounted, EnoughCalled, Called' = Called, UNCHANGED runnableReady,
         NEW n \in Nat, Len(queue') = n, n <= Len(queue)
  PROVE  EnoughCalled'
<1>1. /\ Len(queue) \in Nat /\ runnableReady.wakeups \in Nat
      /\ Cardinality(runnableReady.signalled) \in Nat /\ Cardinality(Called) \in Nat
  BY CountTypes
<1>2. /\ Len(queue) <= runnableReady.wakeups + Cardinality(Called)
      /\ Len(queue) <= Cardinality(runnableReady.signalled) + Cardinality(Called)
  BY DEF EnoughCalled, Enough
<1>3. /\ Len(queue') <= runnableReady.wakeups + Cardinality(Called)
      /\ Len(queue') <= Cardinality(runnableReady.signalled) + Cardinality(Called)
  BY <1>1, <1>2
<1> QED
  BY <1>3 DEF EnoughCalled, Enough

\* The same threads count.
LEMMA CountKept ==
  ASSUME UNCHANGED <<allThreads, expiredThreads, waitingThreads, reservedThreads>>
  PROVE  ActiveThreadCount' = ActiveThreadCount
BY DEF ActiveThreadCount

\* A thread starts that did not exist, or had expired.
LEMMA StartCounted ==
  ASSUME Shape, PoolKnown, ~isExiting, NEW c, NEW task, NEW more,
         WaitsCounted, UNCHANGED reservedThreads,
         \/ StartThread(c, task, more)
         \/ expiredThreads # <<>> /\ RestartThread(c, task, more)
  PROVE  ActiveThreadCount' >= ActiveThreadCount
<1>t. /\ Cardinality(allThreads) \in Nat /\ Len(expiredThreads) \in Nat
      /\ waitingThreads \in Int /\ reservedThreads \in Int
      /\ allThreads \in SUBSET Threads /\ expiredThreads \in Seq(Threads)
  BY CountTypes DEF Shape, PoolTypes
<1>1. CASE StartThread(c, task, more)
  <2>1. PICK t \in Threads : /\ thread[t].at = "none" /\ allThreads' = allThreads \cup {t}
                             /\ UNCHANGED <<expiredThreads, waitingThreads>>
    BY <1>1 DEF StartThread
  <2>2. t \notin allThreads
    BY <2>1 DEF PoolKnown, ResetKnown
  <2>3. Cardinality(allThreads') = Cardinality(allThreads) + 1
    BY <1>t, <2>1, <2>2, OneMore
  <2> QED
    BY <1>t, <2>1, <2>3 DEF ActiveThreadCount
<1>2. CASE expiredThreads # <<>> /\ RestartThread(c, task, more)
  <2>1. /\ expiredThreads' = Tail(expiredThreads) /\ UNCHANGED <<allThreads, waitingThreads>>
    BY <1>2 DEF RestartThread
  <2>2. Len(expiredThreads') = Len(expiredThreads) - 1
    BY <1>2, <1>t, <2>1, HeadTailProperties
  <2> QED
    BY <1>t, <2>1, <2>2 DEF ActiveThreadCount
<1> QED
  BY <1>1, <1>2

\* A thread that waits is counted again, and woken for the task it gets.
LEMMA RecycleCounted ==
  ASSUME Shape, WaitsCounted, Waiting, ~isExiting, ~Overtaken, Settled, Called' = Called,
         NEW task \in Tasks, ~AtLimit, RecycleThread(task, FALSE)
  PROVE  EnoughCalled'
<1>t. /\ Len(queue) \in Nat /\ queue \in Seq(Entry) /\ waitingThreads \in Int
      /\ runnableReady.wakeups \in Nat /\ Cardinality(runnableReady.signalled) \in Nat
      /\ Cardinality(Called) \in Nat
  BY CountTypes DEF Shape, PoolTypes
<1>1. Enough(Len(queue), runnableReady, Cardinality(Called))
  <2>1. CASE queue = <<>>
    <3>1. Len(queue) = 0
      BY <2>1
    <3> QED
      BY <1>t, <3>1 DEF Enough
  <2>2. CASE queue # <<>>
    BY <2>2 DEF Waiting, EnoughCalled
  <2> QED
    BY <2>1, <2>2
<1>2. PICK d : d = runnableReady'
  OBVIOUS
<1>3. /\ d \in WokenOne(runnableReady) /\ waitingThreads' = waitingThreads - 1 /\ UNCHANGED thread
      /\ queue' = SubSeq(Inserted(queue, task, 0), 0 + 1, Len(Inserted(queue, task, 0)))
  BY <1>2 DEF RecycleThread, EnqueueTask, Removed
<1>4. ~(Cardinality(runnableReady.asleep \cup runnableReady.signalled) <= runnableReady.wakeups)
  <2>1. waitingThreads' < waitingThreads
    BY <1>t, <1>3
  <2> QED
    BY <1>3, <2>1 DEF Overtaken
<1>5. Enough(Len(queue) + 1, d, Cardinality(Called))
  BY <1>1, <1>3, <1>4, <1>t, EnoughWoken DEF WaitsCounted
<1>6. Len(queue') = Len(queue) + 1
  <2>1. Inserted(queue, task, 0) \in Seq(Entry) /\ Len(Inserted(queue, task, 0)) = Len(queue) + 1
    BY <1>t, PoolAssumption, InsertedProperties
  <2>2. PICK q : q = Inserted(queue, task, 0)
    OBVIOUS
  <2>3. q \in Seq(Entry) /\ Len(q) = Len(queue) + 1 /\ queue' = SubSeq(q, 0 + 1, Len(q))
    BY <1>3, <2>1, <2>2
  <2>4. Len(queue') = IF 0 <= Len(q) THEN Len(q) - 0 ELSE 0
    BY <2>3, DropProperties
  <2> QED
    BY <1>t, <2>3, <2>4
<1> QED
  BY <1>2, <1>5, <1>6 DEF EnoughCalled, Enough

\* start gives a task to a thread.
LEMMA TryStartWaiting ==
  ASSUME Shape, Shape', WaitsCounted, PoolKnown, ~Overtaken, Waiting,
         NEW c \in Clients, NEW task \in Tasks, TryStart(c, task)
  PROVE  Waiting'
<1>t. /\ ~isExiting /\ mutex = Free /\ TryStartTask(c, task, FALSE) /\ ClientsKnown
      /\ UNCHANGED <<isExiting, maxThreadCount, reservedThreads>> /\ queue \in Seq(Entry)
  BY DEF TryStart, MayStart, MayLaunch, Calls, Shape, PoolTypes
<1>s. Settled
  BY <1>t, SettledFree
<1>b. Called' = Called
  <2>1. Call(c)
    BY DEF Call
  <2> QED
    BY <2>1, BackSame DEF OtherStep
<1>1. CASE \/ StartThread(c, task, FALSE)
           \/ expiredThreads # <<>> /\ RestartThread(c, task, FALSE)
  <2>1. ActiveThreadCount' >= ActiveThreadCount
    BY <1>1, <1>t, StartCounted
  <2>2. UNCHANGED runnableReady /\ queue' = SubSeq(queue, 1 + 0, Len(queue))
    BY <1>1 DEF StartThread, RestartThread, Removed
  <2>3. queue' = SubSeq(queue, 0 + 1, Len(queue)) /\ Len(queue) \in Nat
    BY <1>t, <2>2
  <2>4. Len(queue') = IF 0 <= Len(queue) THEN Len(queue) - 0 ELSE 0
    BY <1>t, <2>3, DropProperties
  <2>5. Len(queue') = Len(queue) /\ queue' \in Seq(Entry)
    BY <2>3, <2>4 DEF Shape, PoolTypes
  <2>6. queue = <<>> => queue' = <<>>
    BY <2>5, EmptySeq
  <2>7. EnoughCalled => EnoughCalled'
    BY <1>b, <2>2, <2>3, <2>5, EnoughFewer
  <2> QED
    BY <1>s, <1>t, <2>1, <2>6, <2>7, WaitingKept
<1>2. CASE ~AtLimit /\ waitingThreads > 0 /\ RecycleThread(task, FALSE)
  <2>1. EnoughCalled'
    BY <1>2, <1>b, <1>s, <1>t, RecycleCounted
  <2> QED
    BY <2>1 DEF Waiting
<1> QED
  BY <1>t, <1>1, <1>2 DEF TryStartTask

\* A thread that looks for work takes a task, or leaves the pool at its limit.
LEMMA LookWaiting ==
  ASSUME Shape, Shape', WaitsCounted, Waiting, mutex = Free, NEW t \in Threads, NEW active,
         LookForWork(t, active, runnableReady),
         UNCHANGED <<isExiting, allThreads, maxThreadCount, reservedThreads>>
  PROVE  Waiting'
<1>t. /\ ClientsKnown /\ queue \in Seq(Entry) /\ expiredThreads \in Seq(Threads)
      /\ thread \in [Threads -> ThreadState] /\ Called \in SUBSET Threads
  BY DEF Shape, PoolTypes, Called
<1>n. /\ Cardinality(allThreads) \in Nat /\ Len(expiredThreads) \in Nat
      /\ waitingThreads \in Int /\ reservedThreads \in Int /\ maxThreadCount \in Int
      /\ ActiveThreadCount \in Int
  BY CountTypes
<1>m. /\ Len(queue) \in Nat /\ Cardinality(Called) \in Nat
      /\ runnableReady.wakeups \in Nat /\ Cardinality(runnableReady.signalled) \in Nat
  BY CountTypes
<1>s. Settled
  BY <1>t, SettledFree
<1>1. CASE Takes(t, active, runnableReady)
  <2>1. /\ queue # <<>> /\ queue' = Tail(queue) /\ UNCHANGED runnableReady
        /\ UNCHANGED <<expiredThreads, waitingThreads>>
    BY <1>1 DEF Takes
  <2>2. Len(queue') = Len(queue) - 1
    BY <1>t, <1>m, <2>1, FirstTask
  <2>3. ActiveThreadCount' >= ActiveThreadCount
    BY <1>n, <2>1, CountKept
  <2>4. Cardinality(Called') >= Cardinality(Called) - 1 /\ Cardinality(Called') \in Nat
    <3>1. Called' = Called \ {t}
      BY <1>t, LookBack
    <3>2. t \in Called => Cardinality(Called') = Cardinality(Called) - 1
      BY <1>t, <3>1, OneLess
    <3>3. t \notin Called => Called' = Called
      BY <3>1
    <3>4. Cardinality(Called') \in Nat
      BY <1>t, <3>1, ThreadSet
    <3> QED
      BY <1>m, <3>2, <3>3, <3>4
  <2>5. ASSUME EnoughCalled PROVE EnoughCalled'
    <3>1. /\ Len(queue) <= runnableReady.wakeups + Cardinality(Called)
          /\ Len(queue) <= Cardinality(runnableReady.signalled) + Cardinality(Called)
      BY <2>5 DEF EnoughCalled, Enough
    <3>2. /\ Len(queue') <= runnableReady.wakeups + Cardinality(Called')
          /\ Len(queue') <= Cardinality(runnableReady.signalled) + Cardinality(Called')
      BY <1>m, <2>2, <2>4, <3>1
    <3> QED
      BY <2>1, <3>2 DEF EnoughCalled, Enough
  <2> QED
    BY <1>s, <2>1, <2>3, <2>5, WaitingKept
<1>2. CASE Exits(t, active, runnableReady)
  BY <1>2 DEF Exits, Waiting
<1>3. CASE TooMany(t, active, runnableReady)
  <2>1. TooManyThreadsActive /\ UNCHANGED <<waitingThreads, allThreads, reservedThreads>>
    BY <1>3 DEF TooMany
  <2>2. Len(expiredThreads') = Len(expiredThreads) + 1
    <3>1. expiredThreads' = Append(expiredThreads, t)
      BY <1>3 DEF TooMany, Expires
    <3> QED
      BY <1>t, <3>1
  <2>3. ActiveThreadCount' = ActiveThreadCount - 1
    BY <1>n, <2>1, <2>2 DEF ActiveThreadCount
  <2>4. ActiveThreadCount > maxThreadCount
    BY <2>1 DEF TooManyThreadsActive
  <2>5. AtLimit'
    BY <1>n, <2>3, <2>4 DEF AtLimit
  <2> QED
    BY <2>5 DEF Waiting
<1>4. CASE Idles(t, active, runnableReady)
  BY <1>4 DEF Idles, Waiting
<1> QED
  BY <1>1, <1>2, <1>3, <1>4, LookCases

\* A wait ends.
LEMMA WaitEndWaiting ==
  ASSUME Shape, Shape', WaitsCounted, Waiting, NEW t \in Threads, WaitEnd(t)
  PROVE  Waiting'
<1>t. /\ ClientsKnown /\ mutex = Free /\ expiredThreads \in Seq(Threads)
      /\ thread \in [Threads -> ThreadState]
      /\ UNCHANGED <<isExiting, allThreads, maxThreadCount, reservedThreads>>
  BY DEF Shape, PoolTypes, WaitEnd
<1>n. /\ Cardinality(allThreads) \in Nat /\ Len(expiredThreads) \in Nat
      /\ waitingThreads \in Int /\ reservedThreads \in Int
  BY CountTypes
<1>1. CASE LookForWork(t, ActiveAgain, runnableReady)
  BY <1>1, <1>t, LookWaiting
<1>2. CASE /\ thread[t].at = "late" /\ waitingThreads' = waitingThreads - 1
           /\ Expires(t, ActiveAgain) /\ UNCHANGED <<queue, runnableReady>>
  <2>1. expiredThreads' = Append(expiredThreads, t)
    BY <1>2 DEF Expires
  <2>2. Len(expiredThreads') = Len(expiredThreads) + 1
    BY <1>t, <2>1
  <2>3. ActiveThreadCount' = ActiveThreadCount /\ ActiveThreadCount \in Int
    <3>1. ActiveThreadCount =
            Cardinality(allThreads) - Len(expiredThreads) - waitingThreads + reservedThreads
      BY DEF ActiveThreadCount
    <3>2. ActiveThreadCount' = Cardinality(allThreads) - (Len(expiredThreads) + 1)
                                 - (waitingThreads - 1) + reservedThreads
      BY <1>t, <1>2, <2>2 DEF ActiveThreadCount
    <3> QED
      BY <1>n, <3>1, <3>2
  <2>4. Called' = Called
    BY <1>2, <1>t, BackLeft DEF Expires, Leaves_run, At, Called
  <2>5. EnoughCalled => EnoughCalled'
    BY <1>2, <2>4 DEF EnoughCalled, Enough
  <2> QED
    BY <1>2, <1>n, <1>t, <2>3, <2>5, SettledFree, WaitingKept
<1> QED
  BY <1>1, <1>2 DEF WaitEnd

\* In a reset every waiting thread has been woken, and one will take the next task.
Exiting ==
  isExiting =>
    /\ runnableReady.asleep = {} /\ runnableReady.wakeups >= Cardinality(runnableReady.signalled)
    /\ queue # <<>> => \/ reservedThreads >= maxThreadCount
                       \/ Running # {} \/ Called # {} \/ runnableReady.signalled # {}

\* A reset ends when no thread is left to take a task.
LEMMA ResetEndWaiting ==
  ASSUME Shape, WaitsCounted, PoolKnown, Exiting, NEW c \in Clients, ResetEnd(c)
  PROVE  Waiting'
<1>t. /\ client \in [Clients -> ClientState] /\ ClientsKnown
      /\ thread \in [Threads -> ThreadState]
  BY DEF Shape, PoolTypes
<1>1. /\ client[c].at = "join" /\ client[c].joining = {} /\ isExiting /\ allThreads = {}
  BY DEF ResetEnd, PoolKnown, ResetKnown
<1>2. \A u \in Threads : ~Joined(u)
  BY <1>1, <1>t DEF Joined, ClientsKnown, PoolKnown, ResetKnown
<1>3. Running = {} /\ Idle = {} /\ Called = {}
  BY <1>1, <1>2 DEF PoolKnown, ResetKnown, Running, Idle, Called
<1>4. runnableReady.signalled = {}
  BY <1>3 DEF WaitsCounted, WaitedFor
<1>5. queue # <<>> => reservedThreads >= maxThreadCount
  BY <1>1, <1>3, <1>4 DEF Exiting
<1>6. /\ waitingThreads' = 0 /\ expiredThreads' = <<>> /\ allThreads' = {}
      /\ UNCHANGED <<queue, reservedThreads, maxThreadCount>>
  BY <1>1 DEF ResetEnd
<1>7. ActiveThreadCount' = reservedThreads /\ reservedThreads \in Int
  <2>1. Cardinality(allThreads') = 0 /\ Len(expiredThreads') = 0 /\ reservedThreads \in Int
    BY <1>6, FS_EmptySet, CountTypes
  <2> QED
    BY <1>6, <2>1 DEF ActiveThreadCount
<1>8. queue' # <<>> => AtLimit'
  BY <1>5, <1>6, <1>7 DEF AtLimit
<1> QED
  BY <1>8 DEF Waiting

\* Every step serves the queue.
LEMMA WaitingStep ==
  ASSUME Shape, Shape', WaitsCounted, PoolKnown, ~Overtaken, Waiting, Exiting, Next
  PROVE  Waiting'
<1>t. /\ client \in [Clients -> ClientState] /\ ClientsKnown /\ queue \in Seq(Entry)
      /\ ActiveThreadCount \in Int /\ reservedThreads \in Int /\ maxThreadCount \in Int
      /\ waitingThreads \in Int /\ Cardinality(allThreads) \in Nat /\ Len(expiredThreads) \in Nat
  BY CountTypes DEF Shape, PoolTypes
<1>n. Len(queue) \in Nat /\ Cardinality(Called) \in Nat
  BY CountTypes
<1>e. ASSUME UNCHANGED <<queue, allThreads, expiredThreads, isExiting, countVars>>,
             EnoughCalled => EnoughCalled', Settled' => Settled
      PROVE  Waiting'
  <2>1. ActiveThreadCount' >= ActiveThreadCount
    BY <1>t, <1>e, CountKept DEF countVars
  <2> QED
    BY <1>t, <1>e, <2>1, WaitingKept DEF countVars
<1>u. ASSUME UNCHANGED <<queue, allThreads, expiredThreads, isExiting, countVars, runnableReady>>,
             Called' = Called, Settled' => Settled
      PROVE  Waiting'
  BY <1>e, <1>u DEF EnoughCalled, Enough
<1>k. UNCHANGED client => (Settled' => Settled)
  BY DEF Settled
<1>b. ASSUME NEW c \in Clients, NEW s, Becomes(c, s), client[c].at # "push",
             client[c].at = "launch" => ~client[c].flag
      PROVE  Settled' => Settled
  BY <1>b, <1>t, SettledMoves
<1>p. ASSUME NEW c \in Clients, client'[c].at = "push" \/ (client'[c].at = "launch" /\ client'[c].flag)
      PROVE  Waiting'
  BY <1>p DEF Waiting, Settled
<1>1. ASSUME NEW t \in Threads, RunBegin(t) \/ FinishBegin(t) \/ FinishEnd(t)
      PROVE  Waiting'
  <2>1. Called' = Called
    BY <1>1, BackSame DEF OtherStep
  <2> QED
    BY <1>1, <1>u, <1>k, <2>1 DEF RunBegin, FinishBegin, FinishEnd, listVars
<1>2. ASSUME NEW t \in Threads, WaitStep(t)
      PROVE  Waiting'
  <2>1. Steps(runnableReady, t, runnableReady')
    BY <1>2 DEF WaitStep, Steps
  <2>2. Called' = Called
    BY <1>2, BackSame DEF OtherStep
  <2>3. EnoughCalled => EnoughCalled'
    <3>1. PICK d : d = runnableReady'
      OBVIOUS
    <3>2. EnoughCalled => Enough(Len(queue), d, Cardinality(Called))
      BY <1>n, <2>1, <3>1, EnoughMoves DEF WaitsCounted, EnoughCalled
    <3>3. queue' = queue
      BY <1>2 DEF WaitStep, listVars
    <3> QED
      BY <2>2, <3>1, <3>2, <3>3 DEF EnoughCalled, Enough
  <2> QED
    BY <1>2, <1>e, <1>k, <2>3 DEF WaitStep, listVars
<1>3. ASSUME NEW t \in Threads, TaskEnd(t)
      PROVE  Waiting'
  BY <1>3, LookWaiting DEF TaskEnd
<1>4. ASSUME NEW c \in Clients, QThreadStart(c)
      PROVE  Waiting'
  <2>1. CASE client[c].flag
    <3> DEFINE s == [User EXCEPT !.at = "push"]
    <3>1. Becomes(c, s) /\ s.at = "push"
      BY <1>4, <2>1 DEF QThreadStart, User
    <3> HIDE DEF s
    <3>2. client'[c] = s
      BY <1>t, <3>1 DEF Becomes
    <3> QED
      BY <1>p, <3>1, <3>2
  <2>2. CASE ~client[c].flag
    <3>1. Becomes(c, User) /\ client[c].at = "launch"
      BY <1>4, <2>2 DEF QThreadStart
    <3>2. UNCHANGED <<queue, allThreads, expiredThreads, isExiting, countVars, runnableReady>>
      BY <1>4 DEF QThreadStart, listVars
    <3>3. Called' = Called
      BY <1>4, BackSame DEF OtherStep
    <3> QED
      BY <1>b, <1>u, <2>2, <3>1, <3>2, <3>3
  <2> QED
    BY <2>1, <2>2
<1>5. ASSUME NEW c \in Clients, TryToStartMoreThreads(c)
      PROVE  Waiting'
  <2>1. CASE queue = <<>> /\ UNCHANGED queue
    BY <2>1 DEF Waiting
  <2>2. CASE AtLimit /\ UNCHANGED <<allThreads, expiredThreads, waitingThreads>>
    <3>1. ActiveThreadCount' = ActiveThreadCount /\ UNCHANGED maxThreadCount
      BY <1>5, <2>2, CountKept DEF TryToStartMoreThreads
    <3> QED
      BY <2>2, <3>1 DEF AtLimit, Waiting
  <2>3. CASE TryStartTask(c, Head(queue).task, TRUE)
    <3>1. ASSUME NEW t, Launches(c, t, TRUE) PROVE Waiting'
      <4> DEFINE s == [User EXCEPT !.at = "launch", !.thread = t, !.flag = TRUE]
      <4>1. Becomes(c, s) /\ s.at = "launch" /\ s.flag
        BY <3>1 DEF Launches, User
      <4> HIDE DEF s
      <4>2. client'[c] = s
        BY <1>t, <4>1 DEF Becomes
      <4> QED
        BY <1>p, <4>1, <4>2
    <3>2. CASE UNCHANGED client
      BY <1>5, <1>p, <3>2 DEF TryToStartMoreThreads
    <3> QED
      BY <2>3, <3>1, <3>2 DEF TryStartTask, StartThread, RestartThread, RecycleThread
  <2> QED
    BY <1>5, <2>1, <2>2, <2>3 DEF TryToStartMoreThreads, listVars
<1>6. ASSUME NEW c \in Clients, StealEnd(c) \/ WaitForDoneWoken(c) \/ WaitCall(c)
      PROVE  Waiting'
  <2>1. /\ UNCHANGED <<queue, allThreads, expiredThreads, isExiting, countVars, runnableReady>>
        /\ mutex = Free
    BY <1>6 DEF StealEnd, WaitForDoneWoken, WaitCall, WaitForDone, WaitForDoneExpired, Looks,
                Calls, listVars
  <2>2. Called' = Called
    BY <1>6, BackSame DEF OtherStep
  <2> QED
    BY <1>t, <1>u, <2>1, <2>2, SettledFree
<1>7. ASSUME NEW c \in Clients, Reset(c)
      PROVE  Waiting'
  BY <1>7 DEF Reset, Waiting
<1>8. ASSUME NEW c \in Clients, NEW t \in Threads, Join(c, t)
      PROVE  Waiting'
  BY <1>8 DEF Join, PoolKnown, ResetKnown, Waiting
<1>9. ASSUME NEW c \in Clients, Call(c)
      PROVE  Waiting'
  <2>b. Called' = Called
    BY <1>9, BackSame DEF OtherStep
  <2>1. ASSUME NEW task \in Tasks, NEW p \in Priorities, Queue(c, task, p) PROVE Waiting'
    <3>1. ActiveThreadCount' = ActiveThreadCount /\ AtLimit /\ UNCHANGED maxThreadCount
      BY <2>1, CountKept DEF Queue, countVars
    <3> QED
      BY <3>1 DEF AtLimit, Waiting
  <2>2. ASSUME NEW n, SetMaxThreadCount(c, n) \/ ReleaseThread(c) PROVE Waiting'
    <3> DEFINE s == [User EXCEPT !.at = "push"]
    <3>1. Becomes(c, s) /\ s.at = "push"
      BY <2>2 DEF SetMaxThreadCount, ReleaseThread, User
    <3> HIDE DEF s
    <3>2. client'[c] = s
      BY <1>t, <3>1 DEF Becomes
    <3> QED
      BY <1>p, <3>1, <3>2
  <2>3. CASE ReserveThread(c)
    <3>1. /\ reservedThreads' = reservedThreads + 1 /\ UNCHANGED client
          /\ UNCHANGED <<queue, allThreads, expiredThreads, isExiting, maxThreadCount,
                         waitingThreads, runnableReady>>
      BY <2>3 DEF ReserveThread, listVars
    <3>2. ActiveThreadCount' >= ActiveThreadCount
      BY <1>t, <3>1 DEF ActiveThreadCount
    <3>3. EnoughCalled => EnoughCalled'
      BY <2>b, <3>1 DEF EnoughCalled, Enough
    <3>4. Settled' => Settled
      BY <1>k, <3>1
    <3> QED
      BY <3>1, <3>2, <3>3, <3>4, WaitingKept
  <2>4. ASSUME NEW n \in DOMAIN queue, StealRunnable(c, n) PROVE Waiting'
    <3>1. /\ queue' = SubSeq(queue, 1, n - 1) \o SubSeq(queue, n + 1, Len(queue)) /\ mutex = Free
          /\ UNCHANGED <<allThreads, expiredThreads, isExiting, countVars, runnableReady>>
      BY <2>4 DEF StealRunnable, Calls
    <3>2. Len(queue') = Len(queue) - 1
      BY <1>t, <3>1, WithoutProperties
    <3>3. ActiveThreadCount' = ActiveThreadCount /\ UNCHANGED maxThreadCount
      BY <3>1, CountKept DEF countVars
    <3>4. AtLimit' <=> AtLimit
      BY <3>3 DEF AtLimit
    <3>5. queue # <<>> /\ Settled
      BY <1>t, <3>1, SettledFree
    <3>6. EnoughCalled => EnoughCalled'
      <4>1. Len(queue) - 1 \in Nat /\ Len(queue) - 1 <= Len(queue)
        BY <1>n, <1>t, <3>5, EmptySeq
      <4> QED
        BY <2>b, <3>1, <3>2, <4>1, EnoughFewer
    <3> QED
      BY <3>1, <3>4, <3>5, <3>6 DEF Waiting
  <2> QED
    BY <1>9, <2>1, <2>2, <2>3, <2>4, TryStartWaiting DEF Call
<1>10. ASSUME NEW t \in Threads, WaitLeave(t)
       PROVE  Waiting'
  <2>1. Leaves(runnableReady, t) /\ UNCHANGED queue
    BY <1>10 DEF WaitLeave, listVars
  <2>2. Cardinality(Called') =
          IF t \in runnableReady.signalled THEN Cardinality(Called) + 1 ELSE Cardinality(Called)
    BY <1>10, LeaveBack, OneMore DEF Shape, PoolTypes, Called
  <2>3. EnoughCalled => EnoughCalled'
    <3>1. PICK d : d = runnableReady'
      OBVIOUS
    <3>2. d = Left(runnableReady, t)
      BY <1>10, <3>1 DEF WaitLeave
    <3>3. EnoughCalled => Enough(Len(queue), d, Cardinality(Called'))
      BY <1>n, <2>1, <2>2, <3>2, EnoughMoves DEF WaitsCounted, EnoughCalled
    <3> QED
      BY <2>1, <3>1, <3>3 DEF EnoughCalled, Enough
  <2> QED
    BY <1>10, <1>e, <1>k, <2>3 DEF WaitLeave, listVars
<1> QED
  BY <1>1, <1>2, <1>3, <1>4, <1>5, <1>6, <1>7, <1>8, <1>9, <1>10, NextCases, WaitEndWaiting,
     ResetEndWaiting

-----------------------------------------------------------------------------
(* The threads of the pool, when the mutex is free                         *)

\* Two sets of threads have at most the sum of their members.
LEMMA BothAtMost ==
  ASSUME NEW S \in SUBSET Threads, NEW T \in SUBSET Threads
  PROVE  /\ Cardinality(S \cup T) <= Cardinality(S) + Cardinality(T)
         /\ Cardinality(S \cup T) \in Nat
<1>1. IsFiniteSet(S) /\ IsFiniteSet(T) /\ S \cup T \in SUBSET Threads
  BY ThreadSet
<1>2. /\ Cardinality(S \cup T) = Cardinality(S) + Cardinality(T) - Cardinality(S \cap T)
      /\ Cardinality(S) \in Nat /\ Cardinality(T) \in Nat
      /\ Cardinality(S \cap T) \in Nat /\ Cardinality(S \cup T) \in Nat
  BY <1>1, FS_Union, ThreadSet
<1> QED
  BY <1>2

\* Each has expired, or waits, or is back from the wait, or has a task.
LEMMA AllCounted ==
  ASSUME Shape, PoolKnown, StoppedKnown, mutex = Free
  PROVE  Cardinality(allThreads) <= Len(expiredThreads) + Cardinality(Idle) + Cardinality(Late)
                                      + Cardinality(Called) + Cardinality(Running)
<1>t. /\ ClientsKnown /\ thread \in [Threads -> ThreadState]
      /\ allThreads \in SUBSET Threads /\ expiredThreads \in Seq(Threads)
  BY DEF Shape, PoolTypes
<1>s. /\ Idle \in SUBSET Threads /\ Late \in SUBSET Threads /\ Called \in SUBSET Threads
      /\ Running \in SUBSET Threads
  BY DEF Idle, Late, Called, Running
<1>n. /\ Cardinality(Idle) \in Nat /\ Cardinality(Late) \in Nat /\ Cardinality(Called) \in Nat
      /\ Cardinality(Running) \in Nat /\ Cardinality(allThreads) \in Nat
  BY <1>s, <1>t, ThreadSet
<1>e. Cardinality(ExpiredSet) = Len(expiredThreads) /\ Len(expiredThreads) \in Nat
      /\ ExpiredSet \in SUBSET Threads
  BY <1>t, ExpiredCount DEF PoolKnown
<1>1. ASSUME NEW u \in allThreads
      PROVE  u \in ExpiredSet \/ u \in Idle \/ u \in Late \/ u \in Called \/ u \in Running
  <2>1. u \in Threads /\ thread[u] \in ThreadState /\ thread[u].at # "none"
    BY <1>t DEF PoolKnown, ResetKnown
  <2>2. Stopped(u) => u \in ExpiredSet
    BY <1>t, FreeKnown DEF StoppedKnown
  <2> QED
    BY <2>1, <2>2 DEF ThreadState, Stopped, Idle, Late, Called, Running
<1> DEFINE A == ExpiredSet \cup Idle  B == A \cup Late  C == B \cup Called  D == C \cup Running
<1>2. /\ A \in SUBSET Threads /\ B \in SUBSET Threads /\ C \in SUBSET Threads
      /\ D \in SUBSET Threads /\ allThreads \subseteq D
  BY <1>e, <1>s, <1>1
<1>3. Cardinality(A) <= Len(expiredThreads) + Cardinality(Idle) /\ Cardinality(A) \in Nat
  BY <1>e, <1>s, BothAtMost
<1>4. Cardinality(B) <= Cardinality(A) + Cardinality(Late) /\ Cardinality(B) \in Nat
  <2> HIDE DEF A
  <2> QED
    BY <1>2, <1>s, BothAtMost
<1>5. Cardinality(C) <= Cardinality(B) + Cardinality(Called) /\ Cardinality(C) \in Nat
  <2> HIDE DEF B
  <2> QED
    BY <1>2, <1>s, BothAtMost
<1>6. Cardinality(D) <= Cardinality(C) + Cardinality(Running) /\ Cardinality(D) \in Nat
  <2> HIDE DEF C
  <2> QED
    BY <1>2, <1>s, BothAtMost
<1> HIDE DEF A, B, C, D
<1>7. Cardinality(allThreads) <= Cardinality(D)
  BY <1>2, FewerThreads
<1>8. Cardinality(B) <= Len(expiredThreads) + Cardinality(Idle) + Cardinality(Late)
  BY <1>n, <1>e, <1>3, <1>4
<1>9. Cardinality(D) <= Cardinality(B) + Cardinality(Called) + Cardinality(Running)
  BY <1>n, <1>4, <1>5, <1>6
<1> QED
  BY <1>n, <1>e, <1>4, <1>6, <1>7, <1>8, <1>9

\* waitingThreads counts the late threads, and those that wait if none of them
\* has been called.
LEMMA CoversIdle ==
  ASSUME Shape, WaitsCounted, WaitsCovered
  PROVE  /\ waitingThreads >= Cardinality(Late) /\ waitingThreads >= 0
         /\ runnableReady.signalled = {} \/ runnableReady.wakeups = 0 =>
              waitingThreads >= Cardinality(Late) + Cardinality(Idle)
<1>1. /\ runnableReady.wakeups \in Nat /\ Cardinality(runnableReady.signalled) \in Nat
      /\ Cardinality(Idle) = runnableReady.waiters /\ runnableReady.waiters \in Nat
      /\ Cardinality(runnableReady.signalled) <= runnableReady.waiters
  BY ConditionParts DEF WaitsCounted
<1>2. waitingThreads \in Int /\ Cardinality(Late) \in Nat
  BY ThreadSet DEF Shape, PoolTypes, Late
<1>3. /\ waitingThreads >= Cardinality(Late) + runnableReady.waiters - runnableReady.wakeups
      /\ waitingThreads >= Cardinality(Late) + runnableReady.waiters
                             - Cardinality(runnableReady.signalled)
  BY DEF WaitsCovered, Covered
<1>4. runnableReady.signalled = {} => Cardinality(runnableReady.signalled) = 0
  BY FS_EmptySet
<1> QED
  BY <1>1, <1>2, <1>3, <1>4

\* If no thread is called, the limit is used up by those that have a task.
LEMMA LimitRunning ==
  ASSUME Shape, WaitsCounted, WaitsCovered, PoolKnown, StoppedKnown, Waiting, mutex = Free,
         ~isExiting, queue # <<>>, Called = {},
         runnableReady.signalled = {} \/ runnableReady.wakeups = 0
  PROVE  Cardinality(Running) + reservedThreads >= maxThreadCount
<1>t. /\ ClientsKnown /\ queue \in Seq(Entry) /\ Running \in SUBSET Threads
      /\ Idle \in SUBSET Threads /\ Late \in SUBSET Threads
  BY DEF Shape, PoolTypes, Running, Idle, Late
<1>n. /\ Cardinality(allThreads) \in Nat /\ Len(expiredThreads) \in Nat /\ Len(queue) \in Nat
      /\ waitingThreads \in Int /\ reservedThreads \in Int /\ maxThreadCount \in Int
  BY CountTypes
<1>s. /\ Cardinality(Running) \in Nat /\ Cardinality(Idle) \in Nat /\ Cardinality(Late) \in Nat
  BY <1>t, ThreadSet
<1>1. Cardinality(Called) = 0
  BY FS_EmptySet
<1>2. ~EnoughCalled
  <2>1. Len(queue) # 0
    BY <1>t, EmptySeq
  <2>2. runnableReady.signalled = {} => Cardinality(runnableReady.signalled) = 0
    BY FS_EmptySet
  <2> QED
    BY <1>n, <1>1, <2>1, <2>2 DEF EnoughCalled, Enough
<1>3. AtLimit
  BY <1>t, <1>2, SettledFree DEF Waiting
<1>4. Cardinality(allThreads) - Len(expiredThreads) - waitingThreads + reservedThreads
        >= maxThreadCount
  BY <1>3 DEF AtLimit, ActiveThreadCount
<1>5. Cardinality(allThreads) <= Len(expiredThreads) + Cardinality(Idle) + Cardinality(Late)
                                   + Cardinality(Called) + Cardinality(Running)
  BY AllCounted
<1>6. waitingThreads >= Cardinality(Late) + Cardinality(Idle)
  BY CoversIdle
<1> QED
  BY <1>n, <1>s, <1>1, <1>4, <1>5, <1>6

-----------------------------------------------------------------------------
(* A reset leaves no task in the queue that a thread could run             *)

\* The same threads are left to run the tasks.
LEMMA ExitingKept ==
  ASSUME Exiting, UNCHANGED <<isExiting, maxThreadCount, runnableReady>>, Called' = Called,
         queue' # <<>> => queue # <<>>, Running # {} => Running' # {},
         reservedThreads >= maxThreadCount => reservedThreads' >= maxThreadCount
  PROVE  Exiting'
BY DEF Exiting

\* In a reset there are never too many threads.
LEMMA ExitingFew ==
  ASSUME Shape, WaitsCounted, WaitsCovered, PoolKnown, isExiting
  PROVE  ~TooManyThreadsActive
<1>1. /\ Len(expiredThreads) \in Nat /\ waitingThreads \in Int /\ reservedThreads \in Int
      /\ waitingThreads >= 0
  BY CountTypes, CoversIdle
<1>2. Cardinality(allThreads) = 0
  <2>1. allThreads = {}
    BY DEF PoolKnown, ResetKnown
  <2> QED
    BY <2>1, FS_EmptySet
<1>3. ActiveThreadCount - reservedThreads = 0 - Len(expiredThreads) - waitingThreads
  BY <1>1, <1>2 DEF ActiveThreadCount
<1>4. ~(ActiveThreadCount - reservedThreads > 1)
  BY <1>1, <1>3
<1> QED
  BY <1>4 DEF TooManyThreadsActive

\* A thread that looks for work in a reset runs the next task, if there is one.
LEMMA LookExiting ==
  ASSUME Shape, WaitsCounted, WaitsCovered, PoolKnown, Exiting, isExiting, isExiting',
         UNCHANGED <<maxThreadCount, reservedThreads>>,
         NEW t \in Threads, NEW active, LookForWork(t, active, runnableReady)
  PROVE  Exiting'
<1>t. thread \in [Threads -> ThreadState] /\ ~TooManyThreadsActive
  BY ExitingFew DEF Shape, PoolTypes
<1>1. CASE Takes(t, active, runnableReady)
  <2> DEFINE s == Runs(Head(queue).task)
  <2>1. thread' = [thread EXCEPT ![t] = s] /\ s.at = "task" /\ UNCHANGED runnableReady
    BY <1>1 DEF Takes, Runs
  <2> HIDE DEF s
  <2>2. t \in Running'
    BY <1>t, <2>1 DEF Running
  <2> QED
    BY <2>1, <2>2 DEF Exiting
<1>2. CASE Exits(t, active, runnableReady)
  BY <1>2, <1>t DEF Exits, Exiting
<1>3. CASE TooMany(t, active, runnableReady) \/ Idles(t, active, runnableReady)
  BY <1>3 DEF TooMany, Idles
<1> QED
  BY <1>1, <1>2, <1>3, LookCases

\* A wait ends in a reset.
LEMMA WaitEndExiting ==
  ASSUME Shape, WaitsCounted, WaitsCovered, PoolKnown, Exiting, isExiting,
         NEW t \in Threads, WaitEnd(t)
  PROVE  Exiting'
<1>1. CASE LookForWork(t, ActiveAgain, runnableReady)
  BY <1>1, LookExiting DEF WaitEnd
<1>2. CASE thread[t].at = "late" /\ Expires(t, ActiveAgain) /\ UNCHANGED <<queue, runnableReady>>
  <2>1. thread \in [Threads -> ThreadState]
    BY DEF Shape, PoolTypes
  <2>2. PICK s : s = At("left")
    OBVIOUS
  <2>3. thread' = [thread EXCEPT ![t] = s] /\ s.at = "left"
    BY <1>2, <2>2 DEF Expires, Leaves_run, At
  <2>4. \A u \in Threads : u # t => thread'[u] = thread[u]
    BY <2>1, <2>3
  <2>5. Called' = Called
    BY <1>2, <2>1, <2>3, Moved DEF Called
  <2>6. \A u \in Running : u \in Running'
    BY <1>2, <2>4 DEF Running
  <2> QED
    BY <1>2, <2>5, <2>6, ExitingKept DEF WaitEnd
<1> QED
  BY <1>1, <1>2 DEF WaitEnd

\* A thread leaves the condition in a reset.
LEMMA WaitLeaveExiting ==
  ASSUME Shape, WaitsCounted, Exiting, isExiting, NEW t \in Threads, WaitLeave(t)
  PROVE  Exiting'
<1>t. thread \in [Threads -> ThreadState]
  BY DEF Shape, PoolTypes
<1>1. /\ Leaves(runnableReady, t)
      /\ UNCHANGED <<queue, isExiting, maxThreadCount, reservedThreads>>
  BY DEF WaitLeave, listVars, countVars
<1>2. PICK d : d = runnableReady' /\ d = Left(runnableReady, t)
  BY DEF WaitLeave
<1>3. /\ t \in runnableReady.signalled =>
           /\ d.wakeups = runnableReady.wakeups - 1
           /\ Cardinality(d.signalled) = Cardinality(runnableReady.signalled) - 1
      /\ t \notin runnableReady.signalled =>
           d.wakeups = runnableReady.wakeups /\ d.signalled = runnableReady.signalled
      /\ d.asleep = runnableReady.asleep
  <2>1. WaitedFor(runnableReady, Idle)
    BY DEF WaitsCounted
  <2>2. Left(runnableReady, t).asleep = runnableReady.asleep
    BY <1>1, <2>1, LeftCounted
  <2>3. d.asleep = runnableReady.asleep
    BY <1>2, <2>2
  <2> QED
    BY <1>1, <1>2, <2>1, <2>3, LeftNumbers
<1>4. /\ runnableReady.wakeups \in Nat /\ Cardinality(runnableReady.signalled) \in Nat
      /\ runnableReady.asleep = {}
      /\ runnableReady.wakeups >= Cardinality(runnableReady.signalled)
  BY ConditionParts DEF WaitsCounted, Exiting
<1>5. d.asleep = {} /\ d.wakeups >= Cardinality(d.signalled)
  <2>1. CASE t \in runnableReady.signalled
    BY <1>3, <1>4, <2>1
  <2>2. CASE t \notin runnableReady.signalled
    BY <1>3, <1>4, <2>2
  <2> QED
    BY <2>1, <2>2
<1>6. Running # {} => Running' # {}
  <2>1. PICK s : s = At(IF t \in runnableReady.signalled THEN "called" ELSE "late")
    OBVIOUS
  <2>2. thread' = [thread EXCEPT ![t] = s] /\ thread[t].at = "idle"
    BY <2>1 DEF WaitLeave
  <2>3. \A u \in Running : u \in Running'
    BY <1>t, <2>2 DEF Running
  <2> QED
    BY <2>3
<1>7. CASE t \in runnableReady.signalled
  <2>1. Called' # {}
    BY <1>7, <1>t, LeaveBack
  <2> QED
    BY <1>1, <1>2, <1>5, <2>1 DEF Exiting
<1>8. CASE t \notin runnableReady.signalled
  <2>1. Called' = Called
    BY <1>8, <1>t, LeaveBack
  <2> QED
    BY <1>1, <1>2, <1>3, <1>5, <1>6, <1>8, <2>1 DEF Exiting
<1> QED
  BY <1>7, <1>8

\* A reset begins: every thread that waits is woken.
LEMMA ResetExiting ==
  ASSUME Shape, WaitsCounted, WaitsCovered, PoolKnown, PoolKnown', StoppedKnown,
         Waiting, NEW c \in Clients, Reset(c)
  PROVE  Exiting'
<1>t. /\ client \in [Clients -> ClientState] /\ mutex = Free
      /\ reservedThreads \in Int /\ maxThreadCount \in Int
  BY CountTypes DEF Shape, PoolTypes, Reset
<1>1. ~isExiting
  <2> DEFINE s == [User EXCEPT !.at = "join", !.joining = allThreads]
  <2>1. Becomes(c, s) /\ s.at = "join" /\ client[c].at = "return"
    BY DEF Reset, User
  <2> HIDE DEF s
  <2>2. client'[c] = s /\ \A d \in Clients : d # c => client'[d] = client[d]
    BY <1>t, <2>1 DEF Becomes
  <2>3. \A d \in Clients : client[d].at # "join"
    BY <2>1, <2>2 DEF PoolKnown, ResetKnown
  <2> QED
    BY <2>3 DEF PoolKnown, ResetKnown
<1>2. PICK d : d = runnableReady' /\ d = WokenAll(runnableReady)
  BY DEF Reset
<1>3. /\ d.asleep = {} /\ d.wakeups >= Cardinality(d.signalled)
      /\ runnableReady.signalled \subseteq d.signalled
  <2>1. /\ d.asleep = {} /\ d.wakeups = runnableReady.waiters
        /\ Cardinality(d.signalled) \in Nat /\ Cardinality(d.signalled) <= runnableReady.waiters
    BY <1>2, WokenAllNumbers DEF WaitsCounted
  <2>2. runnableReady.waiters \in Nat
    BY ConditionParts DEF WaitsCounted
  <2>3. d.signalled = runnableReady.signalled \cup runnableReady.asleep
    BY <1>2, WokenAllCounted DEF WaitsCounted
  <2> QED
    BY <2>1, <2>2, <2>3
<1>4. ASSUME queue # <<>>, Running = {}, Called = {}, d.signalled = {}
      PROVE  reservedThreads >= maxThreadCount
  <2>1. Cardinality(Running) + reservedThreads >= maxThreadCount
    BY <1>1, <1>3, <1>4, <1>t, LimitRunning
  <2>2. Cardinality(Running) = 0
    BY <1>4, FS_EmptySet
  <2> QED
    BY <1>t, <2>1, <2>2
<1>5. /\ UNCHANGED <<queue, reservedThreads, maxThreadCount>> /\ Running' = Running
      /\ Called' = Called
  BY DEF Reset, countVars, Running, Called
<1> QED
  BY <1>2, <1>3, <1>4, <1>5 DEF Exiting

\* Every step of a reset leaves it so.
LEMMA ExitingStep ==
  ASSUME Shape, WaitsCounted, WaitsCovered, PoolKnown, PoolKnown', StoppedKnown,
         Waiting, Exiting, Next
  PROVE  Exiting'
<1>t. /\ thread \in [Threads -> ThreadState] /\ ClientsKnown /\ queue \in Seq(Entry)
      /\ reservedThreads \in Int /\ maxThreadCount \in Int
  BY CountTypes DEF Shape, PoolTypes
<1>e. isExiting => mutex = Free /\ allThreads = {}
  BY DEF PoolKnown, ResetKnown
<1>u. ASSUME UNCHANGED <<queue, isExiting, maxThreadCount, reservedThreads, runnableReady>>,
             Called' = Called, Running # {} => Running' # {}
      PROVE  Exiting'
  BY <1>u, ExitingKept
<1>n. isExiting' = isExiting /\ ~isExiting => Exiting'
  BY DEF Exiting
<1>1. ASSUME NEW t \in Threads, RunBegin(t) \/ FinishBegin(t) \/ FinishEnd(t)
      PROVE  Exiting'
  <2>1. Running # {} => Running' # {}
    <3>1. PICK s : thread' = [thread EXCEPT ![t] = s] /\ (t \in Running => s.at = "task")
      <4>1. CASE RunBegin(t)
        <5>1. PICK s : s = Runs(runnable[t])
          OBVIOUS
        <5>2. s.at = "task" /\ thread' = [thread EXCEPT ![t] = s]
          BY <4>1, <5>1 DEF RunBegin, Runs
        <5> QED
          BY <5>2
      <4>2. CASE FinishBegin(t)
        BY <4>2 DEF FinishBegin, Running
      <4>3. CASE FinishEnd(t)
        BY <4>3 DEF FinishEnd, Running
      <4> QED
        BY <1>1, <4>1, <4>2, <4>3
    <3>2. thread'[t] = s /\ \A u \in Threads : u # t => thread'[u] = thread[u]
      BY <1>t, <3>1
    <3>3. \A u \in Running : u \in Running'
      BY <3>1, <3>2 DEF Running
    <3> QED
      BY <3>3
  <2>2. Called' = Called
    BY <1>1, BackSame DEF OtherStep
  <2> QED
    BY <1>1, <1>u, <2>1, <2>2 DEF RunBegin, FinishBegin, FinishEnd, listVars, countVars
<1>2. ASSUME NEW t \in Threads, WaitStep(t)
      PROVE  Exiting'
  <2>1. CASE ~isExiting
    BY <1>2, <1>n, <2>1 DEF WaitStep
  <2>2. CASE isExiting
    <3>1. /\ runnableReady.asleep = {}
          /\ runnableReady.wakeups >= Cardinality(runnableReady.signalled)
      BY <2>2 DEF Exiting
    <3>2. t \in runnableReady.signalled /\ runnableReady.wakeups = 0
      BY <1>2, <3>1 DEF WaitStep, SleepsAgain
    <3>3. /\ runnableReady.signalled \in SUBSET Threads
          /\ Cardinality(runnableReady.signalled) \in Nat
      BY ConditionParts DEF WaitsCounted
    <3>4. Cardinality(runnableReady.signalled) = 0
      BY <3>1, <3>2, <3>3
    <3>5. runnableReady.signalled = {}
      BY <3>3, <3>4, ThreadSet, FS_EmptySet
    <3> QED
      BY <3>2, <3>5
  <2> QED
    BY <2>1, <2>2
<1>3. ASSUME NEW t \in Threads, TaskEnd(t)
      PROVE  Exiting'
  <2>1. CASE ~isExiting
    BY <1>3, <1>n, <2>1 DEF TaskEnd
  <2>2. CASE isExiting
    BY <1>3, <2>2, LookExiting DEF TaskEnd, Exiting
  <2> QED
    BY <2>1, <2>2
<1>4. ASSUME NEW t \in Threads, WaitEnd(t)
      PROVE  Exiting'
  <2>1. CASE ~isExiting
    BY <1>4, <1>n, <2>1 DEF WaitEnd
  <2> QED
    BY <1>4, <2>1, WaitEndExiting
<1>10. ASSUME NEW t \in Threads, WaitLeave(t)
       PROVE  Exiting'
  <2>1. CASE ~isExiting
    BY <1>10, <1>n, <2>1 DEF WaitLeave
  <2> QED
    BY <1>10, <2>1, WaitLeaveExiting
<1>5. ASSUME NEW c \in Clients, QThreadStart(c) \/ TryToStartMoreThreads(c)
      PROVE  Exiting'
  <2>1. mutex = c
    BY <1>5, <1>t DEF QThreadStart, TryToStartMoreThreads, ClientsKnown
  <2>2. ~isExiting /\ isExiting' = isExiting
    BY <1>5, <1>e, <2>1, PoolAssumption DEF QThreadStart, TryToStartMoreThreads, Clients
  <2> QED
    BY <1>n, <2>2
<1>6. ASSUME NEW c \in Clients, StealEnd(c) \/ WaitForDoneWoken(c) \/ WaitCall(c)
      PROVE  Exiting'
  <2>1. /\ UNCHANGED <<queue, isExiting, maxThreadCount, reservedThreads, runnableReady, thread>>
    BY <1>6 DEF StealEnd, WaitForDoneWoken, WaitCall, WaitForDone, WaitForDoneExpired, Looks,
                listVars, countVars
  <2> QED
    BY <1>u, <2>1 DEF Running, Called
<1>7. ASSUME NEW c \in Clients, ResetEnd(c)
      PROVE  Exiting'
  <2>1. isExiting
    BY <1>7 DEF ResetEnd, PoolKnown, ResetKnown
  <2>2. isExiting' = FALSE
    BY <1>7, <1>e, <2>1 DEF ResetEnd
  <2> QED
    BY <2>2 DEF Exiting
<1>8. ASSUME NEW c \in Clients, NEW t \in Threads, Join(c, t)
      PROVE  Exiting'
  <2>1. /\ thread' = [thread EXCEPT ![t] = At("none")] /\ thread[t].at = "done"
        /\ UNCHANGED <<queue, isExiting, maxThreadCount, reservedThreads, runnableReady>>
    BY <1>8 DEF Join, listVars, countVars
  <2>2. \A u \in Running : u \in Running'
    BY <1>t, <2>1, Moved DEF Running
  <2>3. Called' = Called
    BY <1>8, BackSame DEF OtherStep
  <2> QED
    BY <1>u, <2>1, <2>2, <2>3
<1>9. ASSUME NEW c \in Clients, Call(c)
      PROVE  Exiting'
  <2>1. ASSUME NEW task \in Tasks, NEW p, TryStart(c, task) \/ Queue(c, task, p)
        PROVE  Exiting'
    BY <2>1, <1>n DEF TryStart, Queue, MayStart, MayLaunch
  <2>2. ASSUME NEW n, SetMaxThreadCount(c, n) \/ ReleaseThread(c) PROVE Exiting'
    BY <2>2, <1>n DEF SetMaxThreadCount, ReleaseThread, MayLaunch
  <2>3. CASE ReserveThread(c)
    <3>1. reservedThreads >= maxThreadCount => reservedThreads' >= maxThreadCount
      BY <1>t, <2>3 DEF ReserveThread
    <3> QED
      BY <2>3, <3>1, ExitingKept DEF ReserveThread, listVars, Running, Called
  <2>4. ASSUME NEW n \in DOMAIN queue, StealRunnable(c, n) PROVE Exiting'
    <3>1. queue # <<>>
      BY <2>4
    <3> QED
      BY <2>4, <3>1, ExitingKept DEF StealRunnable, countVars, Running, Called
  <2> QED
    BY <1>9, <2>1, <2>2, <2>3, <2>4 DEF Call
<1> QED
  BY <1>1, <1>2, <1>3, <1>4, <1>5, <1>6, <1>7, <1>8, <1>9, <1>10, NextCases, ResetExiting

-----------------------------------------------------------------------------
(* The queue is served                                                     *)

QueueServed == WaitsCovered /\ Waiting /\ Exiting
Served == mishaps \cap {"lost", "overtaken", "overlapped"} = {} => QueueServed

\* Until something goes wrong, every step leaves the queue served.
LEMMA ServedStep ==
  ASSUME Shape, Shape', WaitsCounted, WaitsCounted', NoOverlap, NoOverlap',
         Finished, Served, [Next]_vars
  PROVE  Served'
<1>1. CASE Next
  <2> SUFFICES ASSUME mishaps' \cap {"lost", "overtaken", "overlapped"} = {} PROVE QueueServed'
    BY DEF Served
  <2>1. mishaps \subseteq mishaps' /\ ~Overtaken
    BY <1>1, NextCases, Remembered
  <2>2. PoolKnown /\ PoolKnown'
    BY <2>1 DEF NoOverlap
  <2>3. StoppedKnown /\ QueueServed
    <3>1. /\ mishaps \cap {"lost", "overlapped"} = {}
          /\ mishaps \cap {"lost", "overtaken", "overlapped"} = {}
      BY <2>1
    <3> QED
      BY <3>1 DEF Finished, Served
  <2> QED
    BY <1>1, <2>1, <2>2, <2>3, CoveredStep, WaitingStep, ExitingStep DEF QueueServed
<1>2. CASE UNCHANGED vars
  BY <1>2 DEF vars, listVars, countVars, Served, QueueServed, WaitsCovered, Covered, Waiting,
              Exiting, Settled, EnoughCalled, Enough, AtLimit, ActiveThreadCount, Running,
              Called, Late
<1> QED
  BY <1>1, <1>2

\* In a queue that is served no task is stranded.
LEMMA QueueLooked ==
  ASSUME Shape, WaitsCounted, NoOverlap, Finished, Served
  PROVE  NoTaskStranded
<1> SUFFICES ASSUME mishaps \cap {"lost", "overtaken", "overlapped"} = {},
                    queue # <<>>, mutex = Free, ~isExiting, ~WillLook
             PROVE  LimitUsedUp
  BY DEF NoTaskStranded, StartUsesThreads
<1>1. PoolKnown /\ StoppedKnown /\ WaitsCovered /\ Waiting
  <2>1. "overlapped" \notin mishaps /\ mishaps \cap {"lost", "overlapped"} = {}
    OBVIOUS
  <2> QED
    BY <2>1 DEF NoOverlap, Finished, Served, QueueServed
<1>2. Called = {}
  BY DEF WillLook, Called
<1>3. runnableReady.signalled = {} \/ runnableReady.wakeups = 0
  <2>1. runnableReady.wakeups \in Nat
    BY CountTypes
  <2> QED
    BY <2>1 DEF WillLook
<1>4. Cardinality(Running) + reservedThreads >= maxThreadCount
  BY <1>1, <1>2, <1>3, LimitRunning
<1>5. Cardinality(Running) <= Cardinality(Busy)
  <2>1. Running \in SUBSET Busy /\ Busy \in SUBSET Threads
    BY DEF Running, Busy, Shape, ThreadsKnown
  <2> QED
    BY <2>1, FewerThreads
<1>6. /\ Cardinality(Running) \in Nat /\ Cardinality(Busy) \in Nat
      /\ reservedThreads \in Int /\ maxThreadCount \in Int
  BY CountTypes, ThreadSet DEF Running, Busy
<1> QED
  BY <1>4, <1>5, <1>6 DEF LimitUsedUp

-----------------------------------------------------------------------------
(* The invariant and the theorems                                          *)

\* Initially there is no thread, and nothing to count.
LEMMA InitEmpty ==
  ASSUME Init
  PROVE  /\ Running = {} /\ Idle = {} /\ Busy = {} /\ ExpiredSet = {} /\ ~SomeLaunch
         /\ \A t : ~Launching(t) /\ ~Joined(t)
         /\ \A k \in Tasks : Given(k) = {} /\ Ran(k) = {} /\ Holds(queue, k) = {}
         /\ \A c \in Clients : client[c] = User
         /\ \A t \in Threads : thread[t] = At("none") /\ runnable[t] = NoTask
<1>1. \A c \in Clients : client[c] = User
  BY DEF Init
<1>2. \A t \in Threads : thread[t] = At("none") /\ runnable[t] = NoTask
  BY DEF Init
<1>3. Running = {} /\ Idle = {} /\ Busy = {}
  BY <1>2 DEF Running, Idle, Busy, At
<1>4. ExpiredSet = {} /\ \A k \in Tasks : Holds(queue, k) = {}
  BY DEF Init, ExpiredSet, Holds
<1>5. ~SomeLaunch /\ \A t : ~Launching(t) /\ ~Joined(t)
  BY <1>1 DEF SomeLaunch, Launching, Joined, User
<1>6. \A k \in Tasks : Given(k) = {} /\ Ran(k) = {}
  BY <1>2, PoolAssumption DEF Given, Ran, At
<1> QED
  BY <1>1, <1>2, <1>3, <1>4, <1>5, <1>6

\* What the other parts of the invariant rest on
Known ==
  /\ Shape /\ WaitsCounted /\ RunningCounted /\ NoOverlap /\ MishapsKnown

\* Initially all this is so.
LEMMA InitKnown ==
  ASSUME Init
  PROVE  Known
<1>1. Shape
  <2>1. PoolTypes
    <3>1. /\ queue \in Seq(Entry) /\ expiredThreads \in Seq(Threads)
          /\ waitingThreads \in Int /\ calls \in 0 .. MaxCalls
      BY PoolAssumption DEF Init
    <3>2. thread \in [Threads -> ThreadState] /\ client \in [Clients -> ClientState]
          /\ runnable \in [Threads -> Tasks \cup {NoTask}]
      BY DEF Init, At, User, ThreadState, ClientState
    <3> QED
      BY <3>1, <3>2, PoolAssumption DEF Init, PoolTypes
  <2>2. ClientsKnown /\ LaunchKnown
    BY InitEmpty, PoolAssumption DEF Init, ClientsKnown, LaunchKnown, User, Clients
  <2>3. ThreadsKnown
    BY InitEmpty DEF ThreadsKnown, At
  <2> QED
    BY <2>1, <2>2, <2>3 DEF Shape
<1>2. WaitsCounted
  <2>1. Cardinality(Idle) = 0
    BY InitEmpty, FS_EmptySet
  <2>2. NewCondition \in ConditionOf(Threads)
    BY DEF NewCondition, ConditionOf
  <2> QED
    BY <2>1, <2>2, InitEmpty DEF Init, WaitsCounted, WaitedFor, NewCondition
<1>3. RunningCounted
  <2>1. Cardinality(Running) = 0
    BY InitEmpty, FS_EmptySet
  <2>2. activeThreads = 0 /\ ~SomeLaunch
    BY InitEmpty DEF Init
  <2> QED
    BY <2>1, <2>2 DEF RunningCounted
<1>4. NoOverlap
  <2>1. ResetKnown
    BY InitEmpty DEF Init, ResetKnown, At, User
  <2>2. ExpiredKnown
    <3>1. \A t : ~Launching(t)
      BY InitEmpty
    <3>2. DOMAIN expiredThreads = {}
      BY DEF Init
    <3>3. ExpiredSet = {} /\ \A t \in Threads : runnable[t] = NoTask
      BY InitEmpty
    <3> QED
      BY <3>1, <3>2, <3>3 DEF ExpiredKnown
  <2> QED
    BY <2>1, <2>2 DEF NoOverlap, PoolKnown
<1>5. MishapsKnown
  <2>1. ~Lost /\ ~Overlapped
    BY InitEmpty DEF Lost, Overlapped, User
  <2> QED
    BY <2>1 DEF MishapsKnown
<1> QED
  BY <1>1, <1>2, <1>3, <1>4, <1>5 DEF Known

\* Every step keeps it.
LEMMA KnownStep ==
  ASSUME Known, [Next]_vars
  PROVE  Known'
BY ShapeStep, WaitsStep, RunningStep, NoOverlapStep, MishapsStep DEF Known

\* The types follow from it, and from the count of uses.
LEMMA Types ==
  ASSUME Known, UsesCounted
  PROVE  TypeOK
BY ActiveNat DEF Known, Shape, PoolTypes, WaitsCounted, WaitedFor, UsesCounted, TypeOK, Entry

\* activeThreads stays the number of busy threads.
LEMMA ActiveStep ==
  ASSUME Known, ActiveThreadsCounted, [Next]_vars
  PROVE  ActiveThreadsCounted'
<1>1. CASE Next
  <2> SUFFICES ASSUME mishaps' \cap {"lost", "overlapped"} = {}
               PROVE  activeThreads' = Cardinality(Busy')
    BY DEF ActiveThreadsCounted
  <2>1. "lost" \notin mishaps /\ "overlapped" \notin mishaps
    BY <1>1, NextCases, Remembered
  <2>2. mishaps \cap {"lost", "overlapped"} = {}
    BY <2>1
  <2> QED
    BY <2>1, <2>2, CountedStep
    DEF Known, ActiveThreadsCounted, NoOverlap, MishapsKnown, RunningCounted
<1>2. CASE UNCHANGED vars
  BY <1>2 DEF vars, countVars, ActiveThreadsCounted, Busy
<1> QED
  BY <1>1, <1>2

PoolInvariant ==
  /\ Known /\ UsesCounted /\ StolenUnused /\ NothingDeletedInUse
  /\ ActiveThreadsCounted /\ Finished /\ Served

\* Init establishes the invariant,
LEMMA InvariantInit ==
  ASSUME Init
  PROVE  PoolInvariant
<1>1. UsesCounted
  <2>1. \A k \in Tasks : Uses(k) = 0
    BY InitEmpty, FS_EmptySet DEF Uses
  <2> QED
    BY <2>1, PoolAssumption DEF Init, UsesCounted
<1>2. StolenUnused
  BY InitEmpty, PoolAssumption DEF StolenUnused, User
<1>3. NothingDeletedInUse
  BY DEF Init, NothingDeletedInUse
<1>4. ActiveThreadsCounted
  BY InitEmpty, FS_EmptySet DEF Init, ActiveThreadsCounted
<1>5. Finished
  BY DEF Init, Finished, StoppedKnown
<1>6. Served
  <2>1. WaitsCovered
    <3>1. /\ runnableReady.signalled = {} /\ runnableReady.wakeups = 0
          /\ runnableReady.waiters = 0 /\ waitingThreads = 0
      BY DEF Init, NewCondition
    <3>2. Late = {}
      BY InitEmpty DEF Late, At
    <3>3. Cardinality(runnableReady.signalled) = 0 /\ Cardinality(Late) = 0
      BY <3>1, <3>2, FS_EmptySet
    <3> QED
      BY <3>1, <3>3 DEF WaitsCovered, Covered
  <2> QED
    BY <2>1 DEF Init, Served, QueueServed, Waiting, Exiting
<1> QED
  BY <1>1, <1>2, <1>3, <1>4, <1>5, <1>6, InitKnown DEF PoolInvariant

\* and every step keeps it.
LEMMA InvariantStep ==
  ASSUME PoolInvariant, [Next]_vars
  PROVE  PoolInvariant'
<1>1. Known' /\ UsesCounted'
  BY KnownStep, UsesStep DEF PoolInvariant, Known
<1>2. StolenUnused' /\ NothingDeletedInUse'
  BY StolenStep, DeletedStep DEF PoolInvariant, Known
<1>3. ActiveThreadsCounted'
  BY ActiveStep DEF PoolInvariant
<1>4. Finished' /\ Served'
  BY <1>1, FinishedStep, ServedStep DEF PoolInvariant, Known
<1> QED
  BY <1>1, <1>2, <1>3, <1>4 DEF PoolInvariant

\* The invariant of every behaviour of the pool.
THEOREM PoolInvariance == Spec => []PoolInvariant
<1>1. Init => PoolInvariant
  BY InvariantInit
<1>2. PoolInvariant /\ [Next]_vars => PoolInvariant'
  BY InvariantStep
<1> QED
  BY <1>1, <1>2, PTL DEF Spec

\* The fields of the pool have their types: neither activeThreads nor a
\* reference count is ever negative.
THEOREM TypeCorrect == Spec => []TypeOK
<1>1. PoolInvariant => TypeOK
  BY Types DEF PoolInvariant
<1> QED
  BY <1>1, PoolInvariance, PTL

\* activeThreads, which tells waitForDone whether to wait, is the number of
\* threads that have a task (registerTheadInactive, tryStart, startThread).
THEOREM ActiveThreadsAreCounted == Spec => []ActiveThreadsCounted
<1>1. PoolInvariant => ActiveThreadsCounted
  BY DEF PoolInvariant
<1> QED
  BY <1>1, PoolInvariance, PTL

\* QRunnable::ref deletes no task that the queue, a thread or a caller of
\* waitForFinished still has.
THEOREM NoUseAfterDelete == Spec => []NothingDeletedInUse
<1>1. PoolInvariant => NothingDeletedInUse
  BY DEF PoolInvariant
<1> QED
  BY <1>1, PoolInvariance, PTL

\* As long as tryStart has found a thread to wake for every one that it took off
\* waitingThreads, a task stays in the queue only while the busy and the reserved
\* threads use the limit up, a called thread is on its way, or the pool is reset:
\* whatever threads expire, and whoever starts, steals, reserves and sets limits.
THEOREM NoTaskIsStranded == Spec => []NoTaskStranded
<1>1. PoolInvariant => NoTaskStranded
  BY QueueLooked DEF PoolInvariant, Known
<1> QED
  BY <1>1, PoolInvariance, PTL

\* tryStart gives a task to a new or an expired thread only below maxThreadCount.
THEOREM LimitIsRespected == Spec => LimitRespected
<1>1. PoolInvariant /\ [Next]_vars =>
        [\A t \in Threads :
           runnable[t] = NoTask /\ runnable'[t] # NoTask /\ "overlapped" \notin mishaps =>
             Busy = {} \/ Cardinality(Busy) + reservedThreads < maxThreadCount]_vars
  BY LimitStep DEF PoolInvariant, Known
<1> QED
  BY <1>1, PoolInvariance, PTL DEF Spec, LimitRespected
=============================================================================
