----------------------- MODULE TorrentStreamsProofs -----------------------
(***************************************************************************)
(* Theorems about TorrentStreams, for any requests, addresses, handle ids  *)
(* and generations.                                                        *)
(***************************************************************************)
EXTENDS TorrentStreams, FiniteSetTheorems, TLAPS

-----------------------------------------------------------------------------
(* What LockIsExclusive and OpenStreamPlays rest on.                       *)

At(r, places) == request[r].at \in places
Open == {"register", "streaming", "closing"}
Counting == {"streaming", "closing"}
Sweeping == sweeper.at \in {"locked", "deleting"}
TimerHolds(t) == t.at \in {"locked", "pausing"}

(* Who waits for the lock of the hash, or has it, uses the one in `locks`. *)
LockInv ==
    /\ \A r \in Request :
         request[r].lock = IF At(r, Locking \cup {"queued"}) THEN lockEntry ELSE None
    /\ \A r \in Request : At(r, Locking \cup {"queued"}) => lockEntry # None
    /\ \A t \in timer : IF t.at = "sleep" THEN t.lock = None
                        ELSE t.lock = lockEntry /\ lockEntry # None
    /\ IF Sweeping THEN sweeper.lock = lockEntry /\ lockEntry # None ELSE sweeper.lock = None

(* The lock has one holder. *)
OneHolder ==
    /\ \A q, r \in Request : At(q, Locking) /\ At(r, Locking) => q = r
    /\ \A t, u \in timer : TimerHolds(t) /\ TimerHolds(u) => t = u
    /\ \A r \in Request : At(r, Locking) => ~Sweeping /\ \A t \in timer : ~TimerHolds(t)
    /\ Sweeping => \A t \in timer : ~TimerHolds(t)

(* The counter of the hash counts the open streams. *)
Streams(a) == {r \in Request : At(r, Counting) /\ request[r].counter = a}
CountInv ==
    /\ \A r \in Request : At(r, Open) => request[r].counter = streamEntry /\ streamEntry # None
    /\ \A a \in Address : IsFiniteSet(Streams(a)) /\ count[a] = Cardinality(Streams(a))

(* The handle of a request or stream is the torrent of the session. *)
HandleInv ==
    /\ handles # None => handles = torrent.id
    /\ \A r \in Request :
         /\ At(r, {"adding"}) => torrent.id = None
         /\ At(r, {"persisting", "init", "unpaused", "ready"} \cup Open)
              => request[r].handle = torrent.id /\ request[r].handle # None
         /\ At(r, {"missing", "barrier", "adding", "persisting"}) => handles = None
         /\ At(r, {"init", "unpaused"}) /\ request[r].new => handles = None

(* Nobody plays a torrent that is being added, or has failed. *)
Adds(r) ==
    \/ At(r, {"adding", "persisting"})
    \/ At(r, {"init", "unpaused", "ready"}) /\ request[r].new
DeletionInv ==
    /\ \A r \in Request : At(r, {"adding", "persisting"})
         => request[r].barrier = barrier /\ barrier # None
    /\ \A r, q \in Request : Adds(r) => ~At(q, Open)
    /\ \A d \in deletion :
         /\ d.barrier = barrier /\ handles = None
         /\ \A e \in deletion : e = d
         /\ \A r \in Request :
              ~At(r, {"adding", "persisting", "init", "unpaused", "ready"} \cup Open)

(* What is about to be paused or retired is not played. *)
PauseInv ==
    /\ \A r \in Request : At(r, {"unpaused", "ready"} \cup Open) => ~torrent.paused
    /\ Sweeping \/ (\E t \in timer : t.at = "pausing") => \A r \in Request : ~At(r, Counting)

TorrentInv ==
    /\ TypeOK /\ LockInv /\ OneHolder /\ CountInv /\ HandleInv /\ DeletionInv /\ PauseInv

-----------------------------------------------------------------------------
(* Type correctness.  The count needs CountInv: a stream that closes was   *)
(* counted.                                                                *)

Places == [at : Locking \cup {"idle", "queued", "streaming", "closing"},
           kind : {"none", "resolve", "stream"}, lock : Address \cup {None},
           handle : Id \cup {None}, new : BOOLEAN, barrier : Address \cup {None},
           counter : Address \cup {None}, gen : Nat]
Timers == [at : {"sleep", "queued", "locked", "pausing"}, counter : Address,
           gen : Nat, handle : Id, lock : Address \cup {None}]
Sweepers == [at : {"idle", "listed", "locked", "deleting"},
             handle : Id \cup {None}, lock : Address \cup {None}]

EntriesOK ==
    /\ {lockEntry, streamEntry, barrier} \subseteq Address \cup {None}
    /\ torrent \in [id : Id \cup {None}, paused : BOOLEAN]
    /\ handles \in Id \cup {None}
    /\ deletion \subseteq [barrier : Address, ids : SUBSET Id]
    /\ recent \in BOOLEAN
CountersOK ==
    count \in [Address -> Nat] /\ generation \in [Address -> Nat] /\ idle \in [Address -> Nat]

LEMMA TypeSplit ==
    /\ TypeOK <=> /\ EntriesOK /\ CountersOK /\ request \in [Request -> Places]
                  /\ timer \subseteq Timers /\ sweeper \in Sweepers
    /\ TypeOK' <=> /\ EntriesOK' /\ CountersOK' /\ request' \in [Request -> Places]
                   /\ timer' \subseteq Timers /\ sweeper' \in Sweepers
<1>1. TypeOK <=> /\ EntriesOK /\ CountersOK /\ request \in [Request -> Places]
                 /\ timer \subseteq Timers /\ sweeper \in Sweepers
  BY DEF TypeOK, EntriesOK, CountersOK, Places, Timers, Sweepers
<1>2. TypeOK' <=> /\ EntriesOK' /\ CountersOK' /\ request' \in [Request -> Places]
                  /\ timer' \subseteq Timers /\ sweeper' \in Sweepers
  BY DEF TypeOK, EntriesOK, CountersOK, Places, Timers, Sweepers
<1> QED BY <1>1, <1>2

(* A step of a request, and where the others are: as they were. *)
Acts(r) == Prepare(r) \/ Fail(r) \/ Serve(r)
Goes(r, from, to) == request[r].at = from /\ request'[r].at = to
Others(r) == \A q \in Request : q # r => request'[q] = request[q]
Keeps(r) ==
    /\ request'[r].lock = request[r].lock /\ request'[r].handle = request[r].handle
    /\ request'[r].new = request[r].new /\ request'[r].barrier = request[r].barrier
    /\ request'[r].counter = request[r].counter

(* What each step does to its request. *)
LEMMA PrepareSteps ==
    ASSUME TypeOK, NEW r \in Request
    PROVE  /\ \A kind \in {"resolve", "stream"}, a \in Address : Arrive(r, kind, a) =>
                /\ Goes(r, "idle", "queued") /\ Others(r) /\ request'[r].lock = a
                /\ request'[r].barrier = None /\ request'[r].counter = None
                /\ lockEntry' = a /\ lockEntry \in {None, a}
           /\ Lock(r) => Goes(r, "queued", "find") /\ Others(r) /\ Keeps(r)
           /\ FindHandle(r) =>
                /\ Others(r) /\ request[r].at = "find" /\ request'[r].lock = request[r].lock
                /\ \/ handles = None /\ request'[r].at = "missing"
                   \/ /\ handles # None /\ request'[r].at = "init"
                      /\ request'[r].handle = handles /\ request'[r].new = FALSE
           /\ WaitForDeletion(r) =>
                Goes(r, "missing", "barrier") /\ Others(r) /\ request'[r].lock = request[r].lock
           /\ Notified(r) =>
                Goes(r, "barrier", "missing") /\ Others(r) /\ request'[r].lock = request[r].lock
           /\ Adopt(r) =>
                /\ Goes(r, "missing", "init") /\ Others(r) /\ request'[r].lock = request[r].lock
                /\ request'[r].handle = torrent.id /\ request'[r].new = FALSE
           /\ \A a \in Address : Add(r, a) =>
                /\ Goes(r, "missing", "adding") /\ Others(r) /\ request'[r].lock = request[r].lock
                /\ request'[r].barrier = a
           /\ \A id \in Id : Inserted(r, id) =>
                /\ Goes(r, "adding", "persisting") /\ Others(r)
                /\ request'[r].lock = request[r].lock /\ request'[r].handle = id
                /\ request'[r].barrier = request[r].barrier
           /\ Added(r) =>
                /\ Goes(r, "persisting", "init") /\ Others(r) /\ request'[r].lock = request[r].lock
                /\ request'[r].handle = request[r].handle /\ request'[r].new = TRUE
           /\ Unpause(r) => Goes(r, "init", "unpaused") /\ Others(r) /\ Keeps(r)
           /\ Publish(r) => Goes(r, "unpaused", "ready") /\ Others(r) /\ Keeps(r)
<1>0. request \in [Request -> Places]
  BY TypeSplit
<1>1. ASSUME NEW kind, NEW a \in Address, Arrive(r, kind, a)
      PROVE  /\ Goes(r, "idle", "queued") /\ Others(r) /\ request'[r].lock = a
             /\ request'[r].barrier = None /\ request'[r].counter = None
             /\ lockEntry' = a /\ lockEntry \in {None, a}
  BY <1>0, <1>1 DEF Arrive, Goes, Others, Idle, KeyLock
<1>2. Lock(r) => Goes(r, "queued", "find") /\ Others(r) /\ Keeps(r)
  BY <1>0 DEF Lock, Goes, Others, Keeps, Places
<1>3. FindHandle(r) =>
        /\ Others(r) /\ request[r].at = "find" /\ request'[r].lock = request[r].lock
        /\ \/ handles = None /\ request'[r].at = "missing"
           \/ /\ handles # None /\ request'[r].at = "init"
              /\ request'[r].handle = handles /\ request'[r].new = FALSE
  BY <1>0 DEF FindHandle, Use, Others, Places
<1>4. /\ WaitForDeletion(r) =>
           Goes(r, "missing", "barrier") /\ Others(r) /\ request'[r].lock = request[r].lock
      /\ Notified(r) =>
           Goes(r, "barrier", "missing") /\ Others(r) /\ request'[r].lock = request[r].lock
  BY <1>0 DEF WaitForDeletion, Notified, Goes, Others, Places
<1>5. Adopt(r) =>
        /\ Goes(r, "missing", "init") /\ Others(r) /\ request'[r].lock = request[r].lock
        /\ request'[r].handle = torrent.id /\ request'[r].new = FALSE
  BY <1>0 DEF Adopt, Use, Goes, Others, Places
<1>6. ASSUME NEW a \in Address, Add(r, a)
      PROVE  /\ Goes(r, "missing", "adding") /\ Others(r) /\ request'[r].lock = request[r].lock
             /\ request'[r].barrier = a
  BY <1>0, <1>6 DEF Add, Goes, Others, Places
<1>7. ASSUME NEW id \in Id, Inserted(r, id)
      PROVE  /\ Goes(r, "adding", "persisting") /\ Others(r)
             /\ request'[r].lock = request[r].lock /\ request'[r].handle = id
             /\ request'[r].barrier = request[r].barrier
  BY <1>0, <1>7 DEF Inserted, Goes, Others, Places
<1>8. Added(r) =>
        /\ Goes(r, "persisting", "init") /\ Others(r) /\ request'[r].lock = request[r].lock
        /\ request'[r].handle = request[r].handle /\ request'[r].new = TRUE
  BY <1>0 DEF Added, Goes, Others, Places
<1>9. /\ Unpause(r) => Goes(r, "init", "unpaused") /\ Others(r) /\ Keeps(r)
      /\ Publish(r) => Goes(r, "unpaused", "ready") /\ Others(r) /\ Keeps(r)
  BY <1>0 DEF Unpause, Publish, Goes, Others, Keeps, Places
<1> QED BY <1>1, <1>2, <1>3, <1>4, <1>5, <1>6, <1>7, <1>8, <1>9

LEMMA ServeSteps ==
    ASSUME TypeOK, NEW r \in Request
    PROVE  /\ Fail(r) \/ Answer(r) \/ Closed(r) => request'[r] = Idle /\ Others(r)
           /\ \A a \in Address : Register(r, a) =>
                /\ Goes(r, "ready", "register") /\ Others(r)
                /\ request'[r].lock = request[r].lock /\ request'[r].handle = request[r].handle
                /\ request'[r].counter = a
           /\ Stream(r) =>
                /\ Goes(r, "register", "streaming") /\ Others(r) /\ request'[r].lock = None
                /\ request'[r].handle = request[r].handle
                /\ request'[r].counter = request[r].counter
           /\ Release(r) => Goes(r, "streaming", "closing") /\ Others(r) /\ Keeps(r)
<1>0. request \in [Request -> Places]
  BY TypeSplit
<1>1. Fail(r) \/ Answer(r) \/ Closed(r) => request'[r] = Idle /\ Others(r)
  BY <1>0 DEF Fail, Leave, AbandonAdd, Abandon, Answer, Closed, Others
<1>2. ASSUME NEW a \in Address, Register(r, a)
      PROVE  /\ Goes(r, "ready", "register") /\ Others(r)
             /\ request'[r].lock = request[r].lock /\ request'[r].handle = request[r].handle
             /\ request'[r].counter = a
  BY <1>0, <1>2 DEF Register, Goes, Others, Places
<1>3. Stream(r) =>
        /\ Goes(r, "register", "streaming") /\ Others(r) /\ request'[r].lock = None
        /\ request'[r].handle = request[r].handle
        /\ request'[r].counter = request[r].counter
  BY <1>0 DEF Stream, Goes, Others, Places
<1>4. Release(r) => Goes(r, "streaming", "closing") /\ Others(r) /\ Keeps(r)
  BY <1>0 DEF Release, Goes, Others, Keeps, Places
<1> QED BY <1>1, <1>2, <1>3, <1>4

LEMMA RequestType ==
    ASSUME TorrentInv, NEW r \in Request, Acts(r)
    PROVE  request' \in [Request -> Places]
<1> USE TorrentAssumption DEF TorrentInv
<1>0. /\ request \in [Request -> Places] /\ EntriesOK /\ CountersOK
  BY TypeSplit
<1>1. ASSUME NEW kind \in {"resolve", "stream"}, NEW a \in Address, Arrive(r, kind, a)
      PROVE  request' \in [Request -> Places]
  BY <1>0, <1>1 DEF Arrive, Idle, Places
<1>2. CASE Lock(r) \/ Unpause(r) \/ Publish(r)
  BY <1>0, <1>2 DEF Lock, Unpause, Publish, Places, Locking
<1>3. CASE FindHandle(r) \/ Adopt(r)
  BY <1>0, <1>3 DEF FindHandle, Adopt, Use, Places, Locking, EntriesOK
<1>4. CASE WaitForDeletion(r) \/ Notified(r) \/ Added(r)
  BY <1>0, <1>4 DEF WaitForDeletion, Notified, Added, Places, Locking, EntriesOK
<1>5. ASSUME NEW a \in Address, Add(r, a) \/ Register(r, a)
      PROVE  request' \in [Request -> Places]
  BY <1>0, <1>5 DEF Add, Register, Places, Locking
<1>6. ASSUME NEW id \in Id, Inserted(r, id)
      PROVE  request' \in [Request -> Places]
  <2> DEFINE p == [request[r] EXCEPT !.at = "persisting", !.handle = id]
  <2>1. request' = [request EXCEPT ![r] = p]
    BY <1>0, <1>6 DEF Inserted
  <2>2. p \in Places
    BY <1>0 DEF Places, Locking
  <2> QED BY <1>0, <2>1, <2>2
<1>7. CASE Fail(r) \/ Answer(r) \/ Closed(r)
  <2>1. Idle \in Places
    BY DEF Idle, Places
  <2> QED BY <1>0, <1>7, <2>1 DEF Fail, Leave, AbandonAdd, Abandon, Answer, Closed
<1>8. CASE Stream(r)
  <2> DEFINE p == [request[r] EXCEPT !.at = "streaming", !.lock = None]
  <2>1. request' = [request EXCEPT ![r] = p]
    BY <1>0, <1>8 DEF Stream
  <2>2. p \in Places
    BY <1>0 DEF Places
  <2> QED BY <1>0, <2>1, <2>2
<1>9. CASE Release(r)
  <2>1. request[r].counter \in Address
    BY <1>0, <1>9 DEF Release, CountInv, At, Open, EntriesOK
  <2>2. generation[request[r].counter] + 1 \in Nat
    BY <1>0, <2>1 DEF CountersOK
  <2> DEFINE p == [request[r] EXCEPT !.at = "closing", !.gen = generation[request[r].counter] + 1]
  <2>3. request' = [request EXCEPT ![r] = p]
    BY <1>0, <1>9 DEF Release
  <2>4. p \in Places
    BY <1>0, <2>2 DEF Places
  <2> QED BY <1>0, <2>3, <2>4
<1> QED BY <1>1, <1>2, <1>3, <1>4, <1>5, <1>6, <1>7, <1>8, <1>9 DEF Acts, Prepare, Serve

(* The streams of a counter: a closing one is among them.                  *)
LEMMA CountOfStream ==
    ASSUME TorrentInv, NEW r \in Request, At(r, Counting)
    PROVE  /\ request[r].counter = streamEntry /\ streamEntry \in Address
           /\ r \in Streams(streamEntry) /\ count[streamEntry] \in Nat \ {0}
<1> USE DEF TorrentInv
<1>1. request[r].counter = streamEntry /\ streamEntry \in Address
  BY TypeSplit DEF CountInv, At, Counting, Open, EntriesOK
<1>2. r \in Streams(streamEntry)
  BY <1>1 DEF Streams
<1>3. IsFiniteSet(Streams(streamEntry)) /\ count[streamEntry] = Cardinality(Streams(streamEntry))
  BY <1>1 DEF CountInv
<1>4. Cardinality(Streams(streamEntry)) # 0 /\ Cardinality(Streams(streamEntry)) \in Nat
  BY <1>2, <1>3, FS_EmptySet, FS_CardinalityType
<1> QED BY <1>1, <1>2, <1>3, <1>4

LEMMA CountersType ==
    ASSUME TorrentInv, [Next]_vars
    PROVE  CountersOK'
<1> USE TorrentAssumption DEF TorrentInv
<1>0. /\ request \in [Request -> Places] /\ CountersOK /\ EntriesOK
  BY TypeSplit
<1>1. ASSUME NEW r \in Request, NEW a \in Address, Register(r, a)
      PROVE  CountersOK'
  BY <1>0, <1>1 DEF Register, CountersOK
<1>2. ASSUME NEW r \in Request, Stream(r) \/ Release(r) \/ Closed(r)
      PROVE  CountersOK'
  <2>1. request[r].counter \in Address
    BY <1>0, <1>2 DEF Stream, Release, Closed, CountInv, At, Open, EntriesOK
  <2>2. Closed(r) => count[request[r].counter] \in Nat \ {0}
    BY CountOfStream DEF Closed, At, Counting
  <2>3. CASE Stream(r) \/ Release(r)
    BY <1>0, <2>1, <2>3 DEF Stream, Release, CountersOK
  <2>4. CASE Closed(r)
    <3>1. count[request[r].counter] - 1 \in Nat /\ request[r].gen \in Nat
      BY <1>0, <2>2, <2>4 DEF Places
    <3> QED BY <1>0, <2>1, <2>4, <3>1 DEF Closed, CountersOK
  <2> QED BY <1>2, <2>3, <2>4
<1>3. CASE PruneIdleLocks
  BY <1>0, <1>3 DEF PruneIdleLocks, CountersOK, EntriesOK, counterVars
<1>4. CASE UNCHANGED <<count, generation, idle>>
  BY <1>0, <1>4 DEF CountersOK
<1>5. ASSUME NEW r \in Request, Prepare(r) \/ Fail(r) \/ Answer(r)
      PROVE  UNCHANGED <<count, generation, idle>>
  BY <1>5 DEF Prepare, Fail, Arrive, Lock, FindHandle, WaitForDeletion, Notified, Adopt, Add,
     Inserted, Added, Unpause, Publish, Leave, AbandonAdd, Abandon, Answer, counterVars
<1>6. ASSUME IdleTimer \/ Sweep \/ (\E d \in deletion : Delete(d)) \/ Tick \/ UNCHANGED vars
      PROVE  UNCHANGED <<count, generation, idle>>
  BY <1>6 DEF IdleTimer, TimerWakes, TimerLocks, TimerChecks, TimerPauses, Sweep, SweepLists,
     SweepLocks, SweepPauses, SweepDeletes, Delete, Tick, vars, counterVars
<1> QED BY <1>1, <1>2, <1>3, <1>4, <1>5, <1>6 DEF Next, Serve

LEMMA EntriesType ==
    ASSUME TorrentInv, [Next]_vars
    PROVE  EntriesOK'
<1> USE TorrentAssumption DEF TorrentInv
<1>0. /\ request \in [Request -> Places] /\ EntriesOK /\ sweeper \in Sweepers
      /\ CountersOK
  BY TypeSplit
<1> DEFINE T == [id : Id \cup {None}, paused : BOOLEAN]
<1>t. /\ torrent \in T /\ [torrent EXCEPT !.paused = TRUE] \in T
      /\ [torrent EXCEPT !.paused = FALSE] \in T /\ NoTorrent \in T
      /\ \A id \in Id : [id |-> id, paused |-> TRUE] \in T
  BY <1>0 DEF EntriesOK, NoTorrent
<1> HIDE DEF T
<1>e. ASSUME {lockEntry', streamEntry', barrier'} \subseteq Address \cup {None}, torrent' \in T,
             handles' \in Id \cup {None}, recent' \in BOOLEAN,
             deletion' \subseteq [barrier : Address, ids : SUBSET Id]
      PROVE  EntriesOK'
  BY <1>e DEF EntriesOK, T
<1>f. /\ {lockEntry, streamEntry, barrier} \subseteq Address \cup {None}
      /\ handles \in Id \cup {None} /\ recent \in BOOLEAN
      /\ deletion \subseteq [barrier : Address, ids : SUBSET Id]
  BY <1>0 DEF EntriesOK
<1>1. ASSUME NEW r \in Request, Prepare(r)
      PROVE  EntriesOK'
  <2>1. CASE \E kind \in {"resolve", "stream"}, a \in Address : Arrive(r, kind, a)
    BY <1>0, <2>1 DEF Arrive, EntriesOK, counterVars
  <2>2. CASE Lock(r) \/ FindHandle(r) \/ WaitForDeletion(r) \/ Notified(r) \/ Adopt(r)
    BY <1>0, <2>2 DEF Lock, FindHandle, WaitForDeletion, Notified, Adopt, EntriesOK, counterVars
  <2>3. CASE (\E a \in Address : Add(r, a)) \/ Added(r)
    BY <1>0, <2>3 DEF Add, Added, EntriesOK, counterVars
  <2>4. CASE Unpause(r) \/ \E id \in Id : Inserted(r, id)
    BY <1>e, <1>f, <1>t, <2>4 DEF Unpause, Inserted, counterVars
  <2>5. CASE Publish(r)
    BY <1>0, <2>5 DEF Publish, EntriesOK, counterVars, Places
  <2> QED BY <1>1, <2>1, <2>2, <2>3, <2>4, <2>5 DEF Prepare
<1>2. ASSUME NEW r \in Request, Fail(r)
      PROVE  EntriesOK'
  <2>1. CASE Leave(r)
    BY <1>0, <2>1 DEF Leave, EntriesOK, counterVars
  <2>2. CASE AbandonAdd(r)
    <3>1. request[r].barrier \in Address
      BY <1>0, <2>2 DEF AbandonAdd, DeletionInv, At, EntriesOK
    <3> QED BY <1>0, <2>2, <3>1 DEF AbandonAdd, EntriesOK, counterVars
  <2>3. ASSUME NEW a \in Address, Abandon(r, a)
        PROVE  EntriesOK'
    <3>1. request[r].handle \in Id
      BY <1>0, <2>3 DEF Abandon, HandleInv, At, EntriesOK
    <3> QED BY <1>0, <2>3, <3>1 DEF Abandon, EntriesOK, counterVars
  <2> QED BY <1>2, <2>1, <2>2, <2>3 DEF Fail
<1>3. ASSUME NEW r \in Request, Serve(r)
      PROVE  EntriesOK'
  BY <1>0, <1>3 DEF Serve, Answer, Register, Stream, Release, Closed, EntriesOK, counterVars
<1>4. CASE IdleTimer
  BY <1>e, <1>f, <1>t, <1>4 DEF IdleTimer, TimerWakes, TimerLocks, TimerChecks, TimerPauses,
     Pause, counterVars
<1>5. ASSUME NEW d \in deletion, Delete(d)
      PROVE  EntriesOK'
  BY <1>e, <1>f, <1>t, <1>5 DEF Delete, counterVars
<1>6. CASE Tick \/ UNCHANGED vars
  BY <1>0, <1>6 DEF Tick, vars, counterVars, EntriesOK
<1>7. CASE Sweep
  BY <1>e, <1>f, <1>t, <1>7 DEF Sweep, SweepLists, SweepLocks, SweepPauses, SweepDeletes, Forget,
     Pause, counterVars
<1>8. CASE PruneIdleLocks
  BY <1>0, <1>8 DEF PruneIdleLocks, PruneLock, counterVars, EntriesOK
<1> QED BY <1>1, <1>2, <1>3, <1>4, <1>5, <1>6, <1>7, <1>8 DEF Next

(* What the timers and the sweep do, to themselves.                        *)
LEMMA TimerSteps ==
    ASSUME TypeOK, NEW t \in timer
    PROVE  /\ \A a \in Address : TimerWakes(t, a) =>
                \E u \in Timers : /\ timer' = (timer \ {t}) \cup {u}
                                  /\ t.at = "sleep" /\ u.at = "queued" /\ u.lock = a
           /\ TimerLocks(t) =>
                \E u \in Timers : /\ timer' = (timer \ {t}) \cup {u}
                                  /\ t.at = "queued" /\ u.at = "locked" /\ u.lock = t.lock
           /\ TimerChecks(t) =>
                \/ timer' = timer \ {t}
                \/ \E u \in Timers : /\ timer' = (timer \ {t}) \cup {u} /\ IsIdle(t)
                                     /\ t.at = "locked" /\ u.at = "pausing" /\ u.lock = t.lock
           /\ TimerPauses(t) => timer' = timer \ {t} /\ t.at = "pausing"
<1>0. t \in Timers
  BY TypeSplit
<1>1. ASSUME NEW a \in Address, TimerWakes(t, a)
      PROVE  \E u \in Timers : /\ timer' = (timer \ {t}) \cup {u}
                               /\ t.at = "sleep" /\ u.at = "queued" /\ u.lock = a
  <2> DEFINE u == [t EXCEPT !.at = "queued", !.lock = a]
  <2>1. u \in Timers /\ u.at = "queued" /\ u.lock = a
    BY <1>0 DEF Timers
  <2>2. timer' = (timer \ {t}) \cup {u} /\ t.at = "sleep"
    BY <1>1 DEF TimerWakes, Move
  <2> QED BY <2>1, <2>2
<1>2. ASSUME TimerLocks(t)
      PROVE  \E u \in Timers : /\ timer' = (timer \ {t}) \cup {u}
                               /\ t.at = "queued" /\ u.at = "locked" /\ u.lock = t.lock
  <2> DEFINE u == [t EXCEPT !.at = "locked"]
  <2>1. u \in Timers /\ u.at = "locked" /\ u.lock = t.lock
    BY <1>0 DEF Timers
  <2>2. timer' = (timer \ {t}) \cup {u} /\ t.at = "queued"
    BY <1>2 DEF TimerLocks, Move
  <2> QED BY <2>1, <2>2
<1>3. ASSUME TimerChecks(t), timer' # timer \ {t}
      PROVE  \E u \in Timers : /\ timer' = (timer \ {t}) \cup {u} /\ IsIdle(t)
                               /\ t.at = "locked" /\ u.at = "pausing" /\ u.lock = t.lock
  <2> DEFINE u == [t EXCEPT !.at = "pausing"]
  <2>1. u \in Timers /\ u.at = "pausing" /\ u.lock = t.lock
    BY <1>0 DEF Timers
  <2>2. timer' = (timer \ {t}) \cup {u} /\ t.at = "locked" /\ IsIdle(t)
    BY <1>3 DEF TimerChecks, Move
  <2> QED BY <2>1, <2>2
<1>4. TimerPauses(t) => timer' = timer \ {t} /\ t.at = "pausing"
  BY DEF TimerPauses
<1> QED BY <1>1, <1>2, <1>3, <1>4

LEMMA SweepSteps ==
    ASSUME TypeOK
    PROVE  /\ SweepLists => sweeper.at = "idle" /\ sweeper'.at = "listed" /\ sweeper'.lock = None
           /\ \A a \in Address : SweepLocks(a) =>
                \/ sweeper' = NoSweep
                \/ /\ sweeper.at = "listed" /\ sweeper'.at = "locked" /\ sweeper'.lock = a
                   /\ LockHolders(a) = {} /\ ~HasActiveStream
           /\ SweepPauses =>
                \/ sweeper' = NoSweep
                \/ sweeper.at = "locked" /\ sweeper'.at = "deleting" /\ sweeper'.lock = sweeper.lock
           /\ SweepDeletes => sweeper' = NoSweep
           /\ Sweep => sweeper' \in Sweepers
<1>0. sweeper \in Sweepers /\ torrent.id \in Id \cup {None} /\ NoSweep \in Sweepers
  BY TypeSplit DEF EntriesOK, NoSweep, Sweepers
<1>1. SweepLists => /\ sweeper.at = "idle" /\ sweeper'.at = "listed" /\ sweeper'.lock = None
                    /\ sweeper' \in Sweepers
  BY <1>0 DEF SweepLists, NoSweep, Sweepers
<1>2. ASSUME NEW a \in Address, SweepLocks(a), sweeper' # NoSweep
      PROVE  /\ sweeper.at = "listed" /\ sweeper'.at = "locked" /\ sweeper'.lock = a
             /\ LockHolders(a) = {} /\ ~HasActiveStream /\ sweeper' \in Sweepers
  BY <1>0, <1>2 DEF SweepLocks, Sweepers
<1>3. ASSUME SweepPauses, sweeper' # NoSweep
      PROVE  /\ sweeper.at = "locked" /\ sweeper'.at = "deleting" /\ sweeper'.lock = sweeper.lock
             /\ sweeper' \in Sweepers
  BY <1>0, <1>3 DEF SweepPauses, Sweepers
<1>4. SweepDeletes => sweeper' = NoSweep
  BY DEF SweepDeletes
<1> QED BY <1>0, <1>1, <1>2, <1>3, <1>4 DEF Sweep

LEMMA TypeKept ==
    ASSUME TorrentInv, [Next]_vars
    PROVE  TypeOK'
<1> USE TorrentAssumption DEF TorrentInv
<1>0. /\ request \in [Request -> Places] /\ EntriesOK /\ sweeper \in Sweepers
      /\ timer \subseteq Timers /\ EntriesOK' /\ CountersOK'
  BY TypeSplit, EntriesType, CountersType
<1>1. request' \in [Request -> Places]
  <2>1. CASE \E r \in Request : Acts(r)
    BY <2>1, RequestType
  <2>2. CASE request' = request
    BY <1>0, <2>2
  <2> QED BY <2>1, <2>2 DEF Acts, Next, IdleTimer, TimerWakes, TimerLocks, TimerChecks,
        TimerPauses, Delete, Tick, vars, Sweep, SweepLists, SweepLocks, SweepPauses,
        SweepDeletes, PruneIdleLocks
<1>2. timer' \subseteq Timers
  <2>1. CASE IdleTimer
    BY <1>0, <2>1, TimerSteps DEF IdleTimer
  <2>2. ASSUME NEW r \in Request, Closed(r)
        PROVE  timer' \subseteq Timers
    <3>1. request[r].handle \in Id /\ request[r].counter \in Address /\ request[r].gen \in Nat
      BY <1>0, <2>2 DEF Closed, HandleInv, CountInv, At, Open, EntriesOK, Places
    <3>2. [at |-> "sleep", counter |-> request[r].counter, gen |-> request[r].gen,
           handle |-> request[r].handle, lock |-> None] \in Timers
      BY <3>1 DEF Timers
    <3> QED BY <1>0, <2>2, <3>2 DEF Closed
  <2>3. CASE timer' = timer
    BY <1>0, <2>3
  <2>4. ASSUME NEW r \in Request, Acts(r), ~Closed(r)
        PROVE  timer' = timer
    BY <2>4 DEF Acts, Prepare, Fail, Serve, Arrive, Lock, FindHandle, WaitForDeletion, Notified,
       Adopt, Add, Inserted, Added, Unpause, Publish, Leave, AbandonAdd, Abandon, Answer,
       Register, Stream, Release
  <2> QED BY <2>1, <2>2, <2>3, <2>4 DEF Acts, Next, Delete, Tick, vars, Sweep, SweepLists,
        SweepLocks, SweepPauses, SweepDeletes, PruneIdleLocks
<1>3. sweeper' \in Sweepers
  <2>1. CASE Sweep
    BY <2>1, SweepSteps
  <2>2. CASE sweeper' = sweeper
    BY <1>0, <2>2
  <2>3. ASSUME NEW r \in Request, Acts(r)
        PROVE  sweeper' = sweeper
    BY <2>3 DEF Acts, Prepare, Fail, Serve, Arrive, Lock, FindHandle, WaitForDeletion, Notified,
       Adopt, Add, Inserted, Added, Unpause, Publish, Leave, AbandonAdd, Abandon, Answer,
       Register, Stream, Release, Closed
  <2> QED BY <2>1, <2>2, <2>3 DEF Acts, Next, Delete, Tick, vars, IdleTimer, TimerWakes,
        TimerLocks, TimerChecks, TimerPauses, PruneIdleLocks
<1> QED BY <1>0, <1>1, <1>2, <1>3, TypeSplit

-----------------------------------------------------------------------------
(* The lock.                                                               *)

Waiting == Locking \cup {"queued"}
NobodyHolds ==
    /\ \A r \in Request : ~At(r, Locking)
    /\ \A t \in timer : ~TimerHolds(t)
    /\ ~Sweeping
NobodyUses ==
    /\ \A r \in Request : ~At(r, Waiting)
    /\ \A t \in timer : t.at = "sleep"
    /\ ~Sweeping

(* A lock nobody holds is held by nobody: there is no other lock.          *)
LEMMA NoHolders ==
    ASSUME LockInv, TypeOK, NEW a, lockEntry \in {None, a}, LockHolders(a) = {}
    PROVE  NobodyHolds
<1>1. ASSUME NEW r \in Request, At(r, Locking)
      PROVE  FALSE
  <2>1. request[r].lock = a
    BY <1>1 DEF LockInv, At
  <2> QED BY <1>1, <2>1 DEF LockHolders, At
<1>2. ASSUME NEW t \in timer, TimerHolds(t)
      PROVE  FALSE
  <2>1. t.lock = a
    BY <1>2 DEF LockInv, TimerHolds
  <2> QED BY <1>2, <2>1 DEF LockHolders, TimerHolds
<1>3. ASSUME Sweeping
      PROVE  FALSE
  <2>1. sweeper.lock = a
    BY <1>3 DEF LockInv
  <2> QED BY <1>3, <2>1 DEF LockHolders, Sweeping
<1> QED BY <1>1, <1>2, <1>3 DEF NobodyHolds

(* The entry in `locks` changes only when nobody has it.                   *)
LEMMA EntryReplaced ==
    ASSUME TorrentInv, [Next]_vars
    PROVE  lockEntry' = lockEntry \/ NobodyUses
<1> USE TorrentAssumption DEF TorrentInv
<1>1. ASSUME lockEntry = None
      PROVE  NobodyUses
  BY <1>1 DEF NobodyUses, LockInv, Waiting
<1>2. ASSUME PruneLock
      PROVE  NobodyUses
  <2>1. ~LockUsed(lockEntry) /\ lockEntry # None
    BY <1>2 DEF PruneLock
  <2>2. ASSUME NEW r \in Request, At(r, Waiting)
        PROVE  FALSE
    BY <2>1, <2>2 DEF LockInv, LockUsed, Waiting
  <2>3. ASSUME NEW t \in timer, t.at # "sleep"
        PROVE  FALSE
    BY <2>1, <2>3 DEF LockInv, LockUsed
  <2>4. ~Sweeping
    BY <2>1 DEF LockInv, LockUsed
  <2> QED BY <2>2, <2>3, <2>4 DEF NobodyUses
<1>3. ASSUME NEW a \in Address, KeyLock(a), lockEntry' = a
      PROVE  lockEntry = None \/ lockEntry' = lockEntry
  BY <1>3 DEF KeyLock
<1>4. ASSUME NEW r \in Request, Acts(r)
      PROVE  lockEntry = None \/ lockEntry' = lockEntry
  BY <1>3, <1>4 DEF Acts, Prepare, Fail, Serve, Arrive, Lock, FindHandle, WaitForDeletion, Notified,
     Adopt, Add, Inserted, Added, Unpause, Publish, Leave, AbandonAdd, Abandon, Answer,
     Register, Stream, Release, Closed, counterVars
<1>5. CASE IdleTimer
  BY <1>1, <1>3, <1>5 DEF IdleTimer, TimerWakes, TimerLocks, TimerChecks, TimerPauses
<1>6. CASE Sweep
  BY <1>1, <1>3, <1>6 DEF Sweep, SweepLists, SweepLocks, SweepPauses, SweepDeletes
<1> QED BY <1>1, <1>2, <1>4, <1>5, <1>6 DEF Acts, Next, Delete, Tick, PruneIdleLocks, vars

(* A request queues for the lock, holds it or has nothing to do with it.   *)
Queues(r) ==
    /\ ~At(r, Locking) /\ request'[r].at = "queued"
    /\ request'[r].lock = lockEntry' /\ lockEntry' # None
Holds(r) ==
    /\ lockEntry' = lockEntry /\ request'[r].lock = request[r].lock
    /\ request'[r].at \in Locking
    /\ At(r, Locking) \/ (At(r, {"queued"}) /\ NobodyHolds)
LetsGo(r) == request'[r].at \notin Waiting /\ request'[r].lock = None

(* How a request comes by the lock and leaves it.                          *)
LEMMA LockSteps ==
    ASSUME TorrentInv, NEW r \in Request, Acts(r)
    PROVE  Others(r) /\ (Queues(r) \/ Holds(r) \/ LetsGo(r))
<1> USE TorrentAssumption DEF TorrentInv
<1>1. ASSUME NEW kind \in {"resolve", "stream"}, NEW a \in Address, Arrive(r, kind, a)
      PROVE  Others(r) /\ Queues(r)
  BY <1>1, PrepareSteps DEF Queues, Goes, At, Locking
<1>2. ASSUME Lock(r)
      PROVE  Others(r) /\ Holds(r)
  <2>1. request[r].lock = lockEntry /\ LockHolders(lockEntry) = {}
    BY <1>2 DEF Lock, LockInv, At
  <2>2. NobodyHolds
    BY <2>1, NoHolders
  <2> QED BY <1>2, <2>2, PrepareSteps DEF Holds, Lock, Goes, Keeps, At, Locking
<1>3. ASSUME FindHandle(r) \/ WaitForDeletion(r) \/ Notified(r) \/ Adopt(r)
      PROVE  Others(r) /\ Holds(r)
  <2>1. /\ Others(r) /\ request'[r].lock = request[r].lock
        /\ request'[r].at \in {"missing", "init", "barrier"}
        /\ At(r, {"find", "missing", "barrier"})
    <3>1. CASE FindHandle(r)
      BY <3>1, PrepareSteps DEF At
    <3>2. CASE WaitForDeletion(r) \/ Notified(r) \/ Adopt(r)
      BY <3>2, PrepareSteps DEF At, Goes
    <3> QED BY <1>3, <3>1, <3>2
  <2>2. lockEntry' = lockEntry
    BY <1>3 DEF FindHandle, WaitForDeletion, Notified, Adopt
  <2> QED BY <2>1, <2>2 DEF Holds, At, Locking
<1>4. ASSUME \/ \E a \in Address : Add(r, a) \/ Register(r, a)
             \/ \E id \in Id : Inserted(r, id)
             \/ Added(r) \/ Unpause(r) \/ Publish(r)
      PROVE  Others(r) /\ Holds(r)
  <2> DEFINE From == {"missing", "adding", "persisting", "init", "unpaused", "ready"}
             To == {"adding", "persisting", "init", "unpaused", "ready", "register"}
  <2>1. /\ Others(r) /\ request'[r].lock = request[r].lock
        /\ request'[r].at \in To /\ At(r, From)
    <3>1. CASE \E a \in Address : Add(r, a) \/ Register(r, a)
      BY <3>1, PrepareSteps, ServeSteps DEF At, Goes
    <3>2. CASE \E id \in Id : Inserted(r, id)
      BY <3>2, PrepareSteps DEF At, Goes
    <3>3. CASE Added(r) \/ Unpause(r) \/ Publish(r)
      BY <3>3, PrepareSteps DEF At, Goes, Keeps
    <3> QED BY <1>4, <3>1, <3>2, <3>3
  <2>2. lockEntry' = lockEntry
    BY <1>4 DEF Add, Register, Inserted, Added, Unpause, Publish
  <2> QED BY <2>1, <2>2 DEF Holds, At, Locking
<1>5. ASSUME Fail(r) \/ Answer(r) \/ Closed(r)
      PROVE  Others(r) /\ LetsGo(r)
  BY <1>5, ServeSteps DEF LetsGo, Idle, Waiting, Locking
<1>6. ASSUME Stream(r) \/ Release(r)
      PROVE  Others(r) /\ LetsGo(r)
  <2>1. CASE Stream(r)
    BY <2>1, ServeSteps DEF LetsGo, Goes, Waiting, Locking
  <2>2. CASE Release(r)
    BY <2>2, ServeSteps DEF LetsGo, Goes, Keeps, LockInv, At, Waiting, Locking
  <2> QED BY <1>6, <2>1, <2>2
<1>7. CASE Prepare(r)
  BY <1>1, <1>2, <1>3, <1>4, <1>7 DEF Prepare
<1>8. CASE Serve(r)
  BY <1>4, <1>5, <1>6, <1>8 DEF Serve
<1> QED BY <1>5, <1>7, <1>8 DEF Acts

(* Requests leave the sweep alone, and start only a timer that sleeps.     *)
LEMMA RequestsStartTimers ==
    ASSUME NEW r \in Request, Acts(r)
    PROVE  /\ sweeper' = sweeper /\ timer \subseteq timer'
           /\ \A t \in timer' : t \in timer \/ (t.at = "sleep" /\ t.lock = None)
           /\ timer' = timer \/ Closed(r)
<1>1. CASE Closed(r)
  BY <1>1 DEF Closed
<1>2. CASE ~Closed(r)
  BY <1>2 DEF Acts, Prepare, Fail, Serve, Arrive, Lock, FindHandle, WaitForDeletion, Notified,
     Adopt, Add, Inserted, Added, Unpause, Publish, Leave, AbandonAdd, Abandon, Answer,
     Register, Stream, Release
<1> QED BY <1>1, <1>2

LEMMA LockOfRequests ==
    ASSUME TorrentInv, [Next]_vars, NEW r \in Request, Acts(r)
    PROVE  LockInv' /\ OneHolder'
<1> USE TorrentAssumption DEF TorrentInv
<1>0. /\ Others(r) /\ (Queues(r) \/ Holds(r) \/ LetsGo(r))
      /\ lockEntry' = lockEntry \/ NobodyUses
      /\ sweeper' = sweeper /\ Sweeping' = Sweeping
      /\ \A t \in timer' : t \in timer \/ (t.at = "sleep" /\ t.lock = None)
  BY LockSteps, EntryReplaced, RequestsStartTimers DEF Sweeping
<1>1. LockInv'
  <2>1. ASSUME NEW q \in Request
        PROVE  /\ request'[q].lock = IF request'[q].at \in Waiting THEN lockEntry' ELSE None
               /\ request'[q].at \in Waiting => lockEntry' # None
    <3>1. CASE q = r
      BY <1>0, <3>1 DEF LockInv, Queues, Holds, LetsGo, At, Waiting, Locking
    <3>2. CASE q # r
      BY <1>0, <3>2 DEF Others, LockInv, NobodyUses, At, Waiting
    <3> QED BY <3>1, <3>2
  <2>2. ASSUME NEW t \in timer'
        PROVE  IF t.at = "sleep" THEN t.lock = None ELSE t.lock = lockEntry' /\ lockEntry' # None
    BY <1>0 DEF LockInv, NobodyUses
  <2>3. IF Sweeping' THEN sweeper'.lock = lockEntry' /\ lockEntry' # None ELSE sweeper'.lock = None
    BY <1>0 DEF LockInv, NobodyUses
  <2> QED BY <2>1, <2>2, <2>3 DEF LockInv, At, Waiting
<1>2. OneHolder'
  <2>1. ASSUME NEW q \in Request, request'[q].at \in Locking
        PROVE  /\ q # r => At(q, Locking)
               /\ q = r => At(r, Locking) \/ NobodyHolds
    BY <1>0, <2>1 DEF Others, Queues, Holds, LetsGo, At, Waiting, Locking
  <2>2. \A t \in timer' : TimerHolds(t) => t \in timer
    BY <1>0 DEF TimerHolds
  <2>3. ASSUME NEW p \in Request, NEW q \in Request, request'[p].at \in Locking,
               request'[q].at \in Locking
        PROVE  p = q
    BY <2>1, <2>3 DEF OneHolder, NobodyHolds
  <2>4. ASSUME NEW q \in Request, request'[q].at \in Locking
        PROVE  ~Sweeping' /\ \A t \in timer' : ~TimerHolds(t)
    BY <1>0, <2>1, <2>2, <2>4 DEF OneHolder, NobodyHolds
  <2>5. Sweeping' => \A t \in timer' : ~TimerHolds(t)
    BY <1>0, <2>2 DEF OneHolder
  <2>6. \A t, u \in timer' : TimerHolds(t) /\ TimerHolds(u) => t = u
    BY <2>2 DEF OneHolder
  <2> QED BY <2>3, <2>4, <2>5, <2>6 DEF OneHolder, At, TimerHolds
<1> QED BY <1>1, <1>2

LEMMA LockOfTimers ==
    ASSUME TorrentInv, [Next]_vars, IdleTimer
    PROVE  LockInv' /\ OneHolder'
<1> USE TorrentAssumption DEF TorrentInv
<1>0. /\ request' = request /\ sweeper' = sweeper /\ Sweeping' = Sweeping
      /\ lockEntry' = lockEntry \/ NobodyUses
  BY EntryReplaced DEF IdleTimer, TimerWakes, TimerLocks, TimerChecks, TimerPauses, Sweeping
<1>1. PICK t \in timer : \/ \E a \in Address : TimerWakes(t, a)
                         \/ TimerLocks(t) \/ TimerChecks(t) \/ TimerPauses(t)
  BY DEF IdleTimer
<1>2. ASSUME NEW u \in timer', u \notin timer
      PROVE  /\ u.lock = lockEntry' /\ lockEntry' # None
             /\ TimerHolds(u) => /\ timer' = (timer \ {t}) \cup {u}
                                 /\ TimerHolds(t) \/ NobodyHolds
  <2>1. CASE \E a \in Address : TimerWakes(t, a)
    <3>1. PICK a \in Address : TimerWakes(t, a)
      BY <2>1
    <3>2. PICK w \in Timers : timer' = (timer \ {t}) \cup {w} /\ w.at = "queued" /\ w.lock = a
      BY <3>1, TimerSteps
    <3>3. u = w /\ lockEntry' = a /\ a # None
      BY <1>2, <3>1, <3>2 DEF TimerWakes
    <3> QED BY <3>2, <3>3 DEF TimerHolds
  <2>2. CASE TimerLocks(t)
    <3>1. /\ timer' = (timer \ {t}) \cup {u} /\ u.lock = t.lock
          /\ t.at = "queued" /\ lockEntry' = lockEntry /\ LockHolders(t.lock) = {}
      BY <1>2, <2>2, TimerSteps DEF TimerLocks
    <3>2. t.lock = lockEntry /\ lockEntry # None
      BY <3>1 DEF LockInv
    <3> QED BY <3>1, <3>2, NoHolders
  <2>3. CASE TimerChecks(t)
    <3>1. /\ timer' = (timer \ {t}) \cup {u} /\ u.lock = t.lock
          /\ t.at = "locked" /\ lockEntry' = lockEntry
      BY <1>2, <2>3, TimerSteps DEF TimerChecks
    <3> QED BY <3>1 DEF LockInv, TimerHolds
  <2>4. CASE TimerPauses(t)
    BY <1>2, <2>4, TimerSteps
  <2> QED BY <1>1, <2>1, <2>2, <2>3, <2>4
<1>3. LockInv'
  <2>1. ASSUME NEW q \in Request
        PROVE  /\ request'[q].lock = IF request'[q].at \in Waiting THEN lockEntry' ELSE None
               /\ request'[q].at \in Waiting => lockEntry' # None
    BY <1>0 DEF LockInv, NobodyUses, At, Waiting
  <2>2. ASSUME NEW u \in timer'
        PROVE  IF u.at = "sleep" THEN u.lock = None ELSE u.lock = lockEntry' /\ lockEntry' # None
    <3>1. CASE u \in timer
      BY <1>0, <3>1 DEF LockInv, NobodyUses
    <3>2. CASE u \notin timer
      <4>1. u.at # "sleep"
        BY <1>1, <3>2, TimerSteps
      <4> QED BY <1>2, <3>2, <4>1
    <3> QED BY <3>1, <3>2
  <2>3. IF Sweeping' THEN sweeper'.lock = lockEntry' /\ lockEntry' # None ELSE sweeper'.lock = None
    BY <1>0 DEF LockInv, NobodyUses
  <2> QED BY <2>1, <2>2, <2>3 DEF LockInv, At, Waiting
<1>4. OneHolder'
  <2>1. ASSUME NEW u \in timer', TimerHolds(u), u \notin timer
        PROVE  /\ \A v \in timer' : TimerHolds(v) => v = u
               /\ ~Sweeping /\ \A r \in Request : ~At(r, Locking)
    BY <1>2, <2>1 DEF OneHolder, NobodyHolds
  <2>2. \A u, v \in timer' : TimerHolds(u) /\ TimerHolds(v) => u = v
    BY <2>1 DEF OneHolder
  <2>3. ASSUME NEW u \in timer', TimerHolds(u)
        PROVE  ~Sweeping' /\ \A r \in Request : request'[r].at \notin Locking
    BY <1>0, <2>1, <2>3 DEF OneHolder, At
  <2>4. \A q, r \in Request : request'[q].at \in Locking /\ request'[r].at \in Locking => q = r
    BY <1>0 DEF OneHolder, At
  <2>5. \A r \in Request : request'[r].at \in Locking => ~Sweeping'
    BY <1>0 DEF OneHolder, At
  <2> QED BY <2>2, <2>3, <2>4, <2>5 DEF OneHolder, At, TimerHolds
<1> QED BY <1>3, <1>4

LEMMA LockOfSweep ==
    ASSUME TorrentInv, [Next]_vars, Sweep
    PROVE  LockInv' /\ OneHolder'
<1> USE TorrentAssumption DEF TorrentInv
<1>0. /\ request' = request /\ timer' = timer
      /\ lockEntry' = lockEntry \/ NobodyUses
  BY EntryReplaced DEF Sweep, SweepLists, SweepLocks, SweepPauses, SweepDeletes
<1>1. IF Sweeping' THEN sweeper'.lock = lockEntry' /\ lockEntry' # None ELSE sweeper'.lock = None
  <2>1. CASE SweepLists
    BY <2>1, SweepSteps DEF Sweeping
  <2>2. ASSUME NEW a \in Address, SweepLocks(a)
        PROVE  IF Sweeping' THEN sweeper'.lock = lockEntry' /\ lockEntry' # None
               ELSE sweeper'.lock = None
    <3>1. lockEntry' = a /\ a # None
      BY <2>2 DEF SweepLocks
    <3> QED BY <2>2, <3>1, SweepSteps DEF Sweeping, NoSweep
  <2>3. CASE SweepPauses
    <3>1. lockEntry' = lockEntry
      BY <2>3 DEF SweepPauses
    <3> QED BY <2>3, <3>1, SweepSteps DEF Sweeping, NoSweep, LockInv
  <2>4. CASE SweepDeletes
    BY <2>4, SweepSteps DEF Sweeping, NoSweep
  <2> QED BY <2>1, <2>2, <2>3, <2>4 DEF Sweep
<1>2. LockInv'
  <2>1. ASSUME NEW q \in Request
        PROVE  /\ request'[q].lock = IF request'[q].at \in Waiting THEN lockEntry' ELSE None
               /\ request'[q].at \in Waiting => lockEntry' # None
    BY <1>0 DEF LockInv, NobodyUses, At, Waiting
  <2>2. ASSUME NEW t \in timer'
        PROVE  IF t.at = "sleep" THEN t.lock = None ELSE t.lock = lockEntry' /\ lockEntry' # None
    BY <1>0 DEF LockInv, NobodyUses
  <2> QED BY <1>1, <2>1, <2>2 DEF LockInv, At, Waiting
<1>3. Sweeping' => Sweeping \/ NobodyHolds
  <2>1. ASSUME NEW a \in Address, SweepLocks(a), Sweeping'
        PROVE  NobodyHolds
    <3>1. LockHolders(a) = {}
      BY <2>1, SweepSteps DEF Sweeping, NoSweep
    <3>2. lockEntry \in {None, a}
      BY <2>1 DEF SweepLocks, KeyLock
    <3> QED BY <3>1, <3>2, NoHolders
  <2>2. SweepLists \/ SweepPauses \/ SweepDeletes => ~Sweeping' \/ Sweeping
    BY SweepSteps DEF Sweeping, NoSweep
  <2> QED BY <2>1, <2>2 DEF Sweep
<1>4. OneHolder'
  <2>1. \A q, r \in Request : request'[q].at \in Locking /\ request'[r].at \in Locking => q = r
    BY <1>0 DEF OneHolder, At
  <2>2. \A t, u \in timer' : TimerHolds(t) /\ TimerHolds(u) => t = u
    BY <1>0 DEF OneHolder
  <2>3. ASSUME NEW r \in Request, request'[r].at \in Locking
        PROVE  ~Sweeping' /\ \A t \in timer' : ~TimerHolds(t)
    BY <1>0, <1>3, <2>3 DEF OneHolder, NobodyHolds, At
  <2>4. Sweeping' => \A t \in timer' : ~TimerHolds(t)
    BY <1>0, <1>3 DEF OneHolder, NobodyHolds
  <2> QED BY <2>1, <2>2, <2>3, <2>4 DEF OneHolder, At, TimerHolds
<1> QED BY <1>2, <1>4

LEMMA LockKept ==
    ASSUME TorrentInv, [Next]_vars
    PROVE  LockInv' /\ OneHolder'
<1> USE TorrentAssumption DEF TorrentInv
<1>1. ASSUME NEW r \in Request, Acts(r)
      PROVE  LockInv' /\ OneHolder'
  BY <1>1, LockOfRequests
<1>2. ASSUME UNCHANGED <<request, timer, sweeper>>
      PROVE  LockInv' /\ OneHolder'
  <2>1. lockEntry' = lockEntry \/ NobodyUses
    BY EntryReplaced
  <2>2. LockInv'
    BY <1>2, <2>1 DEF LockInv, NobodyUses, At, Waiting, Sweeping
  <2>3. OneHolder'
    BY <1>2 DEF OneHolder, At, Sweeping, TimerHolds
  <2> QED BY <2>2, <2>3
<1> QED BY <1>1, <1>2, LockOfTimers, LockOfSweep DEF Acts, Next, Delete, Tick, PruneIdleLocks, vars

-----------------------------------------------------------------------------
(* The count of the open streams.                                          *)

Plays(r) == (\E a \in Address : Register(r, a)) \/ Stream(r) \/ Release(r) \/ Closed(r)

(* Only these steps have to do with a stream.                              *)
LEMMA OtherSteps ==
    ASSUME TorrentInv, NEW r \in Request, Acts(r), ~Plays(r)
    PROVE  /\ Others(r) /\ ~At(r, Open) /\ request'[r].at \notin Open
           /\ streamEntry' = streamEntry /\ count' = count
<1> USE DEF TorrentInv
<1>1. CASE \E kind \in {"resolve", "stream"}, a \in Address : Arrive(r, kind, a)
  BY <1>1, PrepareSteps DEF Arrive, Goes, At, Open, counterVars
<1>2. CASE Lock(r) \/ FindHandle(r)
  BY <1>2, PrepareSteps DEF Lock, FindHandle, Goes, At, Open, counterVars
<1>3. CASE WaitForDeletion(r) \/ Notified(r) \/ Adopt(r)
  BY <1>3, PrepareSteps DEF WaitForDeletion, Notified, Adopt, Goes, At, Open, counterVars
<1>4. CASE \E a \in Address : Add(r, a)
  BY <1>4, PrepareSteps DEF Add, Goes, At, Open, counterVars
<1>5. CASE \E id \in Id : Inserted(r, id)
  BY <1>5, PrepareSteps DEF Inserted, Goes, At, Open, counterVars
<1>6. CASE Added(r) \/ Unpause(r) \/ Publish(r)
  BY <1>6, PrepareSteps DEF Added, Unpause, Publish, Goes, At, Open, counterVars
<1>7. CASE Fail(r) \/ Answer(r)
  <2>1. Others(r) /\ request'[r].at \notin Open
    BY <1>7, ServeSteps DEF Idle, Open
  <2>2. ~At(r, Open) /\ streamEntry' = streamEntry /\ count' = count
    BY <1>7 DEF Fail, Leave, AbandonAdd, Abandon, Answer, At, Open, counterVars
  <2> QED BY <2>1, <2>2
<1> QED BY <1>1, <1>2, <1>3, <1>4, <1>5, <1>6, <1>7 DEF Acts, Plays, Prepare, Serve

LEMMA SameStreams ==
    ASSUME NEW a, \A q \in Request :
               request'[q].at \in Counting /\ request'[q].counter = a
                   <=> At(q, Counting) /\ request[q].counter = a
    PROVE  Streams(a)' = Streams(a)
BY DEF Streams, At

LEMMA CountOfPlays ==
    ASSUME TorrentInv, [Next]_vars, NEW r \in Request, Plays(r)
    PROVE  CountInv'
<1> USE TorrentAssumption DEF TorrentInv
<1>0. CountersOK /\ EntriesOK
  BY TypeSplit
<1>1. ASSUME NEW a \in Address, Register(r, a)
      PROVE  CountInv'
  <2>1. /\ Goes(r, "ready", "register") /\ Others(r) /\ request'[r].counter = a
        /\ streamEntry' = a /\ count' = count /\ streamEntry \in {None, a} /\ a # None
    BY <1>1, ServeSteps DEF Register
  <2>2. ASSUME NEW q \in Request, request'[q].at \in Open
        PROVE  request'[q].counter = streamEntry' /\ streamEntry' # None
    BY <2>1, <2>2 DEF Goes, Others, CountInv, At
  <2>3. ASSUME NEW b \in Address
        PROVE  Streams(b)' = Streams(b)
    <3>1. \A q \in Request : request'[q].at \in Counting /\ request'[q].counter = b
                               <=> At(q, Counting) /\ request[q].counter = b
      BY <2>1 DEF Goes, Others, At, Counting
    <3> QED BY <3>1, SameStreams
  <2> QED BY <2>1, <2>2, <2>3 DEF CountInv, At
<1>2. CASE Release(r)
  <2>1. /\ Goes(r, "streaming", "closing") /\ Others(r) /\ Keeps(r)
        /\ streamEntry' = streamEntry /\ count' = count
    BY <1>2, ServeSteps DEF Release
  <2>2. ASSUME NEW q \in Request, request'[q].at \in Open
        PROVE  request'[q].counter = streamEntry' /\ streamEntry' # None
    BY <2>1, <2>2 DEF Goes, Others, Keeps, CountInv, At, Open
  <2>3. ASSUME NEW b \in Address
        PROVE  Streams(b)' = Streams(b)
    <3>1. \A q \in Request : request'[q].at \in Counting /\ request'[q].counter = b
                               <=> At(q, Counting) /\ request[q].counter = b
      BY <2>1 DEF Goes, Others, Keeps, At, Counting
    <3> QED BY <3>1, SameStreams
  <2> QED BY <2>1, <2>2, <2>3 DEF CountInv, At
<1>3. ASSUME NEW c \in Address, c = request[r].counter, Stream(r)
      PROVE  CountInv'
  <2>1. /\ Goes(r, "register", "streaming") /\ Others(r) /\ request'[r].counter = c
        /\ streamEntry' = streamEntry /\ count' = [count EXCEPT ![c] = @ + 1]
    BY <1>3, ServeSteps DEF Stream
  <2>2. c = streamEntry
    BY <1>3, <2>1 DEF Goes, CountInv, At, Open
  <2>3. ASSUME NEW q \in Request, request'[q].at \in Open
        PROVE  request'[q].counter = streamEntry' /\ streamEntry' # None
    <3>1. CASE q = r
      BY <1>3, <2>1, <2>2, <3>1 DEF CountInv, At, Open, Goes
    <3>2. CASE q # r
      BY <2>1, <2>3, <3>2 DEF Others, CountInv, At
    <3> QED BY <3>1, <3>2
  <2>4. Streams(c)' = Streams(c) \cup {r} /\ r \notin Streams(c)
    BY <1>3, <2>1 DEF Streams, Goes, Others, At, Counting
  <2>5. IsFiniteSet(Streams(c)') /\ count'[c] = Cardinality(Streams(c)')
    <3>1. IsFiniteSet(Streams(c)) /\ count[c] = Cardinality(Streams(c))
      BY DEF CountInv
    <3>2. count'[c] = count[c] + 1
      BY <1>0, <1>3, <2>1 DEF CountersOK
    <3>3. /\ IsFiniteSet(Streams(c) \cup {r})
          /\ Cardinality(Streams(c) \cup {r}) = Cardinality(Streams(c)) + 1
      BY <2>4, <3>1, FS_AddElement
    <3> QED BY <2>4, <3>1, <3>2, <3>3
  <2>6. ASSUME NEW b \in Address, b # c
        PROVE  Streams(b)' = Streams(b) /\ count'[b] = count[b]
    <3>1. \A q \in Request : request'[q].at \in Counting /\ request'[q].counter = b
                               <=> At(q, Counting) /\ request[q].counter = b
      BY <2>1, <2>6 DEF Goes, Others, At, Counting
    <3> QED BY <1>0, <2>1, <2>6, <3>1, SameStreams DEF CountersOK
  <2>7. ASSUME NEW b \in Address
        PROVE  IsFiniteSet(Streams(b)') /\ count'[b] = Cardinality(Streams(b)')
    <3>1. CASE b = c
      BY <2>5, <3>1 DEF Streams
    <3>2. CASE b # c
      BY <2>6, <3>2 DEF CountInv
    <3> QED BY <3>1, <3>2
  <2> QED BY <2>3, <2>7 DEF CountInv, At
<1>4. ASSUME NEW c \in Address, c = request[r].counter, Closed(r)
      PROVE  CountInv'
  <2>1. /\ request'[r] = Idle /\ Others(r) /\ request[r].at = "closing"
        /\ streamEntry' = streamEntry /\ count' = [count EXCEPT ![c] = @ - 1]
    BY <1>4, ServeSteps DEF Closed
  <2>2. c = streamEntry
    BY <1>4, <2>1 DEF CountInv, At, Open
  <2>3. ASSUME NEW q \in Request, request'[q].at \in Open
        PROVE  request'[q].counter = streamEntry' /\ streamEntry' # None
    BY <2>1, <2>3 DEF Idle, Others, CountInv, At, Open
  <2>4. Streams(c)' = Streams(c) \ {r} /\ r \in Streams(c)
    BY <1>4, <2>1 DEF Streams, Idle, Others, At, Counting
  <2>5. IsFiniteSet(Streams(c)') /\ count'[c] = Cardinality(Streams(c)')
    <3>1. IsFiniteSet(Streams(c)) /\ count[c] = Cardinality(Streams(c))
      BY DEF CountInv
    <3>2. count'[c] = count[c] - 1
      BY <1>0, <1>4, <2>1 DEF CountersOK
    <3>3. /\ IsFiniteSet(Streams(c) \ {r})
          /\ Cardinality(Streams(c) \ {r}) = Cardinality(Streams(c)) - 1
      BY <2>4, <3>1, FS_RemoveElement
    <3> QED BY <2>4, <3>1, <3>2, <3>3
  <2>6. ASSUME NEW b \in Address, b # c
        PROVE  Streams(b)' = Streams(b) /\ count'[b] = count[b]
    <3>1. \A q \in Request : request'[q].at \in Counting /\ request'[q].counter = b
                               <=> At(q, Counting) /\ request[q].counter = b
      BY <1>4, <2>1, <2>6 DEF Idle, Others, At, Counting
    <3> QED BY <1>0, <2>1, <2>6, <3>1, SameStreams DEF CountersOK
  <2>7. ASSUME NEW b \in Address
        PROVE  IsFiniteSet(Streams(b)') /\ count'[b] = Cardinality(Streams(b)')
    <3>1. CASE b = c
      BY <2>5, <3>1 DEF Streams
    <3>2. CASE b # c
      BY <2>6, <3>2 DEF CountInv
    <3> QED BY <3>1, <3>2
  <2> QED BY <2>3, <2>7 DEF CountInv, At
<1>5. Stream(r) \/ Closed(r) => request[r].counter \in Address
  BY <1>0 DEF Stream, Closed, CountInv, At, Open, EntriesOK
<1> QED BY <1>1, <1>2, <1>3, <1>4, <1>5 DEF Plays

LEMMA CountKept ==
    ASSUME TorrentInv, [Next]_vars
    PROVE  CountInv'
<1> USE TorrentAssumption DEF TorrentInv
<1>1. ASSUME NEW r \in Request, Acts(r), ~Plays(r)
      PROVE  CountInv'
  <2>1. /\ Others(r) /\ ~At(r, Open) /\ request'[r].at \notin Open
        /\ streamEntry' = streamEntry /\ count' = count
    BY <1>1, OtherSteps
  <2>2. ASSUME NEW q \in Request, request'[q].at \in Open
        PROVE  request'[q].counter = streamEntry' /\ streamEntry' # None
    BY <2>1, <2>2 DEF Others, CountInv, At
  <2>3. ASSUME NEW b \in Address
        PROVE  Streams(b)' = Streams(b)
    <3>1. \A q \in Request : request'[q].at \in Counting /\ request'[q].counter = b
                               <=> At(q, Counting) /\ request[q].counter = b
      BY <2>1 DEF Others, At, Counting, Open
    <3> QED BY <3>1, SameStreams
  <2> QED BY <2>1, <2>2, <2>3 DEF CountInv, At
<1>2. ASSUME UNCHANGED <<request, count>>, streamEntry' = streamEntry \/ PruneIdleLocks
      PROVE  CountInv'
  <2>1. ASSUME NEW r \in Request, At(r, Open)
        PROVE  request[r].counter = streamEntry' /\ streamEntry' # None
    <3>1. request[r].counter = streamEntry /\ streamEntry # None
      BY <2>1 DEF CountInv
    <3>2. CounterUsed(streamEntry)
      BY <3>1 DEF CounterUsed
    <3> QED BY <1>2, <3>1, <3>2 DEF PruneIdleLocks, counterVars
  <2>2. ASSUME NEW b \in Address
        PROVE  Streams(b)' = Streams(b)
    BY <1>2 DEF Streams, At
  <2> QED BY <1>2, <2>1, <2>2 DEF CountInv, At
<1>3. ASSUME IdleTimer \/ Sweep \/ (\E d \in deletion : Delete(d)) \/ Tick \/ PruneIdleLocks
                       \/ UNCHANGED vars
      PROVE  UNCHANGED <<request, count>> /\ (streamEntry' = streamEntry \/ PruneIdleLocks)
  BY <1>3 DEF IdleTimer, TimerWakes, TimerLocks, TimerChecks, TimerPauses, Sweep, SweepLists,
     SweepLocks, SweepPauses, SweepDeletes, Delete, Tick, PruneIdleLocks, vars, counterVars
<1> QED BY <1>1, <1>2, <1>3, CountOfPlays DEF Acts, Next

-----------------------------------------------------------------------------
(* The handle, the clean-up and the pauses.                                *)

PlayInv == HandleInv /\ DeletionInv /\ PauseInv
Using == {"init", "unpaused", "ready"} \cup Open

(* Where a request may go while the torrent stays as it is.                *)
MayBe(p) ==
    /\ p.at \notin {"adding", "persisting"}
    /\ p.at \in Using => p.handle = torrent.id /\ p.handle # None /\ deletion = {}
    /\ p.at \in {"missing", "barrier"} => handles = None
    /\ p.at \in {"init", "unpaused"} /\ p.new => handles = None
    /\ p.at \in {"unpaused", "ready"} \cup Open => ~torrent.paused

LEMMA RequestMoves ==
    ASSUME TorrentInv, NEW r \in Request, Acts(r), Others(r),
           UNCHANGED <<torrent, handles, barrier, deletion>>, MayBe(request'[r]),
           request'[r].at \in {"init", "unpaused", "ready"} /\ request'[r].new => Adds(r),
           request'[r].at \in Open => \A q \in Request : q # r => ~Adds(q),
           request'[r].at \in Counting =>
               At(r, Counting) \/ (~Sweeping /\ \A t \in timer : ~TimerHolds(t))
    PROVE  PlayInv'
<1> USE DEF TorrentInv
<1>0. /\ Sweeping' = Sweeping
      /\ \A t \in timer' : t.at = "pausing" => t \in timer
  BY RequestsStartTimers DEF Sweeping
<1>1. HandleInv'
  <2>1. ASSUME NEW q \in Request
        PROVE  /\ request'[q].at = "adding" => torrent.id = None
               /\ request'[q].at \in {"persisting", "init", "unpaused", "ready"} \cup Open
                    => request'[q].handle = torrent.id /\ request'[q].handle # None
               /\ request'[q].at \in {"missing", "barrier", "adding", "persisting"}
                    => handles = None
               /\ request'[q].at \in {"init", "unpaused"} /\ request'[q].new => handles = None
    <3>1. CASE q = r
      BY <3>1 DEF MayBe, Using
    <3>2. CASE q # r
      BY <3>2 DEF Others, HandleInv, At
    <3> QED BY <3>1, <3>2
  <2> QED BY <2>1 DEF HandleInv, At
<1>2. DeletionInv'
  <2>1. ASSUME NEW q \in Request
        PROVE  /\ request'[q].at \in {"adding", "persisting"}
                    => request'[q].barrier = barrier /\ barrier # None
               /\ \A d \in deletion : request'[q].at \notin
                    {"adding", "persisting", "init", "unpaused", "ready"} \cup Open
    <3>1. CASE q = r
      BY <3>1 DEF MayBe, Using
    <3>2. CASE q # r
      BY <3>2 DEF Others, DeletionInv, At
    <3> QED BY <3>1, <3>2
  <2>2. ASSUME NEW p \in Request, NEW q \in Request, Adds(p)', request'[q].at \in Open
        PROVE  FALSE
    <3>1. Adds(p)
      BY <2>2 DEF Others, MayBe, Adds, At
    <3>2. q = r
      BY <2>2, <3>1 DEF Others, DeletionInv, At
    <3>3. p = r
      BY <2>2, <3>1, <3>2
    <3> QED BY <2>2, <3>2, <3>3 DEF Adds, At, Open
  <2>3. \A d \in deletion : /\ d.barrier = barrier /\ handles = None
                            /\ \A e \in deletion : e = d
    BY DEF DeletionInv
  <2>4. \A p, q \in Request : Adds(p)' => ~At(q, Open)'
    BY <2>2 DEF At
  <2>5. /\ \A q \in Request : At(q, {"adding", "persisting"})'
             => request'[q].barrier = barrier' /\ barrier' # None
        /\ \A d \in deletion' :
             /\ d.barrier = barrier' /\ handles' = None
             /\ \A e \in deletion' : e = d
             /\ \A q \in Request :
                  ~At(q, {"adding", "persisting", "init", "unpaused", "ready"} \cup Open)'
    BY <2>1, <2>3 DEF At
  <2> QED BY <2>4, <2>5 DEF DeletionInv
<1>3. PauseInv'
  <2>1. ASSUME NEW q \in Request
        PROVE  /\ request'[q].at \in {"unpaused", "ready"} \cup Open => ~torrent.paused
               /\ Sweeping \/ (\E t \in timer : t.at = "pausing") => request'[q].at \notin Counting
    <3>1. CASE q = r
      BY <3>1 DEF MayBe, PauseInv, TimerHolds, At
    <3>2. CASE q # r
      BY <3>2 DEF Others, PauseInv, At
    <3> QED BY <3>1, <3>2
  <2> QED BY <1>0, <2>1 DEF PauseInv, At
<1> QED BY <1>1, <1>2, <1>3 DEF PlayInv

(* Facts about the step that the lemma above asks for.                     *)
LEMMA NoDeletion ==
    ASSUME TorrentInv
    PROVE  /\ barrier = None => deletion = {}
           /\ handles # None => deletion = {}
           /\ \A r \in Request :
                At(r, {"adding", "persisting", "init", "unpaused", "ready"} \cup Open)
                  => deletion = {}
<1> USE TorrentAssumption DEF TorrentInv
<1>1. ASSUME barrier = None
      PROVE  deletion = {}
  <2>1. \A d \in deletion : d.barrier \in Address
    BY TypeSplit DEF EntriesOK
  <2> QED BY <1>1, <2>1 DEF DeletionInv
<1>2. handles # None => deletion = {}
  BY DEF DeletionInv
<1>3. \A r \in Request :
        At(r, {"adding", "persisting", "init", "unpaused", "ready"} \cup Open) => deletion = {}
  BY DEF DeletionInv
<1> QED BY <1>1, <1>2, <1>3

Quiet(r) ==
    \/ \E kind \in {"resolve", "stream"}, a \in Address : Arrive(r, kind, a)
    \/ Lock(r) \/ FindHandle(r) \/ WaitForDeletion(r) \/ Notified(r) \/ Adopt(r)
    \/ Leave(r) \/ Answer(r) \/ (\E a \in Address : Register(r, a))
    \/ Stream(r) \/ Release(r) \/ Closed(r)
    \/ (\E a \in Address : Abandon(r, a)) /\ ~request[r].new

LEMMA QuietPlays ==
    ASSUME TorrentInv, NEW r \in Request, Acts(r), Quiet(r)
    PROVE  PlayInv'
<1> USE TorrentAssumption DEF TorrentInv
<1>0. UNCHANGED <<torrent, handles, barrier, deletion>>
  <2>1. CASE \/ \E kind \in {"resolve", "stream"}, a \in Address : Arrive(r, kind, a)
             \/ Lock(r) \/ FindHandle(r) \/ WaitForDeletion(r) \/ Notified(r) \/ Adopt(r)
    BY <2>1 DEF Arrive, Lock, FindHandle, WaitForDeletion, Notified, Adopt
  <2>2. CASE \/ Leave(r) \/ Answer(r) \/ (\E a \in Address : Register(r, a))
             \/ Stream(r) \/ Release(r) \/ Closed(r)
    BY <2>2 DEF Leave, Answer, Register, Stream, Release, Closed
  <2>3. CASE (\E a \in Address : Abandon(r, a)) /\ ~request[r].new
    BY <2>3 DEF Abandon
  <2> QED BY <2>1, <2>2, <2>3 DEF Quiet
<1>o. Others(r)
  BY LockSteps
(* not a place of use *)
<1>1. CASE \/ \E kind \in {"resolve", "stream"}, a \in Address : Arrive(r, kind, a)
           \/ Lock(r) \/ Leave(r) \/ Answer(r) \/ Closed(r)
           \/ (\E a \in Address : Abandon(r, a)) /\ ~request[r].new
  <2>1. request'[r].at \in {"idle", "queued", "find"}
    <3>1. CASE \E kind \in {"resolve", "stream"}, a \in Address : Arrive(r, kind, a)
      BY <3>1, PrepareSteps DEF Goes
    <3>2. CASE Lock(r)
      BY <3>2, PrepareSteps DEF Goes
    <3>3. CASE Leave(r) \/ Answer(r) \/ Closed(r) \/ \E a \in Address : Abandon(r, a)
      BY <3>3, ServeSteps DEF Fail, Idle
    <3> QED BY <1>1, <3>1, <3>2, <3>3
  <2>2. MayBe(request'[r])
    BY <2>1 DEF MayBe, Using, Open
  <2> QED BY <1>0, <1>o, <2>1, <2>2, RequestMoves DEF Open, Counting
<1>2. CASE WaitForDeletion(r) \/ Notified(r)
  <2>1. At(r, {"missing", "barrier"}) /\ request'[r].at \in {"missing", "barrier"}
    BY <1>2, PrepareSteps DEF Goes, At
  <2>2. handles = None
    BY <2>1 DEF HandleInv, At
  <2>3. MayBe(request'[r])
    BY <2>1, <2>2 DEF MayBe, Using, Open
  <2> QED BY <1>0, <1>o, <2>1, <2>3, RequestMoves DEF Open, Counting
<1>3. CASE FindHandle(r) \/ Adopt(r)
  <2>1. \/ request'[r].at = "missing" /\ handles = None
        \/ /\ request'[r].at = "init" /\ request'[r].new = FALSE
           /\ request'[r].handle = torrent.id /\ torrent.id # None /\ deletion = {}
    <3>1. CASE FindHandle(r)
      BY <3>1, PrepareSteps, NoDeletion DEF HandleInv
    <3>2. CASE Adopt(r)
      BY <3>2, PrepareSteps, NoDeletion DEF Goes, Adopt
    <3> QED BY <1>3, <3>1, <3>2
  <2>2. MayBe(request'[r])
    BY <2>1 DEF MayBe, Using, Open
  <2> QED BY <1>0, <1>o, <2>1, <2>2, RequestMoves DEF Open, Counting
<1>4. ASSUME NEW a \in Address, Register(r, a)
      PROVE  PlayInv'
  <2>1. Goes(r, "ready", "register") /\ request'[r].handle = request[r].handle
    BY <1>4, ServeSteps
  <2>2. /\ request[r].handle = torrent.id /\ torrent.id # None /\ ~torrent.paused
        /\ deletion = {}
    BY <2>1, NoDeletion DEF Goes, HandleInv, PauseInv, At
  <2>3. MayBe(request'[r])
    BY <2>1, <2>2 DEF MayBe, Goes, Using, Open
  <2>4. \A q \in Request : q # r => ~Adds(q)
    BY <2>1 DEF Goes, Adds, OneHolder, At, Locking
  <2> QED BY <1>0, <1>o, <2>1, <2>3, <2>4, RequestMoves DEF Goes, Open, Counting
<1>5. CASE Stream(r) \/ Release(r)
  <2>1. /\ At(r, {"register", "streaming"}) /\ request'[r].at \in Counting
        /\ request'[r].handle = request[r].handle
        /\ At(r, {"register"}) \/ At(r, Counting)
    BY <1>5, ServeSteps DEF Goes, Keeps, At, Counting
  <2>2. /\ request[r].handle = torrent.id /\ torrent.id # None /\ ~torrent.paused
        /\ deletion = {}
    BY <2>1, NoDeletion DEF HandleInv, PauseInv, At, Open
  <2>3. MayBe(request'[r])
    BY <2>1, <2>2 DEF MayBe, Using, Open, Counting
  <2>4. \A q \in Request : ~Adds(q)
    BY <2>1 DEF DeletionInv, At, Open
  <2>5. At(r, {"register"}) => ~Sweeping /\ \A t \in timer : ~TimerHolds(t)
    BY DEF OneHolder, At, Locking
  <2> QED BY <1>0, <1>o, <2>1, <2>3, <2>4, <2>5, RequestMoves DEF Counting
<1> QED BY <1>1, <1>2, <1>3, <1>4, <1>5 DEF Quiet

(* The rest are steps of the request that has the lock.                    *)
LEMMA TheOthersWait ==
    ASSUME TorrentInv, NEW r \in Request, Acts(r), At(r, Locking)
    PROVE  /\ \A q \in Request : q # r => request'[q] = request[q] /\ ~At(q, Locking)
           /\ ~Sweeping' /\ \A t \in timer' : t.at # "pausing"
           /\ (Adds(r) \/ torrent.id = None)
                => \A q \in Request : q # r => request'[q].at \in {"idle", "queued"}
<1> USE DEF TorrentInv
<1>1. \A q \in Request : q # r => request'[q] = request[q] /\ ~At(q, Locking)
  BY LockSteps DEF Others, OneHolder
<1>2. ~Sweeping' /\ \A t \in timer' : t.at # "pausing"
  BY RequestsStartTimers DEF Sweeping, OneHolder, TimerHolds
<1>3. ASSUME Adds(r) \/ torrent.id = None, NEW q \in Request, q # r
      PROVE  request'[q].at \in {"idle", "queued"}
  <2>1. request[q].at \in Locking \cup {"idle", "queued", "streaming", "closing"}
    BY TypeSplit DEF Places
  <2>2. ~At(q, Open)
    BY <1>3 DEF DeletionInv, HandleInv, At
  <2> QED BY <1>1, <1>3, <2>1, <2>2 DEF At, Open
<1> QED BY <1>1, <1>2, <1>3

(* A request that is alone, with its torrent, may do these things.         *)
LEMMA AloneMoves ==
    ASSUME NEW r \in Request,
           \A q \in Request : q # r => request'[q].at \in {"idle", "queued"},
           ~Sweeping', \A t \in timer' : t.at # "pausing",
           handles' # None => handles' = torrent'.id,
           request'[r].at \in {"idle", "adding", "persisting", "init", "unpaused", "ready"},
           request'[r].at = "adding" => torrent'.id = None,
           request'[r].at \in {"persisting", "init", "unpaused", "ready"}
               => request'[r].handle = torrent'.id /\ request'[r].handle # None,
           request'[r].at \in {"adding", "persisting"}
               => handles' = None /\ request'[r].barrier = barrier' /\ barrier' # None,
           request'[r].at \in {"init", "unpaused"} /\ request'[r].new => handles' = None,
           request'[r].at \in {"unpaused", "ready"} => ~torrent'.paused,
           \/ deletion' = {}
           \/ /\ request'[r].at = "idle" /\ handles' = None
              /\ \E ids : deletion' = {[barrier |-> barrier', ids |-> ids]}
    PROVE  PlayInv'
<1>1. \A q \in Request : request'[q].at \notin Open
  BY DEF Open
<1>2. HandleInv'
  <2>1. ASSUME NEW q \in Request
        PROVE  /\ request'[q].at = "adding" => torrent'.id = None
               /\ request'[q].at \in {"persisting", "init", "unpaused", "ready"} \cup Open
                    => request'[q].handle = torrent'.id /\ request'[q].handle # None
               /\ request'[q].at \in {"missing", "barrier", "adding", "persisting"}
                    => handles' = None
               /\ request'[q].at \in {"init", "unpaused"} /\ request'[q].new => handles' = None
    <3>1. CASE q = r
      BY <1>1, <3>1
    <3>2. CASE q # r
      BY <3>2 DEF Open
    <3> QED BY <3>1, <3>2
  <2> QED BY <2>1 DEF HandleInv, At
<1>3. DeletionInv'
  <2>1. \A q \in Request : request'[q].at \in {"adding", "persisting"} => q = r
    OBVIOUS
  <2>2. ASSUME NEW d \in deletion'
        PROVE  /\ d.barrier = barrier' /\ handles' = None
               /\ \A e \in deletion' : e = d
               /\ \A q \in Request : request'[q].at \notin
                    {"adding", "persisting", "init", "unpaused", "ready"} \cup Open
    <3>1. request'[r].at = "idle" /\ handles' = None
      BY <2>2
    <3>2. PICK ids : deletion' = {[barrier |-> barrier', ids |-> ids]}
      BY <2>2
    <3>3. \A q \in Request : request'[q].at \in {"idle", "queued"}
      BY <3>1
    <3> QED BY <3>1, <3>2, <3>3 DEF Open
  <2> QED BY <1>1, <2>1, <2>2 DEF DeletionInv, At
<1>4. PauseInv'
  <2>1. ASSUME NEW q \in Request, request'[q].at \in {"unpaused", "ready"} \cup Open
        PROVE  ~torrent'.paused
    BY <1>1, <2>1
  <2> QED BY <2>1 DEF PauseInv, At
<1> QED BY <1>2, <1>3, <1>4 DEF PlayInv

LEMMA AddingPlays ==
    ASSUME TorrentInv, NEW r \in Request, Acts(r),
           \/ (\E a \in Address : Add(r, a)) \/ (\E id \in Id : Inserted(r, id)) \/ Added(r)
           \/ AbandonAdd(r) \/ ((\E a \in Address : Abandon(r, a)) /\ request[r].new)
    PROVE  PlayInv'
<1> USE TorrentAssumption DEF TorrentInv
<1>0. /\ At(r, {"missing", "adding", "persisting", "init", "unpaused", "ready"})
      /\ Adds(r) \/ torrent.id = None
  BY DEF Add, Inserted, Added, AbandonAdd, Abandon, Adds, At
<1>1. /\ \A q \in Request : q # r => request'[q].at \in {"idle", "queued"}
      /\ ~Sweeping' /\ \A t \in timer' : t.at # "pausing"
  BY <1>0, TheOthersWait DEF At, Locking
<1>2. ASSUME NEW a \in Address, Add(r, a)
      PROVE  PlayInv'
  <2>1. Goes(r, "missing", "adding") /\ request'[r].barrier = a /\ a # None
    BY <1>2, PrepareSteps
  <2>2. handles = None /\ deletion = {}
    BY <1>2, NoDeletion DEF Add, HandleInv, At
  <2>3. /\ barrier' = a /\ handles' = None /\ deletion' = {} /\ torrent'.id = None
    BY <1>2, <2>2 DEF Add
  <2> QED BY <1>1, <2>1, <2>3, AloneMoves DEF Goes
<1>3. ASSUME NEW id \in Id, Inserted(r, id)
      PROVE  PlayInv'
  <2>1. /\ Goes(r, "adding", "persisting") /\ request'[r].handle = id
        /\ request'[r].barrier = request[r].barrier /\ id # None
    BY <1>3, PrepareSteps
  <2>2. /\ handles = None /\ deletion = {} /\ request[r].barrier = barrier /\ barrier # None
    BY <2>1, NoDeletion DEF Goes, HandleInv, DeletionInv, At
  <2>3. handles' = None /\ deletion' = {} /\ torrent'.id = id /\ barrier' = barrier
    BY <1>3, <2>2 DEF Inserted
  <2> QED BY <1>1, <2>1, <2>2, <2>3, AloneMoves DEF Goes
<1>4. CASE Added(r)
  <2>1. Goes(r, "persisting", "init") /\ request'[r].handle = request[r].handle
    BY <1>4, PrepareSteps
  <2>2. /\ handles = None /\ deletion = {}
        /\ request[r].handle = torrent.id /\ request[r].handle # None
    BY <2>1, NoDeletion DEF Goes, HandleInv, At
  <2>3. handles' = None /\ deletion' = {} /\ torrent' = torrent
    BY <1>4, <2>2 DEF Added
  <2> QED BY <1>1, <2>1, <2>2, <2>3, AloneMoves DEF Goes
<1>5. CASE AbandonAdd(r)
  <2>0. request'[r] = Idle
    BY <1>5, ServeSteps DEF Fail
  <2>1. request'[r].at = "idle" /\ At(r, {"adding", "persisting"})
    BY <1>5, <2>0 DEF Idle, AbandonAdd, At
  <2>2. handles = None /\ deletion = {} /\ request[r].barrier = barrier
    BY <2>1, NoDeletion DEF HandleInv, DeletionInv, At
  <2>3. /\ handles' = None /\ torrent' = torrent
        /\ deletion' = {[barrier |-> barrier', ids |-> Id]}
    BY <1>5, <2>2 DEF AbandonAdd
  <2> QED BY <1>1, <2>1, <2>3, AloneMoves
<1>6. ASSUME NEW a \in Address, Abandon(r, a), request[r].new
      PROVE  PlayInv'
  <2>0. request'[r] = Idle
    BY <1>6, ServeSteps DEF Fail
  <2>1. request'[r].at = "idle" /\ At(r, {"init", "unpaused", "ready"})
    BY <1>6, <2>0 DEF Idle, Abandon, At
  <2>2. deletion = {} /\ request[r].handle = torrent.id /\ handles \in {None, torrent.id}
    BY <2>1, NoDeletion DEF HandleInv, At
  <2>3. /\ handles' = None /\ torrent' = torrent
        /\ deletion' = {[barrier |-> barrier', ids |-> {request[r].handle}]}
    BY <1>6, <2>2 DEF Abandon
  <2> QED BY <1>1, <2>1, <2>3, AloneMoves
<1> QED BY <1>2, <1>3, <1>4, <1>5, <1>6

LEMMA PreparedPlays ==
    ASSUME TorrentInv, NEW r \in Request, Acts(r), Unpause(r) \/ Publish(r)
    PROVE  PlayInv'
<1> USE DEF TorrentInv
<1>0. /\ At(r, {"init", "unpaused"}) /\ Keeps(r) /\ request'[r].at \in {"unpaused", "ready"}
      /\ UNCHANGED <<barrier, deletion>>
  <2>1. CASE Unpause(r)
    BY <2>1, PrepareSteps DEF Goes, At, Unpause
  <2>2. CASE Publish(r)
    BY <2>2, PrepareSteps DEF Goes, At, Publish
  <2> QED BY <2>1, <2>2
<1>1. /\ \A q \in Request : q # r => request'[q] = request[q] /\ ~At(q, Locking)
      /\ ~Sweeping' /\ \A t \in timer' : t.at # "pausing"
  BY <1>0, TheOthersWait DEF At, Locking
<1>2. /\ deletion = {} /\ request[r].handle = torrent.id /\ torrent.id # None
      /\ handles # None => handles = torrent.id
  BY <1>0, NoDeletion DEF HandleInv, At
<1>3. /\ torrent'.id = torrent.id /\ ~torrent'.paused
      /\ handles' \in {None, torrent.id}
      /\ request'[r].at = "unpaused" => handles' = handles
  <2>1. CASE Unpause(r)
    <3>1. torrent' = [torrent EXCEPT !.paused = FALSE] /\ handles' = handles
      BY <1>2, <2>1 DEF Unpause
    <3>2. torrent \in [id : Id \cup {None}, paused : BOOLEAN]
      BY TypeSplit DEF EntriesOK
    <3> QED BY <1>2, <3>1, <3>2
  <2>2. CASE Publish(r)
    <3>1. torrent' = torrent /\ handles' = torrent.id /\ request'[r].at = "ready"
      BY <1>2, <2>2, PrepareSteps DEF Publish, Goes
    <3>2. ~torrent.paused
      BY <2>2 DEF Publish, PauseInv, At
    <3> QED BY <3>1, <3>2
  <2> QED BY <2>1, <2>2
<1>4. HandleInv'
  <2>1. ASSUME NEW q \in Request
        PROVE  /\ request'[q].at \notin {"missing", "barrier", "adding", "persisting"}
               /\ request'[q].at \in {"init", "unpaused", "ready"} \cup Open
                    => request'[q].handle = torrent.id /\ request'[q].handle # None
               /\ request'[q].at \in {"init", "unpaused"} /\ request'[q].new => handles' = None
    <3>1. CASE q = r
      BY <1>0, <1>2, <1>3, <3>1 DEF Keeps, HandleInv, At
    <3>2. CASE q # r
      BY <1>1, <3>2 DEF HandleInv, At, Locking
    <3> QED BY <3>1, <3>2
  <2> QED BY <1>3, <2>1 DEF HandleInv, At
<1>5. DeletionInv'
  <2>1. \A q \in Request : request'[q].at \notin {"adding", "persisting"}
    BY <1>0, <1>1 DEF At, Locking
  <2>2. ASSUME NEW p \in Request, NEW q \in Request, Adds(p)', request'[q].at \in Open
        PROVE  FALSE
    <3>1. p = r
      BY <1>1, <2>2 DEF Adds, At, Locking
    <3>2. Adds(r)
      BY <1>0, <2>2, <3>1 DEF Adds, At, Keeps
    <3>3. q # r
      BY <1>0, <2>2 DEF Open
    <3> QED BY <1>1, <2>2, <3>2, <3>3 DEF DeletionInv, At
  <2>3. \A p, q \in Request : Adds(p)' => ~At(q, Open)'
    BY <2>2 DEF At
  <2> QED BY <1>0, <1>2, <2>1, <2>3 DEF DeletionInv, At
<1>6. PauseInv'
  BY <1>1, <1>3 DEF PauseInv, At
<1> QED BY <1>4, <1>5, <1>6 DEF PlayInv

(* The clean-up deletes what nobody uses.                                  *)
LEMMA DeletionPlays ==
    ASSUME TorrentInv, NEW d \in deletion, Delete(d)
    PROVE  PlayInv'
<1> USE DEF TorrentInv
<1>1. /\ deletion' = {} /\ handles' = None /\ request' = request /\ timer' = timer
      /\ Sweeping' = Sweeping
  BY DEF Delete, DeletionInv, Sweeping
<1>2. \A r \in Request :
        request[r].at \notin {"adding", "persisting", "init", "unpaused", "ready"} \cup Open
  BY DEF DeletionInv, At
<1>3. HandleInv'
  BY <1>1, <1>2 DEF HandleInv, At
<1>4. DeletionInv'
  BY <1>1, <1>2 DEF DeletionInv, At, Adds
<1>5. PauseInv'
  BY <1>1, <1>2 DEF PauseInv, At, Open, Counting
<1> QED BY <1>3, <1>4, <1>5 DEF PlayInv

(* A pause, or the end of a torrent: nobody has the lock and nobody plays. *)
LEMMA NobodyPlays ==
    ASSUME TypeOK, UNCHANGED <<request, barrier, deletion>>,
           \A r \in Request : ~At(r, Locking) /\ ~At(r, Counting),
           handles' \in {None, handles}, handles' # None => handles' = torrent'.id,
           DeletionInv
    PROVE  PlayInv'
<1>1. \A r \in Request :
        request'[r].at \notin Locking \cup Open /\ request'[r].at \notin Counting
  BY DEF At, Locking, Open, Counting
<1>2. HandleInv'
  BY <1>1 DEF HandleInv, At, Locking
<1>3. DeletionInv'
  BY <1>1 DEF DeletionInv, At, Adds, Locking
<1>4. PauseInv'
  BY <1>1 DEF PauseInv, At, Locking
<1> QED BY <1>2, <1>3, <1>4 DEF PlayInv

(* Nothing but what is about to be paused or retired.                      *)
LEMMA NothingPlays ==
    ASSUME TorrentInv, UNCHANGED <<request, torrent, handles, barrier, deletion>>,
           \/ ~Sweeping' /\ \A t \in timer' : t.at # "pausing"
           \/ \A r \in Request : ~At(r, Counting)
           \/ (Sweeping' => Sweeping) /\ \A t \in timer' : t.at = "pausing" => t \in timer
    PROVE  PlayInv'
<1> USE DEF TorrentInv
<1>1. HandleInv'
  BY DEF HandleInv, At
<1>2. DeletionInv'
  BY DEF DeletionInv, At, Adds
<1>3. PauseInv'
  BY DEF PauseInv, At
<1> QED BY <1>1, <1>2, <1>3 DEF PlayInv

LEMMA TimersPlay ==
    ASSUME TorrentInv, IdleTimer
    PROVE  PlayInv'
<1> USE TorrentAssumption DEF TorrentInv
<1>0. /\ UNCHANGED <<request, handles, barrier, deletion>> /\ Sweeping' = Sweeping
  BY DEF IdleTimer, TimerWakes, TimerLocks, TimerChecks, TimerPauses, Sweeping
<1>1. PICK t \in timer : \/ \E a \in Address : TimerWakes(t, a)
                         \/ TimerLocks(t) \/ TimerChecks(t) \/ TimerPauses(t)
  BY DEF IdleTimer
<1>2. CASE TimerPauses(t)
  <2>1. \A r \in Request : ~At(r, Locking) /\ ~At(r, Counting)
    BY <1>2 DEF TimerPauses, OneHolder, TimerHolds, PauseInv
  <2>2. torrent \in [id : Id \cup {None}, paused : BOOLEAN]
    BY TypeSplit DEF EntriesOK
  <2>3. torrent'.id = torrent.id
    BY <1>2, <2>2 DEF TimerPauses, Pause
  <2>4. handles' # None => handles' = torrent'.id
    BY <1>0, <2>3 DEF HandleInv
  <2> QED BY <1>0, <2>1, <2>4, NobodyPlays
<1>3. CASE TimerChecks(t) /\ IsIdle(t)
  <2>1. torrent' = torrent
    BY <1>3 DEF TimerChecks
  <2>2. \A r \in Request : ~At(r, Counting)
    BY <1>3, CountOfStream DEF IsIdle
  <2> QED BY <1>0, <2>1, <2>2, NothingPlays
<1>4. CASE (\E a \in Address : TimerWakes(t, a)) \/ TimerLocks(t) \/ (TimerChecks(t) /\ ~IsIdle(t))
  <2>1. torrent' = torrent
    BY <1>4 DEF TimerWakes, TimerLocks, TimerChecks
  <2>2. \A u \in timer' : u.at = "pausing" => u \in timer
    <3>1. ASSUME NEW a \in Address, TimerWakes(t, a)
          PROVE  \A u \in timer' : u.at = "pausing" => u \in timer
      <4>1. PICK w \in Timers : timer' = (timer \ {t}) \cup {w} /\ w.at = "queued"
        BY <3>1, TimerSteps
      <4> QED BY <4>1
    <3>2. CASE TimerLocks(t)
      <4>1. PICK w \in Timers : timer' = (timer \ {t}) \cup {w} /\ w.at = "locked"
        BY <3>2, TimerSteps
      <4> QED BY <4>1
    <3>3. CASE TimerChecks(t) /\ ~IsIdle(t)
      BY <3>3 DEF TimerChecks
    <3> QED BY <1>4, <3>1, <3>2, <3>3
  <2> QED BY <1>0, <2>1, <2>2, NothingPlays
<1> QED BY <1>1, <1>2, <1>3, <1>4

LEMMA SweepPlays ==
    ASSUME TorrentInv, Sweep
    PROVE  PlayInv'
<1> USE TorrentAssumption DEF TorrentInv
<1>0. UNCHANGED <<request, timer, barrier, deletion>>
  BY DEF Sweep, SweepLists, SweepLocks, SweepPauses, SweepDeletes
<1>t. torrent \in [id : Id \cup {None}, paused : BOOLEAN]
  BY TypeSplit DEF EntriesOK
<1>h. handles # None => handles = torrent.id
  BY DEF HandleInv
<1>1. Sweeping => \A r \in Request : ~At(r, Locking) /\ ~At(r, Counting)
  BY DEF OneHolder, PauseInv
<1>2. CASE SweepLists
  <2>1. UNCHANGED <<torrent, handles>> /\ ~Sweeping'
    BY <1>2, SweepSteps DEF SweepLists, Sweeping
  <2> QED BY <1>0, <2>1, NothingPlays
<1>3. ASSUME NEW a \in Address, SweepLocks(a)
      PROVE  PlayInv'
  <2>1. UNCHANGED <<torrent, handles>>
    BY <1>3 DEF SweepLocks
  <2>2. CASE ~Sweeping'
    BY <1>0, <2>1, <2>2, NothingPlays
  <2>3. CASE Sweeping'
    <3>1. ~HasActiveStream
      BY <1>3, <2>3, SweepSteps DEF Sweeping, NoSweep
    <3>2. ASSUME NEW r \in Request, At(r, Counting)
          PROVE  FALSE
      <4>1. streamEntry \in Address /\ count[streamEntry] \in Nat \ {0}
        BY <3>2, CountOfStream
      <4> QED BY <3>1, <4>1 DEF HasActiveStream
    <3> QED BY <1>0, <2>1, <3>2, NothingPlays
  <2> QED BY <2>2, <2>3
<1>4. CASE SweepPauses
  <2>1. handles' = handles /\ torrent'.id = torrent.id /\ Sweeping
    BY <1>4, <1>t DEF SweepPauses, Pause, Sweeping
  <2> QED BY <1>0, <1>1, <1>h, <2>1, NobodyPlays
<1>5. CASE SweepDeletes
  <2>1. Sweeping
    BY <1>5 DEF SweepDeletes, Sweeping
  <2>2. handles' \in {None, handles} /\ (handles' # None => handles' = torrent'.id)
    BY <1>5, <1>h DEF SweepDeletes, Forget
  <2> QED BY <1>0, <1>1, <2>1, <2>2, NobodyPlays
<1> QED BY <1>2, <1>3, <1>4, <1>5 DEF Sweep

LEMMA PlayKept ==
    ASSUME TorrentInv, [Next]_vars
    PROVE  PlayInv'
<1>1. ASSUME NEW r \in Request, Acts(r)
      PROVE  PlayInv'
  <2>1. \/ Quiet(r) \/ Unpause(r) \/ Publish(r)
        \/ (\E a \in Address : Add(r, a)) \/ (\E id \in Id : Inserted(r, id)) \/ Added(r)
        \/ AbandonAdd(r) \/ ((\E a \in Address : Abandon(r, a)) /\ request[r].new)
    BY <1>1 DEF Acts, Quiet, Prepare, Fail, Serve
  <2> QED BY <1>1, <2>1, QuietPlays, PreparedPlays, AddingPlays
<1>2. CASE PruneIdleLocks \/ Tick \/ UNCHANGED vars
  <2>1. /\ UNCHANGED <<request, torrent, handles, barrier, deletion, timer>>
        /\ Sweeping' = Sweeping
    BY <1>2 DEF PruneIdleLocks, Tick, vars, Sweeping
  <2> QED BY <2>1, NothingPlays
<1> QED BY <1>1, <1>2, TimersPlay, SweepPlays, DeletionPlays DEF Acts, Next

-----------------------------------------------------------------------------
(* Initially, and in the end.                                              *)

LEMMA InitTorrent == Init => TorrentInv
<1> USE TorrentAssumption
<1> SUFFICES ASSUME Init
             PROVE  TorrentInv
  OBVIOUS
<1>1. \A r \in Request : request[r] = Idle
  BY DEF Init
<1>2. \A r \in Request : request[r].at = "idle" /\ request[r].lock = None
  BY <1>1 DEF Idle
<1>3. TypeOK
  <2>0. torrent \in [id : Id \cup {None}, paused : BOOLEAN]
    <3>1. NoTorrent \in [id : Id \cup {None}, paused : BOOLEAN]
      BY DEF NoTorrent
    <3>2. ASSUME NEW x \in [id : Id, paused : BOOLEAN]
          PROVE  x \in [id : Id \cup {None}, paused : BOOLEAN]
      OBVIOUS
    <3> QED BY <3>1, <3>2 DEF Init
  <2>1. EntriesOK /\ CountersOK /\ timer \subseteq Timers
    <3>1. EntriesOK
      BY <2>0 DEF Init, EntriesOK
    <3>2. CountersOK
      BY DEF Init, CountersOK
    <3> QED BY <3>1, <3>2 DEF Init
  <2>2. Idle \in Places
    BY DEF Idle, Places
  <2>3. request \in [Request -> Places]
    BY <2>2 DEF Init
  <2>4. sweeper \in Sweepers
    BY DEF Init, NoSweep, Sweepers
  <2> QED BY <2>1, <2>3, <2>4, TypeSplit
<1>4. timer = {} /\ ~Sweeping /\ sweeper.lock = None /\ handles = None /\ deletion = {}
  BY DEF Init, Sweeping, NoSweep
<1>5. LockInv /\ OneHolder
  BY <1>2, <1>4 DEF LockInv, OneHolder, At, Locking
<1>6. CountInv
  <2>1. \A a \in Address : Streams(a) = {}
    BY <1>2 DEF Streams, At, Counting
  <2>2. \A a \in Address : count[a] = 0
    BY DEF Init
  <2> QED BY <1>2, <2>1, <2>2, FS_EmptySet DEF CountInv, At, Open
<1>7. HandleInv /\ DeletionInv /\ PauseInv
  BY <1>2, <1>4 DEF HandleInv, DeletionInv, PauseInv, At, Adds, Open, Counting
<1> QED BY <1>3, <1>5, <1>6, <1>7 DEF TorrentInv

(* The inductive invariant: every reachable state of the torrent of a hash *)
(* has one holder of its lock, counters that count its open streams, and a *)
(* handle that is the torrent of the session (local_torrent.rs).           *)
THEOREM TorrentCorrect == Spec => []TorrentInv
<1>1. Init => TorrentInv
  BY InitTorrent
<1>2. TorrentInv /\ [Next]_vars => TorrentInv'
  BY TypeKept, LockKept, CountKept, PlayKept DEF TorrentInv, PlayInv
<1> QED BY <1>1, <1>2, PTL DEF Spec

(* The state of locks, handles, clean-up tasks and counters is well formed *)
(* for any number of requests.                                             *)
THEOREM TypeCorrect == Spec => []TypeOK
<1>1. TorrentInv => TypeOK
  BY DEF TorrentInv
<1> QED BY <1>1, TorrentCorrect, PTL

(* key_lock and prune_idle_locks: one request, timer or sweep at a time    *)
(* works on a hash.                                                        *)
THEOREM LockExclusive == Spec => []LockIsExclusive
<1>1. TorrentInv => LockIsExclusive
  <2> SUFFICES ASSUME TorrentInv
               PROVE  LockIsExclusive
    OBVIOUS
  <2> USE TorrentAssumption DEF TorrentInv
  <2> DEFINE All == UNION {LockHolders(a) : a \in Address}
  <2>1. ASSUME NEW x \in All
        PROVE  \/ x \in Request /\ At(x, Locking)
               \/ x \in timer /\ TimerHolds(x)
               \/ x = sweeper /\ Sweeping
    <3>1. PICK a \in Address : x \in LockHolders(a)
      OBVIOUS
    <3>2. CASE x \in Request /\ request[x].at \in Locking
      BY <3>2 DEF At
    <3>3. CASE x \in timer /\ x.at \in {"locked", "pausing"}
      BY <3>3 DEF TimerHolds
    <3>4. CASE x = sweeper /\ sweeper.lock = a
      BY <3>4 DEF LockInv
    <3> QED BY <3>1, <3>2, <3>3, <3>4 DEF LockHolders
  <2>2. \A x, y \in All : x = y
    BY <2>1 DEF OneHolder
  <2>3. All = {} \/ \E x : All = {x}
    BY <2>2
  <2>4. Cardinality(All) \in {0, 1}
    BY <2>3, FS_EmptySet, FS_Singleton
  <2> QED BY <2>4 DEF LockIsExclusive
<1> QED BY <1>1, TorrentCorrect, PTL

(* active_stream_guard, the idle timers, maintain_idle_handles and         *)
(* pending_handle_cleanup: none of them pauses or retires the torrent of   *)
(* an open stream, and the cached handle is that of the session's torrent. *)
THEOREM OpenStreams == Spec => []OpenStreamPlays
<1>1. TorrentInv => OpenStreamPlays
  <2> SUFFICES ASSUME TorrentInv
               PROVE  OpenStreamPlays
    OBVIOUS
  <2> USE DEF TorrentInv
  <2>1. ASSUME NEW r \in Request, request[r].at \in Open
        PROVE  torrent = [id |-> request[r].handle, paused |-> FALSE]
    <3>1. request[r].handle = torrent.id /\ ~torrent.paused
      BY <2>1 DEF HandleInv, PauseInv, At
    <3>2. torrent \in [id : Id \cup {None}, paused : BOOLEAN]
      BY TypeSplit DEF EntriesOK
    <3>3. torrent.paused = FALSE
      BY <3>1, <3>2
    <3> QED BY <3>1, <3>2, <3>3
  <2> QED BY <2>1 DEF OpenStreamPlays, HandleInv, Open
<1> QED BY <1>1, TorrentCorrect, PTL
=============================================================================
