--------------------------- MODULE TorrentStreams ---------------------------
(***************************************************************************)
(* One torrent of the local cache (local_torrent.rs): resolves and streams *)
(* that add, start and share its handle, the timers that pause it when its *)
(* last stream is gone, the sweep that retires it, and the clean-up of     *)
(* requests that are dropped half-way.                                     *)
(*                                                                         *)
(* Everything is per info hash, so one hash is modelled.  A request can be *)
(* dropped at every await; what runs between two awaits is one step, but   *)
(* two atomic operations on a stream counter are two steps.                *)
(***************************************************************************)
EXTENDS Integers, FiniteSets

CONSTANTS
    Request,
    Address,        \* of shared objects: locks, stream counters, barriers
    Id,             \* librqbit's handle ids; one is free again after a delete
    None,
    MaxGeneration   \* bound: of a stream counter

ASSUME TorrentAssumption ==
    /\ None \notin Request \cup Address \cup Id
    /\ MaxGeneration \in Nat

VARIABLES
    lockEntry,      \* entry of `locks`
    request,        \* [Request -> where a request is and what it holds]
    timer,          \* the idle timers of released streams
    sweeper,        \* maintain_idle_handles, on behalf of the 60 s sweep
    torrent,        \* librqbit's session: the managed torrent
    handles,        \* entry of `handles`
    barrier,        \* entry of `pending_handle_deletions`
    deletion,       \* clean-up tasks
    streamEntry,    \* entry of `active_streams`
    count,          \* [Address -> count of a stream counter]
    generation,     \* [Address -> generation of a stream counter]
    idle,           \* history: [Address -> generation of the last idle timer]
    recent          \* the access marker is younger than the grace period

vars == <<lockEntry, request, timer, sweeper, torrent, handles, barrier, deletion,
          streamEntry, count, generation, idle, recent>>
counterVars == <<streamEntry, count, generation, idle>>

Idle == [at |-> "idle", kind |-> "none", lock |-> None, handle |-> None, new |-> FALSE,
         barrier |-> None, counter |-> None, gen |-> 0]
NoSweep == [at |-> "idle", handle |-> None, lock |-> None]
NoTorrent == [id |-> None, paused |-> TRUE]

Locking == {"find", "missing", "barrier", "adding", "persisting", "init", "unpaused",
            "ready", "register"}

-----------------------------------------------------------------------------
(* Per-key locks and counters: an entry goes when only the map holds it.   *)

LockHolders(a) ==
    {r \in Request : request[r].at \in Locking /\ request[r].lock = a}
        \cup {t \in timer : t.at \in {"locked", "pausing"} /\ t.lock = a}
        \cup {s \in {sweeper} : s.at # "idle" /\ s.lock = a}

LockUsed(a) ==
    \/ \E r \in Request : request[r].lock = a
    \/ \E t \in timer : t.lock = a
    \/ sweeper.lock = a

CounterUsed(a) ==
    \/ \E r \in Request : request[r].counter = a
    \/ \E t \in timer : t.counter = a

Unused(a) ==
    /\ a \notin {lockEntry, streamEntry, barrier}
    /\ ~LockUsed(a) /\ ~CounterUsed(a)
    /\ \A d \in deletion : d.barrier # a
    /\ \A r \in Request : request[r].barrier # a

Free(a) == Unused(a) /\ a = CHOOSE b \in Address : Unused(b)

(* key_lock *)
KeyLock(a) == IF lockEntry = None THEN Free(a) ELSE a = lockEntry

(* unused for a while, whoever holds it *)
MutPruneLock == lockEntry' = None

PruneLock == lockEntry # None /\ ~LockUsed(lockEntry) /\ lockEntry' = None

(* prune_idle_locks; locks and counters are pruned one after the other. *)
PruneIdleLocks ==
    /\ \/ PruneLock /\ UNCHANGED counterVars
       \/ /\ streamEntry # None /\ count[streamEntry] = 0 /\ ~CounterUsed(streamEntry)
          /\ streamEntry' = None
          /\ generation' = [generation EXCEPT ![streamEntry] = 0]
          /\ idle' = [idle EXCEPT ![streamEntry] = 0]
          /\ UNCHANGED <<lockEntry, count>>
    /\ UNCHANGED <<request, timer, sweeper, torrent, handles, barrier, deletion, recent>>

-----------------------------------------------------------------------------
(* resolve and create_stream_response up to a prepared handle.             *)

Arrive(r, kind, a) ==
    /\ request[r].at = "idle"
    /\ KeyLock(a)
    /\ lockEntry' = a
    /\ request' = [request EXCEPT ![r] = [Idle EXCEPT !.at = "queued", !.kind = kind, !.lock = a]]
    /\ UNCHANGED <<timer, sweeper, torrent, handles, barrier, deletion, counterVars, recent>>

Lock(r) ==
    /\ request[r].at = "queued" /\ LockHolders(request[r].lock) = {}
    /\ request' = [request EXCEPT ![r].at = "find"]
    /\ UNCHANGED <<lockEntry, timer, sweeper, torrent, handles, barrier, deletion,
                   counterVars, recent>>

Use(r, id, new) ==
    request' = [request EXCEPT ![r].at = "init", ![r].handle = id, ![r].new = new]

(* prepare_selected_handle: a known handle is taken as it is. *)
FindHandle(r) ==
    /\ request[r].at = "find"
    /\ IF handles # None THEN Use(r, handles, FALSE)
       ELSE request' = [request EXCEPT ![r].at = "missing"]
    /\ UNCHANGED <<lockEntry, timer, sweeper, torrent, handles, barrier, deletion,
                   counterVars, recent>>

(* add_paused_torrent_handle waits for each deletion under way.            *)
WaitForDeletion(r) ==
    /\ request[r].at = "missing" /\ barrier # None
    /\ request' = [request EXCEPT ![r].at = "barrier", ![r].barrier = barrier]
    /\ UNCHANGED <<lockEntry, timer, sweeper, torrent, handles, barrier, deletion,
                   counterVars, recent>>

Notified(r) ==
    /\ request[r].at = "barrier"
    /\ \A d \in deletion : d.barrier # request[r].barrier
    /\ request' = [request EXCEPT ![r].at = "missing", ![r].barrier = None]
    /\ UNCHANGED <<lockEntry, timer, sweeper, torrent, handles, barrier, deletion,
                   counterVars, recent>>

(* A torrent of an earlier run of the program is taken over. *)
Adopt(r) ==
    /\ request[r].at = "missing" /\ barrier = None /\ torrent.id # None
    /\ Use(r, torrent.id, FALSE)
    /\ UNCHANGED <<lockEntry, timer, sweeper, torrent, handles, barrier, deletion,
                   counterVars, recent>>

(* add_selected_torrent, once the metadata are found. *)
Add(r, a) ==
    /\ request[r].at = "missing" /\ barrier = None /\ torrent.id = None
    /\ Free(a)
    /\ barrier' = a
    /\ request' = [request EXCEPT ![r].at = "adding", ![r].barrier = a]
    /\ UNCHANGED <<lockEntry, timer, sweeper, torrent, handles, deletion, counterVars, recent>>

(* librqbit inserts the torrent, then persists it. *)
Inserted(r, id) ==
    /\ request[r].at = "adding"
    /\ torrent' = [id |-> id, paused |-> TRUE]
    /\ request' = [request EXCEPT ![r].at = "persisting", ![r].handle = id]
    /\ UNCHANGED <<lockEntry, timer, sweeper, handles, barrier, deletion, counterVars, recent>>

Added(r) ==
    /\ request[r].at = "persisting"
    /\ barrier' = IF barrier = request[r].barrier THEN None ELSE barrier
    /\ request' = [request EXCEPT ![r].at = "init", ![r].new = TRUE, ![r].barrier = None]
    /\ UNCHANGED <<lockEntry, timer, sweeper, torrent, handles, deletion, counterVars, recent>>

(* Initialized, and the cache has room for the file. *)
Unpause(r) ==
    /\ request[r].at = "init"
    /\ torrent' = IF torrent.id = request[r].handle THEN [torrent EXCEPT !.paused = FALSE]
                  ELSE torrent
    /\ request' = [request EXCEPT ![r].at = "unpaused"]
    /\ UNCHANGED <<lockEntry, timer, sweeper, handles, barrier, deletion, counterVars, recent>>

Publish(r) ==
    /\ request[r].at = "unpaused"
    /\ handles' = request[r].handle
    /\ request' = [request EXCEPT ![r].at = "ready"]
    /\ UNCHANGED <<lockEntry, timer, sweeper, torrent, barrier, deletion, counterVars, recent>>

-----------------------------------------------------------------------------
(* Requests that fail or are dropped.                                      *)

Leave(r) ==
    /\ request[r].at \in {"queued", "find", "missing", "barrier"}
    /\ request' = [request EXCEPT ![r] = Idle]
    /\ UNCHANGED <<lockEntry, timer, sweeper, torrent, handles, barrier, deletion,
                   counterVars, recent>>

(* While librqbit adds: whatever it has inserted is deleted. *)
AbandonAdd(r) ==
    /\ request[r].at \in {"adding", "persisting"}
    /\ deletion' = deletion \cup {[barrier |-> request[r].barrier, ids |-> Id]}
    /\ request' = [request EXCEPT ![r] = Idle]
    /\ UNCHANGED <<lockEntry, timer, sweeper, torrent, handles, barrier, counterVars, recent>>

(* pending_handle_cleanup: a new handle goes when its request fails. *)
Abandon(r, a) ==
    LET h == request[r].handle IN
    /\ request[r].at \in {"init", "unpaused", "ready"}
    /\ IF request[r].new
       THEN /\ Free(a)
            /\ barrier' = a
            /\ handles' = IF handles = h THEN None ELSE handles
            /\ deletion' = deletion \cup {[barrier |-> a, ids |-> {h}]}
       ELSE UNCHANGED <<handles, barrier, deletion>>
    /\ request' = [request EXCEPT ![r] = Idle]
    /\ UNCHANGED <<lockEntry, timer, sweeper, torrent, counterVars, recent>>

(* The clean-up task; it holds no lock. *)
Delete(d) ==
    /\ d \in deletion
    /\ torrent' = IF torrent.id \in d.ids THEN NoTorrent ELSE torrent
    /\ barrier' = IF barrier = d.barrier THEN None ELSE barrier
    /\ deletion' = deletion \ {d}
    /\ UNCHANGED <<lockEntry, request, timer, sweeper, handles, counterVars, recent>>

-----------------------------------------------------------------------------
(* What the handle is for. *)

(* resolve, and a stream request that has no body to send. *)
Answer(r) ==
    /\ request[r].at = "ready"
    /\ recent' = TRUE
    /\ request' = [request EXCEPT ![r] = Idle]
    /\ UNCHANGED <<lockEntry, timer, sweeper, torrent, handles, barrier, deletion, counterVars>>

(* active_stream_guard, register: the generation, then the count. *)
Register(r, a) ==
    /\ request[r].at = "ready" /\ request[r].kind = "stream"
    /\ IF streamEntry = None THEN Free(a) ELSE a = streamEntry
    /\ generation[a] < MaxGeneration
    /\ streamEntry' = a
    /\ generation' = [generation EXCEPT ![a] = @ + 1]
    /\ recent' = TRUE
    /\ request' = [request EXCEPT ![r].at = "register", ![r].counter = a]
    /\ UNCHANGED <<lockEntry, timer, sweeper, torrent, handles, barrier, deletion, count, idle>>

(* the count is left to somebody else *)
MutStream(r) ==
    /\ request[r].at = "register"
    /\ request' = [request EXCEPT ![r].at = "streaming", ![r].lock = None]
    /\ UNCHANGED <<lockEntry, timer, sweeper, torrent, handles, barrier, deletion,
                   counterVars, recent>>

(* The lock is released; the response keeps the counter. *)
Stream(r) ==
    /\ request[r].at = "register"
    /\ count' = [count EXCEPT ![request[r].counter] = @ + 1]
    /\ request' = [request EXCEPT ![r].at = "streaming", ![r].lock = None]
    /\ UNCHANGED <<lockEntry, timer, sweeper, torrent, handles, barrier, deletion,
                   streamEntry, generation, idle, recent>>

(* release: the generation, then the count. *)
Release(r) ==
    LET a == request[r].counter IN
    /\ request[r].at = "streaming"
    /\ generation' = [generation EXCEPT ![a] = @ + 1]
    /\ request' = [request EXCEPT ![r].at = "closing", ![r].gen = generation[a] + 1]
    /\ UNCHANGED <<lockEntry, timer, sweeper, torrent, handles, barrier, deletion,
                   streamEntry, count, idle, recent>>

(* The last stream starts the timer. *)
Closed(r) ==
    LET a == request[r].counter
        g == request[r].gen IN
    /\ request[r].at = "closing"
    /\ count' = [count EXCEPT ![a] = @ - 1]
    /\ IF count[a] = 1
       THEN /\ timer' = timer \cup {[at |-> "sleep", counter |-> a, gen |-> g,
                                     handle |-> request[r].handle, lock |-> None]}
            /\ idle' = [idle EXCEPT ![a] = g]
       ELSE UNCHANGED <<timer, idle>>
    /\ request' = [request EXCEPT ![r] = Idle]
    /\ UNCHANGED <<lockEntry, sweeper, torrent, handles, barrier, deletion, streamEntry,
                   generation, recent>>

-----------------------------------------------------------------------------
(* The task a timer runs after LOCAL_TORRENT_STREAM_IDLE_PAUSE_DELAY.      *)

Move(t, u) == timer' = (timer \ {t}) \cup {u}

TimerWakes(t, a) ==
    /\ t \in timer /\ t.at = "sleep"
    /\ KeyLock(a)
    /\ lockEntry' = a
    /\ Move(t, [t EXCEPT !.at = "queued", !.lock = a])
    /\ UNCHANGED <<request, sweeper, torrent, handles, barrier, deletion, counterVars, recent>>

TimerLocks(t) ==
    /\ t \in timer /\ t.at = "queued" /\ LockHolders(t.lock) = {}
    /\ Move(t, [t EXCEPT !.at = "locked"])
    /\ UNCHANGED <<lockEntry, request, sweeper, torrent, handles, barrier, deletion,
                   counterVars, recent>>

(* looks at the generation only *)
MutIsIdle(t) == streamEntry = t.counter

(* is_current_idle_stream_state *)
IsIdle(t) ==
    streamEntry = t.counter /\ count[t.counter] = 0 /\ generation[t.counter] = t.gen

TimerChecks(t) ==
    /\ t \in timer /\ t.at = "locked"
    /\ IF IsIdle(t) /\ torrent.id = t.handle /\ ~torrent.paused
       THEN Move(t, [t EXCEPT !.at = "pausing"])
       ELSE timer' = timer \ {t}
    /\ UNCHANGED <<lockEntry, request, sweeper, torrent, handles, barrier, deletion,
                   counterVars, recent>>

Pause(id) == torrent' = IF torrent.id = id THEN [torrent EXCEPT !.paused = TRUE] ELSE torrent

(* session.pause may fail. *)
TimerPauses(t) ==
    /\ t \in timer /\ t.at = "pausing"
    /\ Pause(t.handle) \/ UNCHANGED torrent
    /\ timer' = timer \ {t}
    /\ UNCHANGED <<lockEntry, request, sweeper, handles, barrier, deletion, counterVars, recent>>

-----------------------------------------------------------------------------
(* maintain_idle_handles. *)

(* an entry counts as a stream *)
MutHasActiveStream == streamEntry # None

HasActiveStream == streamEntry # None /\ count[streamEntry] > 0

SweepLists ==
    /\ sweeper.at = "idle" /\ torrent.id # None /\ barrier = None
    /\ sweeper' = [NoSweep EXCEPT !.at = "listed", !.handle = torrent.id]
    /\ UNCHANGED <<lockEntry, request, timer, torrent, handles, barrier, deletion,
                   counterVars, recent>>

(* try_lock: a hash that is in use is passed over. *)
SweepLocks(a) ==
    /\ sweeper.at = "listed"
    /\ KeyLock(a)
    /\ lockEntry' = a
    /\ sweeper' = IF LockHolders(a) = {} /\ ~HasActiveStream /\ torrent.id = sweeper.handle
                  THEN [sweeper EXCEPT !.at = "locked", !.lock = a]
                  ELSE NoSweep
    /\ UNCHANGED <<request, timer, torrent, handles, barrier, deletion, counterVars, recent>>

(* An unfinished torrent used lately goes on; any other is paused, and     *)
(* deleted if it was not used lately, unless session.pause fails.          *)
SweepPauses ==
    /\ sweeper.at = "locked"
    /\ \/ /\ recent \/ ~torrent.paused
          /\ sweeper' = NoSweep /\ UNCHANGED torrent
       \/ /\ Pause(sweeper.handle)
          /\ sweeper' = IF recent \/ HasActiveStream THEN NoSweep
                        ELSE [sweeper EXCEPT !.at = "deleting"]
    /\ UNCHANGED <<lockEntry, request, timer, handles, barrier, deletion, counterVars, recent>>

Forget == handles' = IF handles = sweeper.handle THEN None ELSE handles

SweepDeletes ==
    /\ sweeper.at = "deleting"
    /\ \/ torrent' = (IF torrent.id = sweeper.handle THEN NoTorrent ELSE torrent) /\ Forget
       \/ UNCHANGED <<torrent, handles>>
    /\ sweeper' = NoSweep
    /\ UNCHANGED <<lockEntry, request, timer, barrier, deletion, counterVars, recent>>

(* The grace period ends. *)
Tick ==
    /\ recent
    /\ recent' = FALSE
    /\ UNCHANGED <<lockEntry, request, timer, sweeper, torrent, handles, barrier, deletion,
                   counterVars>>


-----------------------------------------------------------------------------
(* A start of the program: librqbit restores what it has persisted.        *)
Init ==
    /\ lockEntry = None
    /\ request = [r \in Request |-> Idle]
    /\ timer = {}
    /\ sweeper = NoSweep
    /\ torrent \in {NoTorrent} \cup [id : Id, paused : BOOLEAN]
    /\ handles = None
    /\ barrier = None
    /\ deletion = {}
    /\ streamEntry = None
    /\ count = [a \in Address |-> 0]
    /\ generation = [a \in Address |-> 0]
    /\ idle = [a \in Address |-> 0]
    /\ recent \in BOOLEAN

Prepare(r) ==
    \/ \E kind \in {"resolve", "stream"}, a \in Address : Arrive(r, kind, a)
    \/ Lock(r)
    \/ FindHandle(r)
    \/ WaitForDeletion(r)
    \/ Notified(r)
    \/ Adopt(r)
    \/ \E a \in Address : Add(r, a)
    \/ \E id \in Id : Inserted(r, id)
    \/ Added(r)
    \/ Unpause(r)
    \/ Publish(r)

Fail(r) == Leave(r) \/ AbandonAdd(r) \/ \E a \in Address : Abandon(r, a)

Serve(r) ==
    \/ Answer(r)
    \/ \E a \in Address : Register(r, a)
    \/ Stream(r)
    \/ Release(r)
    \/ Closed(r)

IdleTimer ==
    \E t \in timer :
        \/ \E a \in Address : TimerWakes(t, a)
        \/ TimerLocks(t)
        \/ TimerChecks(t)
        \/ TimerPauses(t)

Sweep == SweepLists \/ (\E a \in Address : SweepLocks(a)) \/ SweepPauses \/ SweepDeletes

Next ==
    \/ \E r \in Request : Prepare(r) \/ Fail(r) \/ Serve(r)
    \/ \E d \in deletion : Delete(d)
    \/ IdleTimer
    \/ Sweep
    \/ PruneIdleLocks
    \/ Tick

Spec == Init /\ [][Next]_vars

(* Spawned tasks run on, the sweep comes back every 60 s, time passes, a   *)
(* response that is dropped is dropped whole, and a pause that is tried    *)
(* again and again works in the end.                                       *)
FairSpec ==
    /\ Spec
    /\ WF_vars(IdleTimer) /\ WF_vars(Sweep) /\ WF_vars(Tick)
    /\ SF_vars(SweepPauses /\ torrent'.paused)
    /\ WF_vars(\E d \in deletion : Delete(d))
    /\ \A r \in Request : WF_vars(Closed(r))

-----------------------------------------------------------------------------
TypeOK ==
    /\ {lockEntry, streamEntry, barrier} \subseteq Address \cup {None}
    /\ request \in [Request ->
            [at : Locking \cup {"idle", "queued", "streaming", "closing"},
             kind : {"none", "resolve", "stream"}, lock : Address \cup {None},
             handle : Id \cup {None}, new : BOOLEAN, barrier : Address \cup {None},
             counter : Address \cup {None}, gen : Nat]]
    /\ timer \subseteq [at : {"sleep", "queued", "locked", "pausing"}, counter : Address,
                         gen : Nat, handle : Id, lock : Address \cup {None}]
    /\ sweeper \in [at : {"idle", "listed", "locked", "deleting"},
                     handle : Id \cup {None}, lock : Address \cup {None}]
    /\ torrent \in [id : Id \cup {None}, paused : BOOLEAN]
    /\ handles \in Id \cup {None}
    /\ deletion \subseteq [barrier : Address, ids : SUBSET Id]
    /\ count \in [Address -> Nat] /\ generation \in [Address -> Nat]
    /\ idle \in [Address -> Nat]
    /\ recent \in BOOLEAN

(* One request, timer or sweep at a time works on a hash, although the     *)
(* sweep forgets idle locks: an entry in use is never replaced (key_lock,  *)
(* prune_idle_locks).                                                      *)
LockIsExclusive == Cardinality(UNION {LockHolders(a) : a \in Address}) <= 1

(* The torrent of an open stream is the one the stream was opened on, and  *)
(* it is not paused: neither a timer of an earlier stream, nor the sweep,  *)
(* nor the clean-up of a request that failed gets in its way.  The cached  *)
(* handle is that torrent too: a stale one would fail, or download on      *)
(* outside the session, for every later request.                           *)
OpenStreamPlays ==
    /\ \A r \in Request : request[r].at \in {"register", "streaming", "closing"} =>
           torrent = [id |-> request[r].handle, paused |-> FALSE]
    /\ handles # None => handles = torrent.id

(* With the requests gone, what nobody plays is paused in the end: by a    *)
(* timer, or by the sweep when no timer was left to do it.                 *)
IdleTorrentPauses ==
    <>[](\A r \in Request : request[r].at \in {"idle", "closing"})
        => <>[](torrent.id = None \/ torrent.paused)

(* "Only the release that takes the count to zero owns the newly captured  *)
(* idle generation": when no stream is left, the timer of the last one is  *)
(* for the present generation.                                             *)
LastReleaseOwnsIdle ==
    \A a \in Address :
        (count[a] = 0 /\ \A r \in Request : request[r].counter # a)
            => idle[a] = generation[a]
=============================================================================
