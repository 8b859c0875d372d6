---------------------------- MODULE ResolveJobs ----------------------------
(***************************************************************************)
(* The store of background resolve jobs (resolve_jobs.rs): handlers that   *)
(* create and spawn jobs, their tasks that wait for and hold one of the    *)
(* resolver's permits, long polls, cancellation, expiry and eviction.      *)
(*                                                                         *)
(* Handlers and tasks run on several threads.  An operation on one key of  *)
(* the map is one step, and so is one change of a job's watch channel; a   *)
(* handler that does several of these is several steps.  A job that left   *)
(* the map still exists for the handlers and the task that hold it.        *)
(***************************************************************************)
EXTENDS Integers, FiniteSets

CONSTANTS
    User,
    Creator,        \* threads in a resolve handler
    Poller,         \* long polls that can be open at once
    MaxEntries,     \* RESOLVE_JOB_MAX_ENTRIES
    Permits,        \* resolver_max_concurrent
    Ttl,            \* RESOLVE_JOB_TTL_MS
    NoOne,          \* no thread, no user
    MaxJobs,        \* bound: jobs created
    MaxTime         \* bound: the last instant explored

Job == 1..MaxJobs
NoJob == 0

ASSUME StoreAssumption ==
    /\ MaxEntries \in Nat \ {0} /\ Permits \in Nat \ {0} /\ Ttl \in Nat
    /\ NoOne \notin Creator \cup User /\ IsFiniteSet(Creator)
    /\ MaxJobs \in Nat \ {0} /\ MaxTime \in Nat \ {0}

VARIABLES
    now,
    made,       \* the number of jobs created
    owner,      \* [Job -> user_id]
    created,    \* [Job -> created_at_ms]
    state,      \* [Job -> ResolveJobState], "none" before the job is created
    version,    \* [Job -> version of the watch channel]
    cancelled,  \* jobs whose cancellation token is cancelled
    stored,     \* the keys of the map
    lock,       \* the thread that holds creation_lock
    creator,    \* [Creator -> where the thread is in create and spawn]
    task,       \* [Job -> where its task is]
    outcome,    \* [Job -> what its future returned]
    cancelling, \* jobs between the two steps of cancel
    poll,       \* [Poller -> where a long poll is]
    told        \* history: [Job -> the ends of the job that polls have reported]

vars == <<now, made, owner, created, state, version, cancelled, stored, lock,
          creator, task, outcome, cancelling, poll, told>>
jobVars == <<made, owner, created, state, version>>
pollVars == <<poll, told>>

Ended == {"done", "failed", "cancelled"}

Idle == [at |-> "idle", user |-> NoOne, job |-> NoJob]
NoPoll == [at |-> "idle", job |-> NoJob, seen |-> 0]

HoldsPermit == {j \in Job : task[j] = "running"}

-----------------------------------------------------------------------------
(* The map. *)

Fresh(S) == {j \in S : now - created[j] <= Ttl}
Oldest(S) == {j \in S : \A i \in S : created[j] <= created[i]}

(* What prune leaves: the jobs not expired, the newest MaxEntries of them. *)
Pruned(kept) ==
    /\ kept \subseteq Fresh(stored)
    /\ Cardinality(kept) =
         IF Cardinality(Fresh(stored)) <= MaxEntries THEN Cardinality(Fresh(stored))
         ELSE MaxEntries
    /\ \A j \in kept, i \in Fresh(stored) \ kept : created[i] <= created[j]

(* the removal forgets the token *)
MutRemove(S) == stored' = stored \ S /\ UNCHANGED cancelled

(* Jobs leave the map with their cancellation. *)
Remove(S) ==
    /\ stored' = stored \ S
    /\ cancelled' = cancelled \cup S

Prune == \E kept \in SUBSET stored : Pruned(kept) /\ Remove(stored \ kept)

(* The 60 s sweeper; it takes no lock. *)
Sweep ==
    /\ Prune
    /\ UNCHANGED <<now, jobVars, lock, creator, task, outcome, cancelling, pollVars>>

-----------------------------------------------------------------------------
(* create, then spawn. *)

Making == {c \in Creator : creator[c].at # "idle"}

(* no lock *)
MutCreateBegin(c, u) ==
    /\ creator[c].at = "idle"
    /\ made + Cardinality(Making) < MaxJobs
    /\ creator' = [creator EXCEPT ![c] = [at |-> "capacity", user |-> u, job |-> NoJob]]
    /\ Prune
    /\ UNCHANGED <<now, jobVars, lock, task, outcome, cancelling, pollVars>>

CreateBegin(c, u) ==
    /\ creator[c].at = "idle"
    /\ made + Cardinality(Making) < MaxJobs
    /\ lock = NoOne
    /\ lock' = c
    /\ creator' = [creator EXCEPT ![c] = [at |-> "capacity", user |-> u, job |-> NoJob]]
    /\ Prune
    /\ UNCHANGED <<now, jobVars, task, outcome, cancelling, pollVars>>

Goes(c, at, j) ==
    creator' = [creator EXCEPT ![c] = [at |-> at, user |-> creator[c].user, job |-> j]]

(* There is room: what follows no longer looks.                            *)
Room(c) ==
    /\ creator[c].at = "capacity"
    /\ Cardinality(stored) < MaxEntries
    /\ Goes(c, "insert", NoJob)
    /\ UNCHANGED <<now, jobVars, cancelled, stored, lock, task, outcome, cancelling, pollVars>>

(* evict_oldest looks for the oldest job, then removes it: another thread  *)
(* may have been faster, and create gives up evicting.                     *)
PickVictim(c) ==
    /\ creator[c].at = "capacity"
    /\ Cardinality(stored) >= MaxEntries
    /\ \E j \in Oldest(stored) : Goes(c, "evict", j)
    /\ UNCHANGED <<now, jobVars, cancelled, stored, lock, task, outcome, cancelling, pollVars>>

RemoveVictim(c) ==
    LET j == creator[c].job IN
    /\ creator[c].at = "evict"
    /\ Remove({j} \cap stored)
    /\ Goes(c, IF j \in stored THEN "capacity" ELSE "insert", NoJob)
    /\ UNCHANGED <<now, jobVars, lock, task, outcome, cancelling, pollVars>>

(* the channel of the new job has no state yet *)
MutInsert(c) ==
    /\ creator[c].at = "insert"
    /\ made' = made + 1
    /\ owner' = [owner EXCEPT ![made'] = creator[c].user]
    /\ created' = [created EXCEPT ![made'] = now]
    /\ stored' = stored \cup {made'}
    /\ lock' = NoOne
    /\ Goes(c, "spawn", made')
    /\ UNCHANGED <<now, state, version, cancelled, task, outcome, cancelling, pollVars>>

Insert(c) ==
    LET j == made + 1 IN
    /\ creator[c].at = "insert"
    /\ made' = j
    /\ owner' = [owner EXCEPT ![j] = creator[c].user]
    /\ created' = [created EXCEPT ![j] = now]
    /\ state' = [state EXCEPT ![j] = "pending"]
    /\ stored' = stored \cup {j}
    /\ lock' = NoOne
    /\ Goes(c, "spawn", j)
    /\ UNCHANGED <<now, version, cancelled, task, outcome, cancelling, pollVars>>

(* A job evicted between create and spawn gets no task. *)
Spawn(c) ==
    LET j == creator[c].job IN
    /\ creator[c].at = "spawn"
    /\ creator' = [creator EXCEPT ![c] = Idle]
    /\ task' = [task EXCEPT ![j] = IF j \in stored THEN "queued" ELSE @]
    /\ UNCHANGED <<now, jobVars, cancelled, stored, lock, outcome, cancelling, pollVars>>

-----------------------------------------------------------------------------
(* The task of a job: select! of its cancellation, first, and its future.  *)

(* acquire_external_resolve_permit *)
Acquire(j) ==
    /\ task[j] = "queued" /\ j \notin cancelled
    /\ Cardinality(HoldsPermit) < Permits
    /\ task' = [task EXCEPT ![j] = "running"]
    /\ UNCHANGED <<now, jobVars, cancelled, stored, lock, creator, outcome, cancelling, pollVars>>

(* The future returns: without a permit from the cache or when waiting for *)
(* one takes too long, with it from the resolver.                          *)
Return(j, result) ==
    /\ task[j] \in {"queued", "running"} /\ j \notin cancelled
    /\ task' = [task EXCEPT ![j] = "returned"]
    /\ outcome' = [outcome EXCEPT ![j] = result]
    /\ UNCHANGED <<now, jobVars, cancelled, stored, lock, creator, cancelling, pollVars>>

(* the future runs on *)
MutDropFuture(j) == FALSE /\ UNCHANGED vars

(* The future is dropped, and its permit with it. *)
DropFuture(j) ==
    /\ task[j] \in {"queued", "running"} /\ j \in cancelled
    /\ task' = [task EXCEPT ![j] = "over"]
    /\ UNCHANGED <<now, jobVars, cancelled, stored, lock, creator, outcome, cancelling, pollVars>>

(* send_if_modified: only a pending job changes. *)
Settle(j, s) ==
    IF state[j] = "pending"
    THEN /\ state' = [state EXCEPT ![j] = s]
         /\ version' = [version EXCEPT ![j] = @ + 1]
    ELSE UNCHANGED <<state, version>>

(* without the check *)
MutComplete(j) ==
    /\ task[j] = "returned"
    /\ task' = [task EXCEPT ![j] = "over"]
    /\ state' = [state EXCEPT ![j] = outcome[j]]
    /\ version' = [version EXCEPT ![j] = @ + 1]
    /\ UNCHANGED <<now, made, owner, created, cancelled, stored, lock, creator, outcome,
                   cancelling, pollVars>>

(* complete and fail look the job up again. *)
Complete(j) ==
    /\ task[j] = "returned"
    /\ task' = [task EXCEPT ![j] = "over"]
    /\ IF j \in stored THEN Settle(j, outcome[j]) ELSE UNCHANGED <<state, version>>
    /\ UNCHANGED <<now, made, owner, created, cancelled, stored, lock, creator, outcome,
                   cancelling, pollVars>>

(* DELETE /api/resolve/job: the state first, then the token. *)
CancelState(u, j) ==
    /\ j \in stored /\ owner[j] = u
    /\ Settle(j, "cancelled")
    /\ cancelling' = cancelling \cup {j}
    /\ UNCHANGED <<now, made, owner, created, cancelled, stored, lock, creator, task,
                   outcome, pollVars>>

CancelToken(j) ==
    /\ j \in cancelling
    /\ cancelling' = cancelling \ {j}
    /\ cancelled' = cancelled \cup {j}
    /\ UNCHANGED <<now, jobVars, stored, lock, creator, task, outcome, pollVars>>

-----------------------------------------------------------------------------
(* snapshot_wait. *)

Report(p, s) ==
    /\ poll' = [poll EXCEPT ![p] = NoPoll]
    /\ told' = [told EXCEPT ![poll[p].job] = @ \cup ({s} \cap Ended)]

(* A job that is unknown, somebody else's or expired is not found. *)
Ask(p, u, j) ==
    /\ poll[p].at = "idle" /\ j \in stored /\ owner[j] = u
    /\ IF now - created[j] > Ttl
       THEN Remove({j}) /\ UNCHANGED poll
       ELSE /\ poll' = [poll EXCEPT ![p] =
                           [at |-> "subscribed", job |-> j, seen |-> version[j]]]
            /\ UNCHANGED <<cancelled, stored>>
    /\ UNCHANGED <<now, jobVars, lock, creator, task, outcome, cancelling, told>>

Waits(p, j, seen) ==
    poll' = [poll EXCEPT ![p] = [at |-> "waiting", job |-> j, seen |-> seen]]

(* subscribes only when it decides to wait *)
MutRead(p) ==
    LET j == poll[p].job IN
    /\ poll[p].at = "subscribed"
    /\ Waits(p, j, version[j])
    /\ UNCHANGED <<now, jobVars, cancelled, stored, lock, creator, task, outcome,
                   cancelling, told>>

(* What is not pending is returned at once, and so is a poll without wait. *)
Read(p) ==
    LET j == poll[p].job IN
    /\ poll[p].at = "subscribed"
    /\ \/ Report(p, state[j])
       \/ state[j] = "pending" /\ Waits(p, j, poll[p].seen) /\ UNCHANGED told
    /\ UNCHANGED <<now, jobVars, cancelled, stored, lock, creator, task, outcome, cancelling>>

(* changed() returns, or the timeout does: the state is read again. *)
Changed(p) == version[poll[p].job] # poll[p].seen
Wake(p) ==
    /\ poll[p].at = "waiting" /\ Changed(p)
    /\ Report(p, state[poll[p].job])
    /\ UNCHANGED <<now, jobVars, cancelled, stored, lock, creator, task, outcome, cancelling>>

Timeout(p) ==
    /\ poll[p].at = "waiting"
    /\ Report(p, state[poll[p].job])
    /\ UNCHANGED <<now, jobVars, cancelled, stored, lock, creator, task, outcome, cancelling>>

(* The client is gone; the handler is dropped. *)
HangUp(p) ==
    /\ poll[p].at = "waiting"
    /\ poll' = [poll EXCEPT ![p] = NoPoll]
    /\ UNCHANGED <<now, jobVars, cancelled, stored, lock, creator, task, outcome,
                   cancelling, told>>

Tick ==
    /\ now < MaxTime
    /\ now' = now + 1
    /\ UNCHANGED <<jobVars, cancelled, stored, lock, creator, task, outcome, cancelling, pollVars>>

-----------------------------------------------------------------------------
Init ==
    /\ now = 1
    /\ made = 0
    /\ owner = [j \in Job |-> NoOne]
    /\ created = [j \in Job |-> 0]
    /\ state = [j \in Job |-> "none"]
    /\ version = [j \in Job |-> 0]
    /\ cancelled = {}
    /\ stored = {}
    /\ lock = NoOne
    /\ creator = [c \in Creator |-> Idle]
    /\ task = [j \in Job |-> "none"]
    /\ outcome = [j \in Job |-> "none"]
    /\ cancelling = {}
    /\ poll = [p \in Poller |-> NoPoll]
    /\ told = [j \in Job |-> {}]

Create(c) ==
    \/ \E u \in User : CreateBegin(c, u)
    \/ Room(c)
    \/ PickVictim(c)
    \/ RemoveVictim(c)
    \/ Insert(c)
    \/ Spawn(c)

Work(j) ==
    \/ Acquire(j)
    \/ \E result \in {"done", "failed"} : Return(j, result)
    \/ DropFuture(j)
    \/ Complete(j)

Cancel(j) == (\E u \in User : CancelState(u, j)) \/ CancelToken(j)

LongPoll(p) ==
    \/ \E u \in User, j \in Job : Ask(p, u, j)
    \/ Read(p)
    \/ Wake(p)
    \/ Timeout(p)
    \/ HangUp(p)

Next ==
    \/ \E c \in Creator : Create(c)
    \/ \E j \in Job : Work(j) \/ Cancel(j)
    \/ \E p \in Poller : LongPoll(p)
    \/ Sweep
    \/ Tick

Spec == Init /\ [][Next]_vars

(* A task whose cancellation is set is woken and dropped, and a handler    *)
(* that runs without awaiting gets on; a resolver's future may never       *)
(* return, and nobody need ask.                                            *)
FairSpec ==
    /\ Spec
    /\ \A j \in Job : WF_vars(DropFuture(j)) /\ WF_vars(CancelToken(j))

-----------------------------------------------------------------------------
States == {"pending", "done", "failed", "cancelled"}
Place == [at : {"idle", "capacity", "evict", "insert", "spawn"},
          user : User \cup {NoOne}, job : Job \cup {NoJob}]
Poll == [at : {"idle", "subscribed", "waiting"}, job : Job \cup {NoJob}, seen : Nat]

(* Jobs exist up to the last one made, and only those are in use. *)
TypeOK ==
    /\ now \in Nat /\ made \in 0..MaxJobs
    /\ owner \in [Job -> User \cup {NoOne}]
    /\ created \in [Job -> Nat]
    /\ state \in [Job -> States \cup {"none"}]
    /\ \A j \in Job : state[j] = "none" <=> j > made
    /\ version \in [Job -> Nat]
    /\ stored \subseteq 1..made
    /\ cancelled \subseteq 1..made /\ cancelling \subseteq 1..made
    /\ lock \in Creator \cup {NoOne}
    /\ creator \in [Creator -> Place]
    /\ task \in [Job -> {"none", "queued", "running", "returned", "over"}]
    /\ outcome \in [Job -> {"none", "done", "failed"}]
    /\ poll \in [Poller -> Poll]
    /\ told \in [Job -> SUBSET Ended]

(* The store never holds more than RESOLVE_JOB_MAX_ENTRIES jobs, although  *)
(* creation makes room in several steps and the sweeper, polls and other   *)
(* creations remove and add jobs meanwhile (creation_lock).                *)
CapHolds == Cardinality(stored) <= MaxEntries

(* Work that nobody can ask about any more is cancelled: a job expired,    *)
(* evicted or cancelled does not keep a permit of the resolver             *)
(* (capacity eviction cancels owned work; spawn, evict_oldest, prune).     *)
NoOrphanWork ==
    \A j \in Job : task[j] \in {"queued", "running"} =>
        /\ j \in stored \cup cancelled
        /\ state[j] = "cancelled" => j \in cancelled \cup cancelling

(* And it does end: "Cancelling the job drops the future immediately"      *)
(* (spawn), whatever the resolver's upstreams do.                          *)
CancelledWorkEnds ==
    \A j \in Job :
        (task[j] \in {"queued", "running"} /\ (j \notin stored \/ state[j] = "cancelled"))
            ~> (task[j] \notin {"queued", "running"})

(* Whoever asks, and whenever, hears of one end of a job: a late           *)
(* completion never overwrites a cancellation, nor the other way round.    *)
OneOutcome == \A j \in Job : \A s, t \in told[j] : s = t

(* "A completion can never be missed" between reading Pending and waiting  *)
(* (snapshot_wait): a long poll that waits on a job that has ended has     *)
(* been woken.                                                             *)
NoLostWakeup ==
    \A p \in Poller :
        (poll[p].at = "waiting" /\ state[poll[p].job] \in Ended) => Changed(p)
=============================================================================
