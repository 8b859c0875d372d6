------------------------- MODULE ResolveJobsProofs -------------------------
(***************************************************************************)
(* Theorems about ResolveJobs, for any number of threads, users, polls,    *)
(* permits and jobs: its safety invariants, from inductive ones.           *)
(***************************************************************************)
EXTENDS ResolveJobs, FiniteSetTheorems, TLAPS

-----------------------------------------------------------------------------
(* The actions on the map, seen from outside. *)

(* Whatever prune takes from the map, the sweeper's or that of create, is  *)
(* cancelled.                                                              *)
LEMMA PruneCancels ==
    ASSUME Prune
    PROVE  stored' \subseteq stored /\ cancelled' = cancelled \cup (stored \ stored')
BY DEF Prune, Remove

(* The jobs made so far are jobs.                                          *)
LEMMA MadeJobs ==
    ASSUME made \in 0..MaxJobs
    PROVE  /\ made \in Nat /\ 1..made \subseteq Job
           /\ made < MaxJobs => made + 1 \in Job
BY StoreAssumption DEF Job

(* A step of a creating thread moves that thread and no other (create).    *)
LEMMA GoesType ==
    ASSUME TypeOK, NEW c \in Creator, NEW j \in Job \cup {NoJob}, NEW at,
           at \in {"capacity", "evict", "insert", "spawn"}, Goes(c, at, j)
    PROVE  /\ creator' \in [Creator -> Place]
           /\ creator'[c].at = at /\ creator'[c].job = j
           /\ \A d \in Creator : d # c => creator'[d] = creator[d]
BY DEF Goes, TypeOK, Place

(* A report of a poll ends it and adds an end to what was told             *)
(* (snapshot_wait).                                                        *)
LEMMA ReportType ==
    ASSUME TypeOK, NEW p \in Poller, NEW s, Report(p, s)
    PROVE  poll' \in [Poller -> Poll] /\ told' \in [Job -> SUBSET Ended]
BY DEF Report, TypeOK, Poll, NoPoll

(* Only a pending job gets an end (send_if_modified in complete, fail and  *)
(* cancel).                                                                *)
LEMMA SettleType ==
    ASSUME TypeOK, NEW j \in Job, NEW s \in Ended, Settle(j, s)
    PROVE  /\ state' \in [Job -> States \cup {"none"}] /\ version' \in [Job -> Nat]
           /\ \A i \in Job : state'[i] = "none" <=> state[i] = "none"
BY DEF Settle, TypeOK, States, Ended

-----------------------------------------------------------------------------
(* Type correctness, with what it needs of the creation lock and of tasks. *)

(* A thread holds creation_lock from the prune to the insertion, and there *)
(* is a job left to make.                                                  *)
LockInv ==
    /\ \A c \in Creator : creator[c].at \in {"capacity", "evict", "insert"} => lock = c
    /\ lock # NoOne => made < MaxJobs

(* A future that has returned has an outcome. *)
ReturnInv == \A j \in Job : task[j] = "returned" => outcome[j] \in {"done", "failed"}

StoreInv == TypeOK /\ LockInv /\ ReturnInv

(* The steps of create and spawn keep types and the lock (create, spawn).  *)
LEMMA CreateKeepsStoreInv ==
    ASSUME StoreInv, NEW c \in Creator, Create(c)
    PROVE  StoreInv'
<1> USE StoreAssumption, MadeJobs DEF StoreInv, LockInv, ReturnInv
<1>1. ASSUME NEW u \in User, CreateBegin(c, u) PROVE StoreInv'
  <2>1. made < MaxJobs
    <3>1. IsFiniteSet(Making)
      BY FS_Subset DEF Making
    <3>2. Cardinality(Making) \in Nat
      BY <3>1, FS_CardinalityType
    <3> QED BY <1>1, <3>2 DEF CreateBegin, TypeOK
  <2>2. creator' \in [Creator -> Place]
    BY <1>1 DEF CreateBegin, TypeOK, Place
  <2>4. /\ lock' = c /\ stored' \subseteq stored
        /\ cancelled' = cancelled \cup (stored \ stored')
        /\ UNCHANGED <<now, jobVars, task, outcome, cancelling, pollVars>>
    BY <1>1, PruneCancels DEF CreateBegin
  <2>3. TypeOK'
    BY <2>2, <2>4 DEF TypeOK, jobVars, pollVars
  <2>5. LockInv'
    <3>1. lock = NoOne /\ creator' = [creator EXCEPT ![c] =
                             [at |-> "capacity", user |-> u, job |-> NoJob]]
      BY <1>1 DEF CreateBegin
    <3>2. \A d \in Creator : d # c => creator'[d] = creator[d]
      BY <3>1 DEF TypeOK
    <3>3. NoOne \notin Creator
      BY DEF StoreInv
    <3> QED BY <2>1, <2>4, <3>1, <3>2, <3>3 DEF jobVars
  <2>6. ReturnInv'
    BY <2>4 DEF jobVars
  <2> QED BY <2>3, <2>5, <2>6
<1>2. CASE Room(c)
  <2>1. Goes(c, "insert", NoJob) /\ NoJob \in Job \cup {NoJob}
    BY <1>2 DEF Room, NoJob
  <2>2. /\ creator' \in [Creator -> Place] /\ creator[c].at = "capacity"
        /\ \A d \in Creator : d # c => creator'[d] = creator[d]
    BY <1>2, <2>1, GoesType DEF Room
  <2>3. UNCHANGED <<now, jobVars, cancelled, stored, lock, task, outcome, cancelling, pollVars>>
    BY <1>2 DEF Room
  <2>4. TypeOK'
    BY <2>2, <2>3 DEF TypeOK, jobVars, pollVars
  <2> QED BY <2>2, <2>3, <2>4 DEF jobVars
<1>3. CASE PickVictim(c)
  <2>1. PICK j \in stored : Goes(c, "evict", j)
    BY <1>3 DEF PickVictim, Oldest
  <2>2. j \in Job
    BY DEF TypeOK
  <2>3. /\ creator' \in [Creator -> Place] /\ creator[c].at = "capacity"
        /\ \A d \in Creator : d # c => creator'[d] = creator[d]
    BY <1>3, <2>1, <2>2, GoesType DEF PickVictim
  <2>4. UNCHANGED <<now, jobVars, cancelled, stored, lock, task, outcome, cancelling, pollVars>>
    BY <1>3 DEF PickVictim
  <2>5. TypeOK'
    BY <2>3, <2>4 DEF TypeOK, jobVars, pollVars
  <2> QED BY <2>3, <2>4, <2>5 DEF jobVars
<1>4. CASE RemoveVictim(c)
  <2>1. PICK at \in {"capacity", "insert"} : Goes(c, at, NoJob)
    BY <1>4 DEF RemoveVictim
  <2>2. /\ creator' \in [Creator -> Place] /\ creator'[c].at = at
        /\ \A d \in Creator : d # c => creator'[d] = creator[d]
    BY <2>1, GoesType DEF NoJob
  <2>3. /\ creator[c].at = "evict"
        /\ stored' \subseteq stored /\ cancelled' \subseteq cancelled \cup stored
        /\ UNCHANGED <<now, jobVars, lock, task, outcome, cancelling, pollVars>>
    BY <1>4 DEF RemoveVictim, Remove
  <2>4. TypeOK'
    BY <2>2, <2>3 DEF TypeOK, jobVars, pollVars
  <2> QED BY <2>2, <2>3, <2>4 DEF jobVars
<1>5. CASE Insert(c)
  <2>1. /\ lock = c /\ made < MaxJobs /\ lock' = NoOne /\ made' = made + 1
        /\ Goes(c, "spawn", made + 1) /\ made + 1 \in Job
    BY <1>5 DEF Insert, TypeOK
  <2>2. \A j \in Job : state'[j] = "none" <=> j > made'
    BY <1>5, <2>1 DEF Insert, TypeOK, States, Job
  <2>3. made' \in 0..MaxJobs /\ 1..made \subseteq 1..made'
    BY <2>1 DEF TypeOK
  <2>4. creator[c].user \in User \cup {NoOne}
    BY DEF TypeOK, Place
  <2>5. TypeOK'
    BY <1>5, <2>1, <2>2, <2>3, <2>4, GoesType DEF Insert, TypeOK, pollVars, States
  <2>6. \A d \in Creator : creator'[d].at \notin {"capacity", "evict", "insert"}
    BY <2>1, GoesType DEF TypeOK
  <2> QED BY <1>5, <2>1, <2>5, <2>6 DEF Insert
<1>6. CASE Spawn(c)
  <2>1. /\ creator' \in [Creator -> Place] /\ creator'[c].at = "idle"
        /\ \A d \in Creator : d # c => creator'[d] = creator[d]
    BY <1>6 DEF Spawn, TypeOK, Idle, Place
  <2> QED BY <1>6, <2>1 DEF Spawn, TypeOK, jobVars, pollVars
<1> QED BY <1>1, <1>2, <1>3, <1>4, <1>5, <1>6 DEF Create

(* So do a job's task, its cancellation, polls and the sweeper (complete,  *)
(* fail, cancel, snapshot_wait, prune).                                    *)
LEMMA OthersKeepStoreInv ==
    ASSUME StoreInv,
           \/ \E j \in Job : Work(j) \/ Cancel(j)
           \/ \E p \in Poller : LongPoll(p)
           \/ Sweep \/ Tick \/ UNCHANGED vars
    PROVE  StoreInv'
<1> USE StoreAssumption, MadeJobs DEF StoreInv, LockInv, ReturnInv
<1>1. ASSUME NEW j \in Job, Work(j) PROVE StoreInv'
  <2>1. CASE Acquire(j) \/ DropFuture(j)
    <3>1. /\ task' \in [Job -> {"none", "queued", "running", "returned", "over"}]
          /\ \A i \in Job : task'[i] = "returned" => task[i] = "returned"
      BY <2>1 DEF Acquire, DropFuture, TypeOK
    <3>2. UNCHANGED <<now, jobVars, cancelled, stored, lock, creator, outcome, cancelling, pollVars>>
      BY <2>1 DEF Acquire, DropFuture
    <3>3. TypeOK'
      BY <3>1, <3>2 DEF TypeOK, jobVars, pollVars
    <3> QED BY <3>1, <3>2, <3>3 DEF jobVars
  <2>2. ASSUME NEW result \in {"done", "failed"}, Return(j, result) PROVE StoreInv'
    BY <2>2 DEF Return, TypeOK, jobVars, pollVars
  <2>3. CASE Complete(j)
    <3>1. outcome[j] \in Ended
      BY <2>3 DEF Complete, Ended
    <3> QED BY <2>3, <3>1, SettleType DEF Complete, TypeOK, pollVars
  <2> QED BY <1>1, <2>1, <2>2, <2>3 DEF Work
<1>2. ASSUME NEW j \in Job, Cancel(j) PROVE StoreInv'
  <2>1. ASSUME NEW u \in User, CancelState(u, j) PROVE StoreInv'
    BY <2>1, SettleType DEF CancelState, Ended, TypeOK, pollVars
  <2>2. CASE CancelToken(j)
    BY <2>2 DEF CancelToken, TypeOK, jobVars, pollVars
  <2> QED BY <1>2, <2>1, <2>2 DEF Cancel
<1>3. ASSUME NEW p \in Poller, LongPoll(p) PROVE StoreInv'
  <2>1. ASSUME NEW u \in User, NEW j \in Job, Ask(p, u, j) PROVE StoreInv'
    <3>1. poll' \in [Poller -> Poll]
      BY <2>1 DEF Ask, TypeOK, Poll
    <3> QED BY <2>1, <3>1 DEF Ask, Remove, TypeOK, jobVars
  <2>2. ASSUME NEW s, Report(p, s), Read(p) \/ Wake(p) \/ Timeout(p) PROVE StoreInv'
    BY <2>2, ReportType DEF Read, Wake, Timeout, TypeOK, jobVars
  <2>3. ASSUME Waits(p, poll[p].job, poll[p].seen), UNCHANGED told, Read(p) PROVE StoreInv'
    <3>1. poll' \in [Poller -> Poll]
      BY <2>3 DEF Waits, TypeOK, Poll
    <3> QED BY <2>3, <3>1 DEF Read, TypeOK, jobVars
  <2>4. CASE HangUp(p)
    <3>1. poll' \in [Poller -> Poll]
      BY <2>4 DEF HangUp, NoPoll, TypeOK, Poll
    <3> QED BY <2>4, <3>1 DEF HangUp, TypeOK, jobVars
  <2> QED BY <1>3, <2>1, <2>2, <2>3, <2>4 DEF LongPoll, Read, Wake, Timeout
<1>4. CASE Sweep
  BY <1>4, PruneCancels DEF Sweep, TypeOK, jobVars, pollVars
<1>5. CASE Tick
  BY <1>5 DEF Tick, TypeOK, jobVars, pollVars
<1>6. CASE UNCHANGED vars
  BY <1>6 DEF vars, TypeOK
<1> QED BY <1>1, <1>2, <1>3, <1>4, <1>5, <1>6

(* The store, its tasks and its polls keep their types, one thread at most *)
(* is creating a job, and a future that returned has an outcome            *)
(* (resolve_jobs.rs).                                                      *)
THEOREM StoreCorrect == Spec => []StoreInv
<1>1. Init => StoreInv
  BY StoreAssumption
     DEF Init, StoreInv, TypeOK, LockInv, ReturnInv, Idle, NoPoll, Job, States, Place, Poll
<1>2. StoreInv /\ [Next]_vars => StoreInv'
  BY CreateKeepsStoreInv, OthersKeepStoreInv DEF Next
<1> QED BY <1>1, <1>2, PTL DEF Spec

(* Jobs exist up to the last one made, and handlers, tasks and polls refer *)
(* only to those (resolve_jobs.rs).                                        *)
THEOREM TypeCorrect == Spec => []TypeOK
<1>1. StoreInv => TypeOK
  BY DEF StoreInv
<1> QED BY <1>1, StoreCorrect, PTL
-----------------------------------------------------------------------------
(* The capacity of the store. *)

(* A victim that is gone already has made room, and room stays until the   *)
(* thread that holds creation_lock uses it.                                *)
CapInv ==
    /\ CapHolds
    /\ \A c \in Creator :
         \/ creator[c].at = "insert"
         \/ creator[c].at = "evict" /\ creator[c].job \notin stored
         => Cardinality(stored) < MaxEntries

(* Removals, whoever makes them, leave no more jobs than there were, and   *)
(* fewer when they took one (prune, evict_oldest, snapshot_wait).          *)
LEMMA RemovalsMakeRoom ==
    ASSUME TypeOK, NEW S \in SUBSET stored
    PROVE  /\ IsFiniteSet(stored) /\ IsFiniteSet(S)
           /\ Cardinality(S) \in Nat /\ Cardinality(stored) \in Nat
           /\ Cardinality(S) <= Cardinality(stored)
           /\ S # stored => Cardinality(S) < Cardinality(stored)
<1>1. IsFiniteSet(1..made)
  BY FS_Interval DEF TypeOK
<1>2. IsFiniteSet(stored)
  BY <1>1, FS_Subset DEF TypeOK
<1>3. /\ IsFiniteSet(S) /\ Cardinality(S) <= Cardinality(stored)
      /\ Cardinality(S) = Cardinality(stored) => S = stored
  BY <1>2, FS_Subset
<1>4. Cardinality(S) \in Nat /\ Cardinality(stored) \in Nat
  BY <1>2, <1>3, FS_CardinalityType
<1> QED BY <1>2, <1>3, <1>4

(* Other threads can only make more room for the one that is creating.     *)
LEMMA RemovalKeepsCapInv ==
    ASSUME StoreInv, CapInv, stored' \subseteq stored, UNCHANGED creator
    PROVE  CapInv'
<1> USE StoreAssumption DEF StoreInv
<1>1. /\ Cardinality(stored') \in Nat /\ Cardinality(stored) \in Nat
      /\ Cardinality(stored') <= Cardinality(stored)
      /\ stored' # stored => Cardinality(stored') < Cardinality(stored)
  BY RemovalsMakeRoom
<1> QED BY <1>1 DEF CapInv, CapHolds

(* The thread that holds creation_lock makes room before it inserts, also  *)
(* when others removed its victim first (create).                          *)
LEMMA CreateKeepsCapInv ==
    ASSUME StoreInv, CapInv, NEW c \in Creator, Create(c)
    PROVE  CapInv'
<1> USE StoreAssumption DEF StoreInv
<1>1. Cardinality(stored) \in Nat
  BY RemovalsMakeRoom
<1>2. ASSUME NEW u \in User, CreateBegin(c, u) PROVE CapInv'
  <2>1. /\ \A d \in Creator : creator'[d].at \notin {"insert", "evict"}
        /\ stored' \subseteq stored
    BY <1>2, PruneCancels DEF CreateBegin, TypeOK, LockInv
  <2>2. Cardinality(stored') \in Nat /\ Cardinality(stored') <= Cardinality(stored)
    BY <2>1, RemovalsMakeRoom
  <2> QED BY <1>1, <2>1, <2>2 DEF CapInv, CapHolds
<1>3. CASE Room(c)
  BY <1>3, GoesType DEF Room, CapInv, CapHolds
<1>4. CASE PickVictim(c)
  <2>1. PICK j \in stored : Goes(c, "evict", j)
    BY <1>4 DEF PickVictim, Oldest
  <2>2. j \in Job
    BY MadeJobs DEF TypeOK
  <2> QED BY <1>4, <2>1, <2>2, GoesType DEF PickVictim, CapInv, CapHolds
<1>5. CASE RemoveVictim(c)
  <2> DEFINE j == creator[c].job
  <2>1. /\ Goes(c, IF j \in stored THEN "capacity" ELSE "insert", NoJob)
        /\ stored' = stored \ ({j} \cap stored) /\ creator[c].at = "evict"
    BY <1>5 DEF RemoveVictim, Remove
  <2>2. /\ creator'[c].at = IF j \in stored THEN "capacity" ELSE "insert"
        /\ \A d \in Creator : d # c => creator'[d].at \notin {"insert", "evict"}
    BY <2>1, GoesType DEF LockInv
  <2>3. Cardinality(stored') \in Nat /\ Cardinality(stored') <= Cardinality(stored)
    BY <2>1, RemovalsMakeRoom
  <2>4. CASE j \in stored
    BY <1>1, <2>2, <2>3, <2>4 DEF CapInv, CapHolds
  <2>5. CASE j \notin stored
    <3>1. stored' = stored /\ Cardinality(stored) < MaxEntries
      BY <2>1, <2>5 DEF CapInv
    <3> QED BY <1>1, <2>2, <2>5, <3>1 DEF CapInv, CapHolds
  <2> QED BY <2>4, <2>5
<1>6. CASE Insert(c)
  <2>1. /\ \A d \in Creator : creator'[d].at \notin {"insert", "evict"}
        /\ Cardinality(stored) < MaxEntries /\ stored' = stored \cup {made + 1}
    <3>1. Goes(c, "spawn", made + 1) /\ creator[c].at = "insert" /\ made + 1 \in Job
      BY <1>6, MadeJobs DEF Insert, TypeOK, LockInv
    <3> QED BY <1>6, <3>1, GoesType DEF Insert, LockInv, CapInv
  <2>2. Cardinality(stored') \in Nat /\ Cardinality(stored') <= Cardinality(stored) + 1
    <3>1. IsFiniteSet(stored)
      BY RemovalsMakeRoom
    <3>2. Cardinality(stored \cup {made + 1}) =
             IF made + 1 \in stored THEN Cardinality(stored) ELSE Cardinality(stored) + 1
      BY <3>1, FS_AddElement
    <3> QED BY <1>1, <2>1, <3>2
  <2> QED BY <1>1, <2>1, <2>2 DEF CapInv, CapHolds
<1>7. CASE Spawn(c)
  <2>1. \A d \in Creator : creator'[d].at # "idle" => creator'[d] = creator[d]
    BY <1>7 DEF Spawn, Idle, TypeOK
  <2> QED BY <1>7, <2>1 DEF Spawn, CapInv, CapHolds
<1> QED BY <1>2, <1>3, <1>4, <1>5, <1>6, <1>7 DEF Create

(* The store never exceeds RESOLVE_JOB_MAX_ENTRIES, however creations,     *)
(* sweeps, expiries and evictions interleave (creation_lock).              *)
THEOREM CapacityCorrect == Spec => []CapHolds
<1>1. Init => CapInv
  BY StoreAssumption, FS_EmptySet DEF Init, CapInv, CapHolds, Idle
<1>2. StoreInv /\ CapInv /\ [Next]_vars => CapInv'
  <2> SUFFICES ASSUME StoreInv, CapInv, [Next]_vars PROVE CapInv'
    OBVIOUS
  <2>1. ASSUME NEW c \in Creator, Create(c) PROVE CapInv'
    BY <2>1, CreateKeepsCapInv
  <2>2. ASSUME NEW j \in Job, Work(j) \/ Cancel(j) PROVE CapInv'
    <3>1. stored' = stored /\ creator' = creator
      BY <2>2 DEF Work, Cancel, Acquire, Return, DropFuture, Complete, CancelState, CancelToken
    <3> QED BY <3>1, RemovalKeepsCapInv
  <2>3. ASSUME NEW p \in Poller, LongPoll(p) PROVE CapInv'
    <3>1. stored' \subseteq stored /\ creator' = creator
      BY <2>3 DEF LongPoll, Ask, Remove, Read, Wake, Timeout, HangUp
    <3> QED BY <3>1, RemovalKeepsCapInv
  <2>4. CASE Sweep \/ Tick \/ UNCHANGED vars
    <3>1. stored' \subseteq stored /\ creator' = creator
      BY <2>4, PruneCancels DEF Sweep, Tick, vars
    <3> QED BY <3>1, RemovalKeepsCapInv
  <2> QED BY <2>1, <2>2, <2>3, <2>4 DEF Next
<1>3. CapInv => CapHolds
  BY DEF CapInv
<1> QED BY <1>1, <1>2, <1>3, StoreCorrect, PTL DEF Spec
-----------------------------------------------------------------------------
(* Work that is cancelled, and ends that are told. *)

(* Whatever a task works for is stored or cancelled, and so is what has    *)
(* been cancelled in the state alone.                                      *)
OrphanInv ==
    /\ \A j \in Job : task[j] \in {"queued", "running"} => j \in stored \cup cancelled
    /\ \A j \in Job : state[j] = "cancelled" => j \in cancelled \cup cancelling

(* Polls have heard only of the end that the job still has. *)
ToldInv == \A j \in Job : \A s \in told[j] : s = state[j]

(* A poll subscribed before it looked: a job that has ended since then has *)
(* changed the version.                                                    *)
PollInv ==
    \A p \in Poller : poll[p].at # "idle" =>
        /\ poll[p].job \in Job /\ state[poll[p].job] # "none"
        /\ poll[p].seen <= version[poll[p].job]
        /\ poll[p].at = "waiting" /\ state[poll[p].job] \in Ended
              => poll[p].seen < version[poll[p].job]

EndInv == OrphanInv /\ ToldInv /\ PollInv

(* What send_if_modified does to a job that has not ended, and that it     *)
(* does nothing to one that has.                                           *)
LEMMA SettleKeeps ==
    ASSUME TypeOK, EndInv, NEW j \in Job, NEW s \in Ended, Settle(j, s),
           UNCHANGED <<poll, told>>
    PROVE  /\ ToldInv' /\ PollInv'
           /\ \A i \in Job : state'[i] # state[i] => i = j /\ state'[i] = s
<1>1. CASE state[j] = "pending"
  <2>1. /\ \A i \in Job : state'[i] = IF i = j THEN s ELSE state[i]
        /\ \A i \in Job : version'[i] = IF i = j THEN version[i] + 1 ELSE version[i]
    BY <1>1 DEF Settle, TypeOK
  <2>2. \A i \in Job : version[i] \in Nat
    BY DEF TypeOK
  <2>3. \A p \in Poller : poll[p].seen \in Nat
    BY DEF TypeOK, Poll
  <2>4. ToldInv'
    BY <1>1, <2>1 DEF EndInv, ToldInv, TypeOK, Ended
  <2>5. PollInv'
    BY <1>1, <2>1, <2>2, <2>3 DEF EndInv, PollInv, Ended
  <2> QED BY <2>1, <2>4, <2>5
<1>2. CASE state[j] # "pending"
  BY <1>2 DEF Settle, EndInv, ToldInv, PollInv
<1> QED BY <1>1, <1>2

(* The handlers of one job keep all three (spawn, complete, fail, cancel). *)
LEMMA JobKeepsEndInv ==
    ASSUME StoreInv, EndInv, NEW j \in Job, Work(j) \/ Cancel(j)
    PROVE  EndInv'
<1> USE DEF StoreInv
<1>1. CASE Acquire(j) \/ DropFuture(j)
  BY <1>1 DEF Acquire, DropFuture, TypeOK, jobVars, pollVars, EndInv, OrphanInv, ToldInv, PollInv
<1>2. ASSUME NEW result \in {"done", "failed"}, Return(j, result) PROVE EndInv'
  BY <1>2 DEF Return, TypeOK, jobVars, pollVars, EndInv, OrphanInv, ToldInv, PollInv
<1>3. CASE Complete(j)
  <2>1. outcome[j] \in {"done", "failed"} /\ outcome[j] \in Ended
    BY <1>3 DEF Complete, ReturnInv, Ended
  <2>2. CASE j \in stored
    <3>1. /\ ToldInv' /\ PollInv'
          /\ \A i \in Job : state'[i] # state[i] => state'[i] = outcome[j]
      BY <1>3, <2>1, <2>2, SettleKeeps DEF Complete, pollVars
    <3> QED BY <1>3, <2>1, <3>1 DEF Complete, TypeOK, EndInv, OrphanInv
  <2>3. CASE j \notin stored
    BY <1>3, <2>3 DEF Complete, TypeOK, pollVars, EndInv, OrphanInv, ToldInv, PollInv
  <2> QED BY <2>2, <2>3
<1>4. ASSUME NEW u \in User, CancelState(u, j) PROVE EndInv'
  <2>1. /\ ToldInv' /\ PollInv'
        /\ \A i \in Job : state'[i] # state[i] => i = j
    BY <1>4, SettleKeeps DEF CancelState, pollVars, Ended
  <2> QED BY <1>4, <2>1 DEF CancelState, EndInv, OrphanInv
<1>5. CASE CancelToken(j)
  BY <1>5 DEF CancelToken, jobVars, pollVars, EndInv, OrphanInv, ToldInv, PollInv
<1> QED BY <1>1, <1>2, <1>3, <1>4, <1>5 DEF Work, Cancel

(* Creation and the sweeper keep them: a job that leaves the map is        *)
(* cancelled, and a new one has nobody to tell yet (create, prune).        *)
LEMMA StoreKeepsEndInv ==
    ASSUME StoreInv, EndInv, (\E c \in Creator : Create(c)) \/ Sweep
    PROVE  EndInv'
<1> USE DEF StoreInv
<1>1. ASSUME stored' \subseteq stored, cancelled' = cancelled \cup (stored \ stored'),
             UNCHANGED <<state, version, task, cancelling, poll, told>>
      PROVE  EndInv'
  BY <1>1 DEF EndInv, OrphanInv, ToldInv, PollInv
<1>2. CASE Sweep
  BY <1>1, <1>2, PruneCancels DEF Sweep, jobVars, pollVars
<1>3. ASSUME NEW c \in Creator, NEW u \in User, CreateBegin(c, u) PROVE EndInv'
  BY <1>1, <1>3, PruneCancels DEF CreateBegin, jobVars, pollVars
<1>4. ASSUME NEW c \in Creator, Room(c) \/ PickVictim(c) \/ RemoveVictim(c) PROVE EndInv'
  BY <1>1, <1>4 DEF Room, PickVictim, RemoveVictim, Remove, jobVars, pollVars
<1>5. ASSUME NEW c \in Creator, Insert(c) PROVE EndInv'
  <2>1. made + 1 \in Job /\ made \in Nat
    BY <1>5, MadeJobs, StoreAssumption DEF Insert, TypeOK, LockInv
  <2>2. state[made + 1] = "none" /\ told[made + 1] = {}
    <3>1. state[made + 1] = "none" /\ told[made + 1] \subseteq Ended
      BY <2>1 DEF TypeOK
    <3>2. \A s \in told[made + 1] : s = "none"
      BY <2>1, <3>1 DEF EndInv, ToldInv
    <3> QED BY <3>1, <3>2 DEF Ended
  <2>3. \A j \in Job : state'[j] = IF j = made + 1 THEN "pending" ELSE state[j]
    BY <1>5 DEF Insert, TypeOK
  <2> QED BY <1>5, <2>1, <2>2, <2>3
          DEF Insert, pollVars, EndInv, OrphanInv, ToldInv, PollInv, Ended
<1>6. ASSUME NEW c \in Creator, Spawn(c) PROVE EndInv'
  BY <1>6 DEF Spawn, TypeOK, jobVars, pollVars, EndInv, OrphanInv, ToldInv, PollInv
<1> QED BY <1>2, <1>3, <1>4, <1>5, <1>6 DEF Create

(* So do polls: they subscribe before they read, and tell what they read   *)
(* (snapshot_wait).                                                        *)
LEMMA PollKeepsEndInv ==
    ASSUME StoreInv, EndInv, NEW p \in Poller, LongPoll(p)
    PROVE  EndInv'
<1> USE DEF StoreInv
<1>1. ASSUME poll[p].at # "idle", Report(p, state[poll[p].job]),
             UNCHANGED <<state, version, stored, task, cancelled, cancelling>>
      PROVE  EndInv'
  <2>1. /\ poll'[p].at = "idle" /\ \A q \in Poller : q # p => poll'[q] = poll[q]
        /\ \A j \in Job : told'[j] \subseteq told[j] \cup {state[j]}
    BY <1>1 DEF Report, NoPoll, TypeOK
  <2> QED BY <1>1, <2>1 DEF EndInv, OrphanInv, ToldInv, PollInv
<1>2. ASSUME NEW u \in User, NEW j \in Job, Ask(p, u, j) PROVE EndInv'
  <2>1. state[j] # "none" /\ version[j] \in Nat
    BY <1>2 DEF Ask, TypeOK
  <2>2. CASE now - created[j] > Ttl
    BY <1>2, <2>2 DEF Ask, Remove, jobVars, EndInv, OrphanInv, ToldInv, PollInv
  <2>3. CASE ~(now - created[j] > Ttl)
    <3>1. \A q \in Poller :
            poll'[q] = IF q = p THEN [at |-> "subscribed", job |-> j, seen |-> version[j]]
                       ELSE poll[q]
      BY <1>2, <2>3 DEF Ask, TypeOK
    <3> QED BY <1>2, <2>1, <2>3, <3>1 DEF Ask, jobVars, EndInv, OrphanInv, ToldInv, PollInv
  <2> QED BY <2>2, <2>3
<1>3. CASE Read(p) \/ Wake(p) \/ Timeout(p)
  <2>1. CASE Report(p, state[poll[p].job])
    BY <1>1, <1>3, <2>1 DEF Read, Wake, Timeout, jobVars
  <2>2. ASSUME state[poll[p].job] = "pending", Waits(p, poll[p].job, poll[p].seen),
               poll[p].at = "subscribed", UNCHANGED told
        PROVE  EndInv'
    <3>1. \A q \in Poller :
            poll'[q] = IF q = p
                       THEN [at |-> "waiting", job |-> poll[p].job, seen |-> poll[p].seen]
                       ELSE poll[q]
      BY <2>2 DEF Waits, TypeOK
    <3>2. UNCHANGED <<state, version, stored, task, cancelled, cancelling>>
      BY <1>3 DEF Read, Wake, Timeout, jobVars
    <3> QED BY <2>2, <3>1, <3>2 DEF EndInv, OrphanInv, ToldInv, PollInv, Ended
  <2> QED BY <1>3, <2>1, <2>2 DEF Read, Wake, Timeout
<1>4. CASE HangUp(p)
  <2>1. poll'[p].at = "idle" /\ \A q \in Poller : q # p => poll'[q] = poll[q]
    BY <1>4 DEF HangUp, NoPoll, TypeOK
  <2> QED BY <1>4, <2>1 DEF HangUp, jobVars, EndInv, OrphanInv, ToldInv, PollInv
<1> QED BY <1>2, <1>3, <1>4 DEF LongPoll

(* In every behaviour what nobody can ask about is cancelled, an end is    *)
(* final, and a poll that waits would notice one (resolve_jobs.rs).        *)
THEOREM EndsCorrect == Spec => []EndInv
<1>1. Init => EndInv
  BY DEF Init, EndInv, OrphanInv, ToldInv, PollInv, NoPoll
<1>2. StoreInv /\ EndInv /\ [Next]_vars => EndInv'
  <2> SUFFICES ASSUME StoreInv, EndInv, [Next]_vars PROVE EndInv'
    OBVIOUS
  <2>1. CASE Tick \/ UNCHANGED vars
    BY <2>1 DEF Tick, vars, jobVars, pollVars, EndInv, OrphanInv, ToldInv, PollInv
  <2> QED BY <2>1, JobKeepsEndInv, StoreKeepsEndInv, PollKeepsEndInv DEF Next
<1> QED BY <1>1, <1>2, StoreCorrect, PTL DEF Spec

(* A job that was expired, evicted or cancelled does not keep a permit of  *)
(* the resolver: its task has been told to stop (spawn, evict_oldest).     *)
THEOREM NoOrphans == Spec => []NoOrphanWork
<1>1. EndInv => NoOrphanWork
  BY DEF EndInv, OrphanInv, NoOrphanWork
<1> QED BY <1>1, EndsCorrect, PTL

(* All polls of a job, whenever they ask, hear of the same end (complete,  *)
(* fail, cancel).                                                          *)
THEOREM OutcomesAgree == Spec => []OneOutcome
<1>1. EndInv => OneOutcome
  BY DEF EndInv, ToldInv, OneOutcome
<1> QED BY <1>1, EndsCorrect, PTL

(* A completion between reading Pending and waiting is never missed        *)
(* (snapshot_wait).                                                        *)
THEOREM WakeupsCorrect == Spec => []NoLostWakeup
<1>1. StoreInv /\ EndInv => NoLostWakeup
  <2> SUFFICES ASSUME StoreInv, EndInv, NEW p \in Poller, poll[p].at = "waiting",
                      state[poll[p].job] \in Ended
               PROVE  Changed(p)
    BY DEF NoLostWakeup
  <2>1. poll[p].seen < version[poll[p].job] /\ poll[p].seen \in Nat
    BY DEF EndInv, PollInv, StoreInv, TypeOK, Poll
  <2>2. version[poll[p].job] \in Nat
    BY DEF EndInv, PollInv, StoreInv, TypeOK
  <2> QED BY <2>1, <2>2 DEF Changed
<1> QED BY <1>1, StoreCorrect, EndsCorrect, PTL
=============================================================================
