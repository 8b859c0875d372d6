------------------------------ MODULE HlsJobs ------------------------------
(***************************************************************************)
(* HLS transcodes (streaming.rs): one ffmpeg per title under a lock per    *)
(* key and a permit, segment requests that wait for it, fall back to       *)
(* software or render their segment on demand, the 60 s pruner that kills  *)
(* what nobody watches, and requests that are dropped at any await.        *)
(*                                                                         *)
(* hls_jobs is a DashMap: get returns a guard that keeps its shard locked  *)
(* for reading until it is dropped, insert and remove lock the shard for   *)
(* writing and block the thread.  All keys share one shard here.  Each key *)
(* has one segment.                                                        *)
(***************************************************************************)
EXTENDS Naturals, FiniteSets

CONSTANTS
    Key,        \* job keys: source and audio stream
    Request,    \* handlers of segment requests
    Preferred,  \* encode modes ffmpeg's capabilities may suggest
    MaxPermits, \* hls_max_transcode_jobs
    MaxRenders, \* hls_max_segment_renders
    NoOne,      \* no process
    MaxJobs     \* bound: jobs in use at once

Mode == {"hardware", "none"}

ASSUME HlsAssumption ==
    /\ Preferred \subseteq Mode /\ Preferred # {}
    /\ MaxPermits \in Nat \ {0} /\ MaxRenders \in Nat \ {0} /\ MaxJobs \in Nat \ {0}
    /\ {NoOne, "watcher", "pruner"} \cap Request = {} /\ NoOne \notin {"watcher", "pruner"}

VARIABLES
    key, mode,  \* [Job -> ...] what a job transcodes, and how
    status,     \* [Job -> the child and what is known of its end]
    holder,     \* [Job -> who holds the child's lock across an await]
    permits,    \* the jobs whose permit was not taken from them
    listed,     \* hls_jobs
    old,        \* jobs not asked for in HLS_TRANSCODE_IDLE_MS
    stale,      \* jobs finished for HLS_SEGMENT_STALE_MS
    request,
    pruner,
    files,      \* segments in the cache directory
    markers     \* completion markers

jobVars == <<key, mode, status, holder, permits, listed, old, stale>>
fileVars == <<files, markers>>
vars == <<jobVars, request, pruner, fileVars>>

Job == 1..MaxJobs
NoJob == 0
Running == {"running", "ended", "crashed"}  \* ended and crashed: not yet noticed
Alive(j) == status[j] \in {"running", "dying"}
Exited(j) == status[j] \in {"done", "failed"}

Path == Mode \cup {"demand"}
Output(j) == <<key[j], mode[j]>>

Idle(r) == request[r].at = "idle"
Place(at, k, j, software, path) ==
    [at |-> at, key |-> k, job |-> j, software |-> software, path |-> path]
Gone == Place("idle", "none", NoJob, FALSE, "demand")

Goes(r, at, j) == request' = [request EXCEPT ![r] =
    Place(at, request[r].key, j, request[r].software, request[r].path)]
Ends(r) == request' = [request EXCEPT ![r] = Gone]
Renders(r, path) == request' = [request EXCEPT ![r] =
    Place("render", request[r].key, request[r].job, request[r].software, path)]

Listed(j) == \E k \in Key : listed[k] = j

(* Who may run: the map, a request, the pruner, the watcher of a live job. *)
Referenced(j) ==
    \/ Listed(j)
    \/ \E r \in Request : request[r].job = j
    \/ pruner.job = j
    \/ status[j] \in Running \cup {"dying"}
    \/ holder[j] # NoOne

(* A job that nobody refers to is dropped, and its permit with it. *)
InUse == {j \in permits : Referenced(j)}

(* The key lock is held from LockKey to the end of ensure. *)
Locked == {"start", "look", "insert", "stuck"}

(* Guards of hls_jobs.get that are alive. *)
Readers == {r \in Request : request[r].at \in {"look", "stuck"}}

-----------------------------------------------------------------------------
(* refresh_hls_job_state, by the watcher, the pruner or a request.         *)

Refreshing(j, p) ==
    \/ p = "watcher" /\ ~Exited(j)
    \/ p = "pruner" /\ pruner.at = "refresh" /\ pruner.job = j
    \/ p \in Request /\ request[p].at \in {"look", "wait"} /\ request[p].job = j

(* After a success the marker is written with the child's lock held: an    *)
(* await between the end that is recorded and the permit that goes.        *)
Refresh(j, p) ==
    /\ Refreshing(j, p)
    /\ holder[j] = NoOne
    /\ \/ /\ status[j] = "ended"
          /\ status' = [status EXCEPT ![j] = "done"]
          /\ markers' = markers \cup {Output(j)}
          /\ holder' = [holder EXCEPT ![j] = p]
          /\ UNCHANGED permits
       \/ /\ status[j] = "crashed"
          /\ status' = [status EXCEPT ![j] = "failed"]
          /\ permits' = permits \ {j}
          /\ UNCHANGED <<markers, holder>>
    /\ UNCHANGED <<key, mode, listed, old, stale, request, pruner, files>>

Release(j) ==
    /\ holder[j] # NoOne /\ status[j] = "done"
    /\ permits' = permits \ {j}
    /\ holder' = [holder EXCEPT ![j] = NoOne]
    /\ UNCHANGED <<key, mode, status, listed, old, stale, request, pruner, fileVars>>

(* The call returns: there is no end to notice. *)
Refreshed(j) == holder[j] = NoOne /\ status[j] \notin {"ended", "crashed"}

-----------------------------------------------------------------------------
(* A segment request: get_or_create_hls_segment.                           *)

Ask(r, k) ==
    /\ Idle(r)
    /\ <<k, "demand">> \notin files
    /\ request' = [request EXCEPT ![r] = Place("lock", k, NoJob, FALSE, "demand")]
    /\ UNCHANGED <<jobVars, pruner, fileVars>>

(* does not wait for the holder of the lock *)
MutLockKey(r) ==
    LET j == listed[request[r].key] IN
    /\ request[r].at = "lock"
    /\ Goes(r, IF j = NoJob THEN "start" ELSE "look", j)
    /\ UNCHANGED <<jobVars, pruner, fileVars>>

(* ensure_hls_transcode_job: the lock, then hls_jobs.get. *)
LockKey(r) ==
    LET j == listed[request[r].key] IN
    /\ request[r].at = "lock"
    /\ \A s \in Request : request[s].key = request[r].key => request[s].at \notin Locked
    /\ Goes(r, IF j = NoJob THEN "start" ELSE "look", j)
    /\ UNCHANGED <<jobVars, pruner, fileVars>>

(* A job that failed is removed while the guard of get is alive: remove    *)
(* waits for its own thread.                                               *)
Look(r) ==
    LET j == request[r].job IN
    /\ request[r].at = "look" /\ Refreshed(j)
    /\ old' = old \ {j}
    /\ Goes(r, IF status[j] = "failed" THEN "stuck" ELSE "wait", j)
    /\ UNCHANGED <<key, mode, status, holder, permits, listed, stale, pruner, fileVars>>

(* A job nobody refers to is forgotten: the first such number is free. *)
Free == {j \in Job : ~Referenced(j) /\ \A i \in 1..(j - 1) : Referenced(i)}

Make(r, j, m, s) ==
    /\ key' = [key EXCEPT ![j] = request[r].key]
    /\ mode' = [mode EXCEPT ![j] = m]
    /\ status' = [status EXCEPT ![j] = s]
    /\ old' = old \ {j} /\ stale' = stale \ {j}
    /\ Goes(r, "insert", j)

(* start_hls_transcode_job, with the mode of the fallback or the preferred *)
(* one.  What an earlier ffmpeg left is removed before a permit is tried.  *)
Modes(r) == IF request[r].software THEN {"none"} ELSE Preferred

Reopen(r) ==
    /\ request[r].at = "start"
    /\ \E m \in Modes(r), j \in Free :
         /\ <<request[r].key, m>> \in markers
         /\ Make(r, j, m, "done")
         /\ permits' = permits \ {j}
    /\ UNCHANGED <<holder, listed, pruner, fileVars>>

Spawn(r) ==
    /\ request[r].at = "start"
    /\ Cardinality(InUse) < MaxPermits
    /\ \E m \in Modes(r), j \in Free :
         /\ <<request[r].key, m>> \notin markers
         /\ files' = files \ {<<request[r].key, m>>}
         /\ Make(r, j, m, "running")
         /\ permits' = permits \cup {j}
    /\ UNCHANGED <<holder, listed, pruner, markers>>

(* No permit is free, or ffmpeg does not start. *)
NoSpawn(r) ==
    /\ request[r].at = "start"
    /\ \E m \in Modes(r) :
         /\ <<request[r].key, m>> \notin markers
         /\ files' = files \ {<<request[r].key, m>>}
    /\ Goes(r, "refused", NoJob)
    /\ UNCHANGED <<jobVars, pruner, markers>>

Insert(r) ==
    /\ request[r].at = "insert"
    /\ Readers = {}
    /\ listed' = [listed EXCEPT ![request[r].key] = request[r].job]
    /\ Goes(r, "wait", request[r].job)
    /\ UNCHANGED <<key, mode, status, holder, permits, old, stale, pruner, fileVars>>

(* Only the first attempt is followed by a look at the permits. *)
Refused(r) ==
    /\ request[r].at = "refused"
    /\ IF ~request[r].software /\ Cardinality(InUse) >= MaxPermits
       THEN Renders(r, "demand") ELSE Ends(r)
    /\ UNCHANGED <<jobVars, pruner, fileVars>>

Software(r) == request' = [request EXCEPT ![r] =
    Place("lock", request[r].key, request[r].job, TRUE, "demand")]

(* wait_for_hls_segment_from_job: one turn of its loop that ends it. *)
Wait(r) ==
    LET j == request[r].job IN
    /\ request[r].at = "wait"
    /\ \/ Output(j) \in files /\ Ends(r)
       \/ /\ Output(j) \notin files /\ Refreshed(j) /\ Exited(j)
          /\ \/ status[j] = "done" /\ Renders(r, mode[j])
             \/ status[j] = "failed" /\ mode[j] # "none" /\ Software(r)
             \/ status[j] = "failed" /\ mode[j] = "none" /\ Ends(r)
    /\ old' = old \ {j}
    /\ UNCHANGED <<key, mode, status, holder, permits, listed, stale, pruner, fileVars>>

WaitTimeout(r) ==
    /\ request[r].at = "wait" /\ holder[request[r].job] # r
    /\ Renders(r, "demand")
    /\ UNCHANGED <<jobVars, pruner, fileVars>>

(* render_hls_segment_on_demand: a lock per segment, a permit with a       *)
(* timeout, a partial file that is renamed.                                *)
Target(r) == <<request[r].key, request[r].path>>

RenderLock(r) ==
    /\ request[r].at = "render"
    /\ \A s \in Request : Target(s) = Target(r) => request[s].at \notin {"queue", "rendering"}
    /\ IF Target(r) \in files THEN Ends(r) ELSE Goes(r, "queue", request[r].job)
    /\ UNCHANGED <<jobVars, pruner, fileVars>>

RenderPermit(r) ==
    /\ request[r].at = "queue"
    /\ \/ /\ Cardinality({s \in Request : request[s].at = "rendering"}) < MaxRenders
          /\ Goes(r, "rendering", request[r].job)
       \/ Ends(r)   \* hls_segment_queue_timeout_ms
    /\ UNCHANGED <<jobVars, pruner, fileVars>>

Rendered(r) ==
    /\ request[r].at = "rendering"
    /\ Ends(r)
    /\ files' \in {files, files \cup {Target(r)}}
    /\ UNCHANGED <<jobVars, pruner, markers>>

(* The client hangs up: the handler is dropped at an await, and with it    *)
(* the locks it holds, but not the permit of a job it refreshes.           *)
HangUp(r) ==
    /\ request[r].at \notin {"idle", "insert", "refused", "stuck"}
    /\ Ends(r)
    /\ holder' = [j \in Job |-> IF holder[j] = r THEN NoOne ELSE holder[j]]
    /\ UNCHANGED <<key, mode, status, permits, listed, old, stale, pruner, fileVars>>

-----------------------------------------------------------------------------
(* prune_idle_hls_jobs, one key at a time.                                 *)

NoPrune == [at |-> "idle", job |-> NoJob]
Prunes(at) == pruner' = [at |-> at, job |-> pruner.job]

PruneNext(k) ==
    /\ pruner.at = "idle" /\ listed[k] # NoJob
    /\ pruner' = [at |-> "refresh", job |-> listed[k]]
    /\ UNCHANGED <<jobVars, request, fileVars>>

(* what is finished stays *)
MutExpired(j) == j \in old
Expired(j) == j \in old \/ (Exited(j) /\ j \in stale)

PruneDecide ==
    /\ pruner.at = "refresh" /\ Refreshed(pruner.job)
    /\ IF Expired(pruner.job) THEN Prunes("take") ELSE pruner' = NoPrune
    /\ UNCHANGED <<jobVars, request, fileVars>>

(* the permit goes first *)
MutPruneTake ==
    LET j == pruner.job IN
    /\ pruner.at = "take" /\ holder[j] = NoOne
    /\ IF status[j] \in Running
       THEN /\ status' = [status EXCEPT ![j] = "dying"]
            /\ holder' = [holder EXCEPT ![j] = "pruner"]
            /\ permits' = permits \ {j}
            /\ Prunes("kill")
       ELSE Prunes("remove") /\ UNCHANGED <<status, holder, permits>>
    /\ UNCHANGED <<key, mode, listed, old, stale, request, fileVars>>

PruneTake ==
    LET j == pruner.job IN
    /\ pruner.at = "take" /\ holder[j] = NoOne
    /\ IF status[j] \in Running
       THEN /\ status' = [status EXCEPT ![j] = "dying"]
            /\ holder' = [holder EXCEPT ![j] = "pruner"]
            /\ Prunes("kill")
       ELSE Prunes("remove") /\ UNCHANGED <<status, holder>>
    /\ UNCHANGED <<key, mode, permits, listed, old, stale, request, fileVars>>

(* the lock stays *)
MutPruneKilled ==
    LET j == pruner.job IN
    /\ pruner.at = "kill"
    /\ status' = [status EXCEPT ![j] = "failed"]
    /\ permits' = permits \ {j}
    /\ Prunes("remove")
    /\ UNCHANGED <<key, mode, holder, listed, old, stale, request, fileVars>>

PruneKilled ==
    LET j == pruner.job IN
    /\ pruner.at = "kill"
    /\ status' = [status EXCEPT ![j] = "failed"]
    /\ permits' = permits \ {j}
    /\ holder' = [holder EXCEPT ![j] = NoOne]
    /\ Prunes("remove")
    /\ UNCHANGED <<key, mode, listed, old, stale, request, fileVars>>

(* Whatever the key holds by now. *)
PruneRemove ==
    /\ pruner.at = "remove"
    /\ Readers = {}
    /\ listed' = [listed EXCEPT ![key[pruner.job]] = NoJob]
    /\ old' = old \ {pruner.job} /\ stale' = stale \ {pruner.job}
    /\ pruner' = NoPrune
    /\ UNCHANGED <<key, mode, status, holder, permits, request, fileVars>>

(* prune_hls_cache_files: files that are old, or the oldest of too many. *)
SweepFiles ==
    /\ \/ \E f \in files : files' = files \ {f} /\ UNCHANGED markers
       \/ \E m \in markers : markers' = markers \ {m} /\ UNCHANGED files
    /\ UNCHANGED <<jobVars, request, pruner>>

-----------------------------------------------------------------------------
(* The environment: ffmpeg, and time.                                      *)

Ffmpeg(j) ==
    /\ status[j] = "running"
    /\ \/ /\ files' = files \cup {Output(j)}
          /\ status' \in {status, [status EXCEPT ![j] = "ended"]}
       \/ status' = [status EXCEPT ![j] = "crashed"] /\ UNCHANGED files
    /\ UNCHANGED <<key, mode, holder, permits, listed, old, stale, request, pruner, markers>>

(* A request that waits touches its job every 180 ms. *)
Age(j) ==
    /\ Listed(j) /\ \A r \in Request : request[r].job # j
    /\ old' = old \cup {j}
    /\ UNCHANGED <<key, mode, status, holder, permits, listed, stale, request, pruner, fileVars>>

Stale(j) ==
    /\ Listed(j) /\ Exited(j)
    /\ stale' = stale \cup {j}
    /\ UNCHANGED <<key, mode, status, holder, permits, listed, old, request, pruner, fileVars>>

Init ==
    /\ key = [j \in Job |-> "none"] /\ mode = [j \in Job |-> "none"]
    /\ status = [j \in Job |-> "none"] /\ holder = [j \in Job |-> NoOne]
    /\ permits = {} /\ old = {} /\ stale = {}
    /\ listed = [k \in Key |-> NoJob]
    /\ request = [r \in Request |-> Gone]
    /\ pruner = NoPrune
    /\ files = {} /\ markers = {}

(* What a request does once it has been asked. *)
Serve(r) ==
    \/ LockKey(r) \/ Look(r) \/ Reopen(r) \/ Spawn(r) \/ NoSpawn(r) \/ Insert(r) \/ Refused(r)
    \/ Wait(r) \/ RenderLock(r) \/ RenderPermit(r) \/ Rendered(r)

Watch(j) == (\E p \in Request \cup {"watcher", "pruner"} : Refresh(j, p)) \/ Release(j)
Prune == (\E k \in Key : PruneNext(k)) \/ PruneDecide \/ PruneTake \/ PruneKilled \/ PruneRemove

Next ==
    \/ \E r \in Request : (\E k \in Key : Ask(r, k)) \/ Serve(r) \/ WaitTimeout(r) \/ HangUp(r)
    \/ \E j \in Job : Watch(j) \/ Ffmpeg(j) \/ Age(j) \/ Stale(j)
    \/ Prune
    \/ SweepFiles

Spec == Init /\ [][Next]_vars

(* Mutexes are fair, the watchers and the pruner run, six hours pass, and  *)
(* the time of a wait is over at last: it is looked at between two         *)
(* refreshes.  Nobody need ask, ffmpeg need not end.                       *)
FairSpec ==
    /\ Spec
    /\ \A r \in Request : SF_vars(Serve(r)) /\ SF_vars(WaitTimeout(r) /\ holder[request[r].job] = NoOne)
    /\ \A j \in Job : WF_vars(Watch(j)) /\ WF_vars(Stale(j))
    /\ \A k \in Key : SF_vars(PruneNext(k))
    /\ WF_vars(PruneDecide) /\ WF_vars(PruneTake) /\ WF_vars(PruneKilled) /\ SF_vars(PruneRemove)

-----------------------------------------------------------------------------
Requests == [at : {"idle", "lock", "look", "stuck", "start", "insert", "refused", "wait",
                   "render", "queue", "rendering"},
             key : Key \cup {"none"}, job : 0..MaxJobs, software : BOOLEAN, path : Path]
Pruner == [at : {"idle", "refresh", "take", "kill", "remove"}, job : 0..MaxJobs]

(* Where a process is decides what it holds: only a refresh or a kill      *)
(* holds a child's lock, only an idle request has no key.                  *)
TypeOK ==
    /\ key \in [Job -> Key \cup {"none"}] /\ mode \in [Job -> Mode]
    /\ status \in [Job -> Running \cup {"none", "dying", "done", "failed"}]
    /\ \A j \in Job : Referenced(j) => status[j] # "none"
    /\ holder \in [Job -> Request \cup {NoOne, "watcher", "pruner"}]
    /\ \A j \in Job : holder[j] # NoOne => status[j] \in {"done", "dying"}
    /\ permits \cup old \cup stale \subseteq Job
    /\ listed \in [Key -> 0..MaxJobs]
    /\ request \in [Request -> Requests] /\ pruner \in Pruner
    /\ files \subseteq Key \X Path /\ markers \subseteq Key \X Mode

(* The lock per key, the map and the pruner that kills before it removes:  *)
(* a title is transcoded by one ffmpeg at a time, or two would write the   *)
(* same files (ensure_hls_transcode_job, prune_idle_hls_jobs).             *)
OneTranscodePerKey ==
    \A i, j \in Job : Alive(i) /\ Alive(j) /\ key[i] = key[j] => i = j

(* HLS_MAX_TRANSCODE_JOBS bounds the ffmpeg processes: none runs without   *)
(* its permit, whoever refreshes, kills or forgets the job.                *)
TranscodesHavePermits ==
    /\ \A j \in Job : Alive(j) => j \in InUse
    /\ Cardinality(InUse) <= MaxPermits

(* A thread of the runtime waits for itself, and with it whoever writes to *)
(* the shard.                                                              *)
Wedged == \E r \in Request : request[r].at = "stuck"

(* A handler that is dropped while it notes the end of a transcode leaves  *)
(* the permit with the finished job; it comes back at last, when the       *)
(* pruner forgets the job, unless the shard is wedged.                     *)
PermitComesBack ==
    \A j \in Job : (j \in permits /\ Exited(j)) ~> (j \notin InUse \/ Wedged)

(* A request is answered whatever ffmpeg and the pruner do: the locks it   *)
(* waits for are given back, and every wait without a lock has its time.   *)
RequestEnds == \A r \in Request : ~Idle(r) ~> (Idle(r) \/ Wedged)

(* "while it is still held self-deadlocks the shard, which then wedges     *)
(* every tokio worker that subsequently touches it" (tmdb.rs): no thread   *)
(* writes to a shard whose guard it holds.                                 *)
NoSelfDeadlock == ~Wedged
=============================================================================
