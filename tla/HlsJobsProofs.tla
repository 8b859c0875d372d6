--------------------------- MODULE HlsJobsProofs ---------------------------
(***************************************************************************)
(* Theorems about HlsJobs, for any keys, requests, permits and jobs.       *)
(***************************************************************************)
EXTENDS HlsJobs, FiniteSetTheorems, TLAPS

-----------------------------------------------------------------------------
(* What OneTranscodePerKey and TranscodesHavePermits rest on.              *)

At(r, places) == request[r].at \in places
Live == Running \cup {"dying"}

(* A request beyond its first await has a key; one that looks at a job,    *)
(* brings one or waits has a job; one that starts or brings one has the    *)
(* key's lock, and the map has no job of the key.                          *)
PlaceInv ==
    \A r \in Request :
        /\ ~At(r, {"idle"}) => request[r].key \in Key
        /\ At(r, {"look", "stuck", "insert", "wait"}) => request[r].job # NoJob
        /\ At(r, {"start", "insert"}) => listed[request[r].key] = NoJob
        /\ At(r, {"insert"}) => key[request[r].job] = request[r].key

(* The lock of a key has one holder. *)
KeyLockInv ==
    \A r, s \in Request :
        At(r, Locked) /\ At(s, Locked) /\ request[r].key = request[s].key => r = s

(* A job is in the map under its own key. *)
ListInv == \A k \in Key : listed[k] # NoJob => key[listed[k]] = k

(* Nothing replaces the job the pruner has listed, and it removes one that *)
(* is over.                                                                *)
PruneInv ==
    /\ pruner.at # "idle" => pruner.job # NoJob /\ Listed(pruner.job)
    /\ pruner.at = "kill" => status[pruner.job] = "dying"
    /\ pruner.at = "remove" => Exited(pruner.job)
    /\ \A j \in Job : status[j] = "dying" => pruner.at = "kill" /\ pruner.job = j

(* A live ffmpeg is in the map, or a request brings it there, and it has   *)
(* its permit.                                                             *)
Brought(j) == \E r \in Request : At(r, {"insert"}) /\ request[r].job = j
LiveInv == \A j \in Job : status[j] \in Live => Listed(j) \/ Brought(j)
PermitInv ==
    /\ \A j \in Job : status[j] \in Live => j \in permits
    /\ Cardinality(InUse) <= MaxPermits

HlsInv ==
    /\ TypeOK /\ PlaceInv /\ KeyLockInv /\ ListInv /\ PruneInv /\ LiveInv /\ PermitInv

-----------------------------------------------------------------------------
(* Jobs and requests.                                                      *)

LEMMA JobFacts == NoJob \notin Job /\ 0..MaxJobs = Job \cup {NoJob}
BY HlsAssumption DEF Job, NoJob

Others(r) == \A q \in Request : q # r => request'[q] = request[q]
Becomes(r, at, k, j) ==
    /\ Others(r)
    /\ request'[r].at = at /\ request'[r].key = k /\ request'[r].job = j

LEMMA GoesIs ==
    ASSUME TypeOK, NEW r \in Request
    PROVE  /\ \A at, j : Goes(r, at, j) => Becomes(r, at, request[r].key, j)
           /\ \A path : Renders(r, path) =>
                Becomes(r, "render", request[r].key, request[r].job)
           /\ Software(r) => Becomes(r, "lock", request[r].key, request[r].job)
           /\ Ends(r) => Becomes(r, "idle", "none", NoJob)
BY DEF TypeOK, Goes, Renders, Software, Ends, Gone, Place, Becomes, Others

LEMMA GoesType ==
    ASSUME TypeOK, NEW r \in Request
    PROVE  /\ \A at \in {"look", "stuck", "start", "insert", "refused", "wait", "queue",
                         "rendering"}, j \in 0..MaxJobs :
                Goes(r, at, j) => request' \in [Request -> Requests]
           /\ \A path \in Path : Renders(r, path) => request' \in [Request -> Requests]
           /\ Software(r) \/ Ends(r) => request' \in [Request -> Requests]
<1>0. request \in [Request -> Requests] /\ 0 \in 0..MaxJobs
  BY HlsAssumption DEF TypeOK
<1>1. ASSUME NEW at \in {"look", "stuck", "start", "insert", "refused", "wait", "queue",
                         "rendering"}, NEW j \in 0..MaxJobs, Goes(r, at, j)
      PROVE  request' \in [Request -> Requests]
  <2>1. Place(at, request[r].key, j, request[r].software, request[r].path) \in Requests
    BY <1>0 DEF Place, Requests
  <2> QED BY <1>0, <1>1, <2>1 DEF Goes
<1>2. ASSUME NEW path \in Path, Renders(r, path)
      PROVE  request' \in [Request -> Requests]
  <2>1. Place("render", request[r].key, request[r].job, request[r].software, path) \in Requests
    BY <1>0 DEF Place, Requests
  <2> QED BY <1>0, <1>2, <2>1 DEF Renders
<1>3. ASSUME Software(r)
      PROVE  request' \in [Request -> Requests]
  <2>1. Place("lock", request[r].key, request[r].job, TRUE, "demand") \in Requests
    BY <1>0 DEF Place, Requests, Path
  <2> QED BY <1>0, <1>3, <2>1 DEF Software
<1>4. ASSUME Ends(r)
      PROVE  request' \in [Request -> Requests]
  <2>1. Gone \in Requests
    BY <1>0 DEF Gone, Place, Requests, Path, NoJob
  <2> QED BY <1>0, <1>4, <2>1 DEF Ends
<1> QED BY <1>1, <1>2, <1>3, <1>4

-----------------------------------------------------------------------------
(* The steps of a request that have nothing to do with a new job.          *)

Same == UNCHANGED <<key, mode, status, permits, listed, pruner>>
Moves(r) ==
    /\ Same /\ Others(r) /\ ~At(r, {"insert"})
    /\ request'[r].at \notin {"look", "start", "insert"}
    /\ request'[r].at # "idle" => request'[r].key \in Key
    /\ request'[r].at = "stuck" => At(r, {"look"}) /\ request'[r].key = request[r].key
    /\ request'[r].at \in {"stuck", "wait"} => request'[r].job # NoJob
    /\ request'[r].job \in {NoJob, request[r].job}
    /\ \A j \in Job : holder'[j] \in {NoOne, holder[j]}

Simple(r) ==
    \/ \E k \in Key : Ask(r, k)
    \/ Look(r) \/ NoSpawn(r) \/ Refused(r) \/ Wait(r) \/ WaitTimeout(r) \/ HangUp(r)
    \/ RenderLock(r) \/ RenderPermit(r) \/ Rendered(r)

LEMMA MoveSteps ==
    ASSUME HlsInv, NEW r \in Request, Simple(r)
    PROVE  Moves(r)
<1> USE DEF HlsInv
<1>0. ~At(r, {"idle"}) => request[r].key \in Key
  BY DEF PlaceInv
<1>1. ASSUME NEW k \in Key, Ask(r, k)
      PROVE  Moves(r)
  <2>1. request' = [request EXCEPT ![r] = Place("lock", k, NoJob, FALSE, "demand")]
    BY <1>1 DEF Ask
  <2>2. Becomes(r, "lock", k, NoJob)
    BY <2>1 DEF TypeOK, Becomes, Others, Place
  <2> QED BY <1>1, <2>2 DEF Ask, Idle, Moves, Same, Becomes, At, jobVars
<1>2. CASE Look(r)
  <2>1. \/ Becomes(r, "stuck", request[r].key, request[r].job)
        \/ Becomes(r, "wait", request[r].key, request[r].job)
    BY <1>2, GoesIs DEF Look
  <2>2. At(r, {"look"}) /\ request[r].job # NoJob /\ Same /\ holder' = holder
    BY <1>2 DEF Look, Same, PlaceInv, At
  <2> QED BY <1>0, <2>1, <2>2 DEF Moves, Becomes, At
<1>3. CASE NoSpawn(r)
  <2>1. Becomes(r, "refused", request[r].key, NoJob) /\ At(r, {"start"}) /\ Same
        /\ holder' = holder
    BY <1>3, GoesIs DEF NoSpawn, Same, jobVars, At
  <2> QED BY <1>0, <2>1 DEF Moves, Becomes, At
<1>4. CASE Refused(r) \/ Wait(r) \/ WaitTimeout(r)
  <2>1. /\ \/ Becomes(r, "render", request[r].key, request[r].job)
           \/ Becomes(r, "lock", request[r].key, request[r].job)
           \/ Becomes(r, "idle", "none", NoJob)
        /\ At(r, {"refused", "wait"}) /\ Same /\ holder' = holder
    BY <1>4, GoesIs DEF Refused, Wait, WaitTimeout, Same, jobVars, At
  <2> QED BY <1>0, <2>1 DEF Moves, Becomes, At
<1>5. CASE RenderLock(r) \/ RenderPermit(r) \/ Rendered(r)
  <2>1. /\ \/ Becomes(r, "queue", request[r].key, request[r].job)
           \/ Becomes(r, "rendering", request[r].key, request[r].job)
           \/ Becomes(r, "idle", "none", NoJob)
        /\ At(r, {"render", "queue", "rendering"}) /\ Same /\ holder' = holder
    BY <1>5, GoesIs DEF RenderLock, RenderPermit, Rendered, Same, jobVars, At
  <2> QED BY <1>0, <2>1 DEF Moves, Becomes, At
<1>6. CASE HangUp(r)
  <2>1. Becomes(r, "idle", "none", NoJob) /\ ~At(r, {"insert"}) /\ Same
    BY <1>6, GoesIs DEF HangUp, Same, At
  <2>2. \A j \in Job : holder'[j] \in {NoOne, holder[j]}
    BY <1>6 DEF HangUp
  <2> QED BY <2>1, <2>2 DEF Moves, Becomes
<1> QED BY <1>1, <1>2, <1>3, <1>4, <1>5, <1>6 DEF Simple

(* Such a step keeps what is about places, keys and live jobs.             *)
LEMMA MovesKeep ==
    ASSUME HlsInv, NEW r \in Request, Moves(r)
    PROVE  /\ PlaceInv' /\ KeyLockInv' /\ ListInv' /\ PruneInv' /\ LiveInv'
           /\ \A j \in Job : status'[j] \in Live => j \in permits'
<1> USE DEF HlsInv
<1>1. PlaceInv'
  <2>1. ASSUME NEW q \in Request
        PROVE  /\ request'[q].at # "idle" => request'[q].key \in Key
               /\ request'[q].at \in {"look", "stuck", "insert", "wait"}
                    => request'[q].job # NoJob
               /\ request'[q].at \in {"start", "insert"} => listed[request'[q].key] = NoJob
               /\ request'[q].at = "insert" => key[request'[q].job] = request'[q].key
    <3>1. CASE q = r
      BY <3>1 DEF Moves
    <3>2. CASE q # r
      BY <3>2 DEF Moves, Others, PlaceInv, At
    <3> QED BY <3>1, <3>2
  <2> QED BY <2>1 DEF PlaceInv, At, Moves, Same
<1>2. KeyLockInv'
  <2>1. ASSUME NEW q \in Request, request'[q].at \in Locked
        PROVE  At(q, Locked) /\ request'[q].key = request[q].key
    <3>1. CASE q = r
      BY <2>1, <3>1 DEF Moves, At, Locked
    <3>2. CASE q # r
      BY <2>1, <3>2 DEF Moves, Others, At
    <3> QED BY <3>1, <3>2
  <2> QED BY <2>1 DEF KeyLockInv, At
<1>3. ListInv' /\ PruneInv'
  BY DEF Moves, Same, ListInv, PruneInv, Listed, Exited
<1>4. LiveInv'
  <2>1. ASSUME NEW j \in Job, Brought(j)
        PROVE  Brought(j)'
    BY <2>1 DEF Moves, Others, Brought, At
  <2> QED BY <2>1 DEF LiveInv, Moves, Same, Listed
<1>5. \A j \in Job : status'[j] \in Live => j \in permits'
  BY DEF PermitInv, Moves, Same
<1> QED BY <1>1, <1>2, <1>3, <1>4, <1>5

(* Who refers to a job after such a step did before it.                    *)
LEMMA MovesRefer ==
    ASSUME HlsInv, NEW r \in Request, Moves(r), NEW j \in Job, Referenced(j)'
    PROVE  Referenced(j)
<1>1. CASE Listed(j)'
  BY <1>1 DEF Moves, Same, Listed, Referenced
<1>2. CASE \E q \in Request : request'[q].job = j
  <2>1. PICK q \in Request : request'[q].job = j
    BY <1>2
  <2>2. request[q].job = j
    BY <2>1, JobFacts DEF Moves, Others
  <2> QED BY <2>2 DEF Referenced
<1>3. CASE pruner'.job = j \/ status'[j] \in Live \/ holder'[j] # NoOne
  BY <1>3 DEF Moves, Same, Referenced, Live
<1> QED BY <1>1, <1>2, <1>3 DEF Referenced, Live

-----------------------------------------------------------------------------
(* The lock of a key, and a job for it.                                    *)

LEMMA LockKeySteps ==
    ASSUME HlsInv, NEW r \in Request, LockKey(r)
    PROVE  /\ At(r, {"lock"}) /\ request[r].key \in Key
           /\ \/ Becomes(r, "start", request[r].key, NoJob) /\ listed[request[r].key] = NoJob
              \/ /\ Becomes(r, "look", request[r].key, listed[request[r].key])
                 /\ listed[request[r].key] # NoJob
           /\ \A s \in Request : request[s].key = request[r].key => ~At(s, Locked)
           /\ UNCHANGED <<jobVars, pruner, fileVars>>
           /\ request' \in [Request -> Requests]
<1> USE DEF HlsInv
<1> DEFINE j == listed[request[r].key]
<1>1. At(r, {"lock"}) /\ request[r].key \in Key
  BY DEF LockKey, PlaceInv, At
<1>2. j \in 0..MaxJobs
  BY <1>1 DEF TypeOK
<1>3. CASE j = NoJob
  <2>1. Goes(r, "start", NoJob)
    BY <1>3 DEF LockKey
  <2> QED BY <1>1, <1>2, <1>3, <2>1, GoesIs, GoesType DEF LockKey, At
<1>4. CASE j # NoJob
  <2>1. Goes(r, "look", j)
    BY <1>4 DEF LockKey
  <2> QED BY <1>1, <1>2, <1>4, <2>1, GoesIs, GoesType DEF LockKey, At
<1> QED BY <1>3, <1>4

LEMMA LockKeyKeeps ==
    ASSUME HlsInv, NEW r \in Request, LockKey(r)
    PROVE  /\ PlaceInv' /\ KeyLockInv' /\ ListInv' /\ PruneInv' /\ LiveInv'
           /\ \A j \in Job : status'[j] \in Live => j \in permits'
           /\ \A j \in Job : Referenced(j)' => Referenced(j)
<1> USE DEF HlsInv
<1>0. /\ At(r, {"lock"}) /\ request[r].key \in Key /\ Others(r)
      /\ request'[r].key = request[r].key
      /\ \/ request'[r].at = "start" /\ request'[r].job = NoJob /\ listed[request[r].key] = NoJob
         \/ /\ request'[r].at = "look" /\ request'[r].job = listed[request[r].key]
            /\ listed[request[r].key] # NoJob
      /\ \A s \in Request : request[s].key = request[r].key => ~At(s, Locked)
  BY LockKeySteps DEF Becomes
<1>u. UNCHANGED <<key, mode, status, holder, permits, listed, pruner>>
  BY LockKeySteps DEF jobVars
<1>1. PlaceInv'
  <2>1. ASSUME NEW q \in Request
        PROVE  /\ request'[q].at # "idle" => request'[q].key \in Key
               /\ request'[q].at \in {"look", "stuck", "insert", "wait"}
                    => request'[q].job # NoJob
               /\ request'[q].at \in {"start", "insert"} => listed[request'[q].key] = NoJob
               /\ request'[q].at = "insert" => key[request'[q].job] = request'[q].key
    <3>1. CASE q = r
      BY <1>0, <3>1
    <3>2. CASE q # r
      BY <1>0, <3>2 DEF Others, PlaceInv, At
    <3> QED BY <3>1, <3>2
  <2> QED BY <1>u, <2>1 DEF PlaceInv, At
<1>2. KeyLockInv'
  <2>1. ASSUME NEW p \in Request, NEW q \in Request, request'[p].at \in Locked,
               request'[q].at \in Locked, request'[p].key = request'[q].key, p # q
        PROVE  FALSE
    <3>1. p # r /\ q # r
      BY <1>0, <2>1 DEF Others, At
    <3> QED BY <1>0, <2>1, <3>1 DEF Others, KeyLockInv, At
  <2> QED BY <2>1 DEF KeyLockInv, At
<1>3. ListInv' /\ PruneInv'
  BY <1>u DEF ListInv, PruneInv, Listed, Exited
<1>4. LiveInv'
  <2>1. ASSUME NEW j \in Job, Brought(j)
        PROVE  Brought(j)'
    BY <1>0, <2>1 DEF Others, Brought, At
  <2> QED BY <1>u, <2>1 DEF LiveInv, Listed
<1>5. \A j \in Job : status'[j] \in Live => j \in permits'
  BY <1>u DEF PermitInv
<1>6. ASSUME NEW j \in Job, Referenced(j)'
      PROVE  Referenced(j)
  <2>1. CASE \E q \in Request : request'[q].job = j
    <3>1. PICK q \in Request : request'[q].job = j
      BY <2>1
    <3>2. request[q].job = j \/ Listed(j)
      BY <1>0, <3>1, JobFacts DEF Others, Listed
    <3> QED BY <3>2 DEF Referenced
  <2>2. CASE Listed(j)' \/ pruner'.job = j \/ status'[j] \in Live \/ holder'[j] # NoOne
    BY <1>u, <2>2 DEF Referenced, Live, Listed
  <2> QED BY <1>6, <2>1, <2>2 DEF Referenced, Live
<1> QED BY <1>1, <1>2, <1>3, <1>4, <1>5, <1>6

Makes(r, j, m, s) ==
    /\ At(r, {"start"}) /\ request[r].key \in Key /\ listed[request[r].key] = NoJob
    /\ ~Referenced(j) /\ Becomes(r, "insert", request[r].key, j)
    /\ key' = [key EXCEPT ![j] = request[r].key] /\ mode' = [mode EXCEPT ![j] = m]
    /\ status' = [status EXCEPT ![j] = s]
    /\ old' = old \ {j} /\ stale' = stale \ {j}
    /\ UNCHANGED <<holder, listed, pruner, markers>>
    /\ files' \subseteq files
    /\ request' \in [Request -> Requests]

LEMMA MakeSteps ==
    ASSUME HlsInv, NEW r \in Request, Reopen(r) \/ Spawn(r)
    PROVE  \E j \in Job, m \in Mode :
             \/ Makes(r, j, m, "done") /\ permits' = permits \ {j}
             \/ /\ Makes(r, j, m, "running") /\ permits' = permits \cup {j}
                /\ Cardinality(InUse) < MaxPermits
<1> USE DEF HlsInv
<1>1. ASSUME NEW j \in Job, NEW m \in Mode, NEW s, Make(r, j, m, s), j \in Free,
             request[r].at = "start", UNCHANGED <<holder, listed, pruner, markers>>,
             files' \subseteq files
      PROVE  Makes(r, j, m, s)
  <2>1. Goes(r, "insert", j) /\ j \in 0..MaxJobs
    BY <1>1, JobFacts DEF Make
  <2>2. Becomes(r, "insert", request[r].key, j) /\ request' \in [Request -> Requests]
    BY <2>1, GoesIs, GoesType
  <2>3. ~Referenced(j)
    BY <1>1 DEF Free
  <2>4. At(r, {"start"}) /\ request[r].key \in Key /\ listed[request[r].key] = NoJob
    BY <1>1 DEF PlaceInv, At
  <2> QED BY <1>1, <2>2, <2>3, <2>4 DEF Makes, Make
<1>2. Modes(r) \subseteq Mode /\ Free \subseteq Job
  BY HlsAssumption DEF Modes, Mode, Free
<1>3. CASE Reopen(r)
  <2>1. PICK m \in Modes(r), j \in Free : Make(r, j, m, "done") /\ permits' = permits \ {j}
    BY <1>3 DEF Reopen
  <2>2. request[r].at = "start" /\ UNCHANGED <<holder, listed, pruner, markers>>
        /\ files' \subseteq files
    BY <1>3 DEF Reopen, fileVars
  <2>3. j \in Job /\ m \in Mode /\ Makes(r, j, m, "done")
    BY <1>1, <1>2, <2>1, <2>2
  <2> QED BY <2>1, <2>3
<1>4. CASE Spawn(r)
  <2>1. PICK m \in Modes(r), j \in Free :
          /\ Make(r, j, m, "running") /\ permits' = permits \cup {j}
          /\ files' = files \ {<<request[r].key, m>>}
    BY <1>4 DEF Spawn
  <2>2. request[r].at = "start" /\ UNCHANGED <<holder, listed, pruner, markers>>
        /\ files' \subseteq files /\ Cardinality(InUse) < MaxPermits
    BY <1>4, <2>1 DEF Spawn
  <2>3. j \in Job /\ m \in Mode /\ Makes(r, j, m, "running")
    BY <1>1, <1>2, <2>1, <2>2
  <2> QED BY <2>1, <2>2, <2>3
<1> QED BY <1>3, <1>4

(* A new job is nobody's but the request's that has made it.               *)
LEMMA MakesKeep ==
    ASSUME HlsInv, NEW r \in Request, NEW j \in Job, NEW m \in Mode,
           NEW s \in {"done", "running"}, Makes(r, j, m, s),
           s = "done" => permits' = permits \ {j},
           s = "running" => permits' = permits \cup {j}
    PROVE  /\ PlaceInv' /\ KeyLockInv' /\ ListInv' /\ PruneInv' /\ LiveInv'
           /\ \A i \in Job : status'[i] \in Live => i \in permits'
           /\ \A i \in Job : Referenced(i)' => i = j \/ Referenced(i)
<1> USE DEF HlsInv
<1>0. /\ At(r, {"start"}) /\ request[r].key \in Key /\ Others(r)
      /\ request'[r].at = "insert" /\ request'[r].key = request[r].key /\ request'[r].job = j
      /\ listed[request[r].key] = NoJob
  BY DEF Makes, Becomes
<1>u. UNCHANGED <<holder, listed, pruner>>
  BY DEF Makes
<1>n. /\ \A k \in Key : listed[k] # j
      /\ \A q \in Request : request[q].job # j
      /\ pruner.job # j /\ status[j] \notin Live
  BY DEF Makes, Referenced, Listed, Live
<1>k. /\ key'[j] = request[r].key /\ status'[j] = s
      /\ \A i \in Job : i # j => key'[i] = key[i] /\ status'[i] = status[i]
  BY DEF Makes, TypeOK
<1>1. PlaceInv'
  <2>1. ASSUME NEW q \in Request
        PROVE  /\ request'[q].at # "idle" => request'[q].key \in Key
               /\ request'[q].at \in {"look", "stuck", "insert", "wait"}
                    => request'[q].job # NoJob
               /\ request'[q].at \in {"start", "insert"} => listed[request'[q].key] = NoJob
               /\ request'[q].at = "insert" => key'[request'[q].job] = request'[q].key
    <3>1. CASE q = r
      BY <1>0, <1>k, <3>1, JobFacts
    <3>2. CASE q # r
      <4>1. /\ request'[q] = request[q] /\ request[q].job # j
            /\ request[q].job \in Job \cup {NoJob}
        BY <1>0, <1>n, <3>2, JobFacts DEF Others, TypeOK, Requests
      <4> QED BY <1>k, <4>1 DEF PlaceInv, At
    <3> QED BY <3>1, <3>2
  <2> QED BY <1>u, <2>1 DEF PlaceInv, At
<1>2. KeyLockInv'
  <2>1. ASSUME NEW q \in Request, request'[q].at \in Locked
        PROVE  At(q, Locked) /\ request'[q].key = request[q].key
    BY <1>0, <2>1 DEF Others, At, Locked
  <2> QED BY <2>1 DEF KeyLockInv, At
<1>3. ListInv'
  <2>1. \A k \in Key : listed[k] \in Job \cup {NoJob}
    BY JobFacts DEF TypeOK
  <2> QED BY <1>u, <1>n, <1>k, <2>1 DEF ListInv
<1>4. PruneInv'
  <2>1. pruner.job \in Job \cup {NoJob}
    BY JobFacts DEF TypeOK, Pruner
  <2>2. pruner.at # "idle" => pruner.job \in Job /\ status'[pruner.job] = status[pruner.job]
    BY <1>n, <1>k, <2>1 DEF PruneInv
  <2>3. \A i \in Job : status'[i] = "dying" => status[i] = "dying"
    BY <1>k
  <2> QED BY <1>u, <2>2, <2>3 DEF PruneInv, Listed, Exited
<1>5. LiveInv'
  <2>1. Brought(j)'
    BY <1>0 DEF Brought, At
  <2>2. ASSUME NEW i \in Job, Brought(i)
        PROVE  Brought(i)'
    BY <1>0, <2>2 DEF Others, Brought, At
  <2> QED BY <1>u, <1>k, <2>1, <2>2 DEF LiveInv, Listed
<1>6. \A i \in Job : status'[i] \in Live => i \in permits'
  BY <1>k DEF PermitInv, Live, Running
<1>7. ASSUME NEW i \in Job, Referenced(i)', i # j
      PROVE  Referenced(i)
  <2>1. CASE \E q \in Request : request'[q].job = i
    BY <1>0, <1>7, <2>1 DEF Others, Referenced
  <2>2. CASE Listed(i)' \/ pruner'.job = i \/ status'[i] \in Live \/ holder'[i] # NoOne
    BY <1>u, <1>k, <1>7, <2>2 DEF Referenced, Live, Listed
  <2> QED BY <1>7, <2>1, <2>2 DEF Referenced, Live
<1> QED BY <1>1, <1>2, <1>3, <1>4, <1>5, <1>6, <1>7

(* The lock is kept until the job is in the map.                           *)
LEMMA InsertSteps ==
    ASSUME HlsInv, NEW r \in Request, Insert(r)
    PROVE  /\ At(r, {"insert"}) /\ request[r].key \in Key /\ request[r].job \in Job
           /\ Becomes(r, "wait", request[r].key, request[r].job)
           /\ listed[request[r].key] = NoJob
           /\ listed' = [listed EXCEPT ![request[r].key] = request[r].job]
           /\ UNCHANGED <<key, mode, status, holder, permits, old, stale, pruner, fileVars>>
           /\ request' \in [Request -> Requests]
<1> USE DEF HlsInv
<1>1. At(r, {"insert"}) /\ Goes(r, "wait", request[r].job)
  BY DEF Insert, At
<1>2. /\ request[r].key \in Key /\ request[r].job # NoJob /\ listed[request[r].key] = NoJob
  BY <1>1 DEF PlaceInv, At
<1>3. request[r].job \in 0..MaxJobs
  BY DEF TypeOK, Requests
<1> QED BY <1>1, <1>2, <1>3, GoesIs, GoesType, JobFacts DEF Insert

LEMMA InsertKeeps ==
    ASSUME HlsInv, NEW r \in Request, Insert(r)
    PROVE  /\ PlaceInv' /\ KeyLockInv' /\ ListInv' /\ PruneInv' /\ LiveInv'
           /\ \A j \in Job : status'[j] \in Live => j \in permits'
           /\ \A j \in Job : Referenced(j)' => Referenced(j)
<1> USE DEF HlsInv
<1>0. PICK k \in Key, j \in Job :
        /\ request[r].key = k /\ request[r].job = j /\ At(r, {"insert"})
        /\ Others(r) /\ request'[r].at = "wait" /\ request'[r].key = k /\ request'[r].job = j
        /\ listed[k] = NoJob /\ listed' = [listed EXCEPT ![k] = j]
        /\ UNCHANGED <<key, mode, status, holder, permits, pruner>>
  BY InsertSteps DEF Becomes
<1>1. /\ listed'[k] = j /\ key[j] = k
      /\ \A i \in Key : i # k => listed'[i] = listed[i]
  BY <1>0 DEF TypeOK, PlaceInv
<1>2. \A q \in Request : q # r /\ At(q, Locked) => request[q].key # k
  BY <1>0 DEF KeyLockInv, At, Locked
<1>3. PlaceInv'
  <2>1. ASSUME NEW q \in Request
        PROVE  /\ request'[q].at # "idle" => request'[q].key \in Key
               /\ request'[q].at \in {"look", "stuck", "insert", "wait"}
                    => request'[q].job # NoJob
               /\ request'[q].at \in {"start", "insert"} => listed'[request'[q].key] = NoJob
               /\ request'[q].at = "insert" => key[request'[q].job] = request'[q].key
    <3>1. CASE q = r
      BY <1>0, <3>1, JobFacts
    <3>2. CASE q # r
      BY <1>0, <1>1, <1>2, <3>2 DEF Others, PlaceInv, At, Locked
    <3> QED BY <3>1, <3>2
  <2> QED BY <1>0, <2>1 DEF PlaceInv, At
<1>4. KeyLockInv'
  <2>1. ASSUME NEW q \in Request, request'[q].at \in Locked
        PROVE  At(q, Locked) /\ request'[q].key = request[q].key
    BY <1>0, <2>1 DEF Others, At, Locked
  <2> QED BY <2>1 DEF KeyLockInv, At
<1>5. ListInv'
  BY <1>0, <1>1 DEF ListInv
<1>6. \A i \in Job : Listed(i) => Listed(i)'
  BY <1>0, <1>1, JobFacts DEF Listed
<1>7. PruneInv'
  <2>1. pruner.job \in Job \cup {NoJob}
    BY JobFacts DEF TypeOK, Pruner
  <2> QED BY <1>0, <1>6, <2>1 DEF PruneInv, Exited
<1>8. LiveInv'
  <2>1. Listed(j)'
    BY <1>1 DEF Listed
  <2>2. ASSUME NEW i \in Job, Brought(i), i # j
        PROVE  Brought(i)'
    BY <1>0, <2>2 DEF Others, Brought, At
  <2> QED BY <1>0, <1>6, <2>1, <2>2 DEF LiveInv
<1>9. \A i \in Job : status'[i] \in Live => i \in permits'
  BY <1>0 DEF PermitInv
<1>10. ASSUME NEW i \in Job, Referenced(i)'
       PROVE  Referenced(i)
  <2>1. CASE \E q \in Request : request'[q].job = i
    BY <1>0, <2>1 DEF Others, Referenced
  <2>2. CASE Listed(i)'
    <3>1. i = j \/ Listed(i)
      BY <1>1, <2>2 DEF Listed
    <3> QED BY <1>0, <3>1 DEF Referenced
  <2>3. CASE pruner'.job = i \/ status'[i] \in Live \/ holder'[i] # NoOne
    BY <1>0, <2>3 DEF Referenced, Live
  <2> QED BY <1>10, <2>1, <2>2, <2>3 DEF Referenced, Live
<1> QED BY <1>3, <1>4, <1>5, <1>7, <1>8, <1>9, <1>10

-----------------------------------------------------------------------------
(* Ends of jobs that are noticed, ffmpeg and time.                         *)

(* No job comes back to life, and a permit goes only with the life.        *)
Settles ==
    /\ UNCHANGED <<key, mode, listed, request, pruner>>
    /\ permits' \subseteq permits
    /\ \A j \in Job :
         /\ status'[j] \in Live => status[j] \in Live /\ (j \in permits => j \in permits')
         /\ status'[j] = "dying" <=> status[j] = "dying"
         /\ Exited(j) => Exited(j)'
         /\ holder'[j] # NoOne => holder[j] # NoOne \/ status[j] \in Live

Settling ==
    \/ \E j \in Job : Watch(j) \/ Ffmpeg(j) \/ Age(j) \/ Stale(j)
    \/ SweepFiles \/ UNCHANGED vars

LEMMA SettleSteps ==
    ASSUME HlsInv, Settling
    PROVE  Settles
<1> USE DEF HlsInv
<1>0. /\ status \in [Job -> Running \cup {"none", "dying", "done", "failed"}]
      /\ DOMAIN holder = Job
  BY DEF TypeOK
<1>1. ASSUME NEW j \in Job, NEW p, Refresh(j, p)
      PROVE  Settles
  <2>1. CASE status[j] = "ended" /\ status' = [status EXCEPT ![j] = "done"] /\ permits' = permits
    BY <1>0, <1>1, <2>1 DEF Refresh, Settles, Live, Running, Exited
  <2>2. CASE /\ status[j] = "crashed" /\ status' = [status EXCEPT ![j] = "failed"]
             /\ permits' = permits \ {j} /\ holder' = holder
    BY <1>0, <1>1, <2>2 DEF Refresh, Settles, Live, Running, Exited
  <2> QED BY <1>1, <2>1, <2>2 DEF Refresh
<1>2. ASSUME NEW j \in Job, Release(j)
      PROVE  Settles
  BY <1>0, <1>2 DEF Release, Settles, Live, Running, Exited
<1>3. ASSUME NEW j \in Job, Ffmpeg(j)
      PROVE  Settles
  <2>1. \E s \in Running : status' = [status EXCEPT ![j] = s]
    <3>1. status' = status => status' = [status EXCEPT ![j] = "running"]
      BY <1>0, <1>3 DEF Ffmpeg
    <3> QED BY <1>3, <3>1 DEF Ffmpeg, Running
  <2> QED BY <1>0, <1>3, <2>1 DEF Ffmpeg, Settles, Live, Running, Exited
<1>4. ASSUME \/ \E j \in Job : Age(j) \/ Stale(j)
             \/ SweepFiles \/ UNCHANGED vars
      PROVE  Settles
  <2>1. UNCHANGED <<key, mode, status, holder, permits, listed, request, pruner>>
    BY <1>4 DEF Age, Stale, SweepFiles, vars, jobVars
  <2> QED BY <2>1 DEF Settles, Exited
<1> QED BY <1>1, <1>2, <1>3, <1>4 DEF Settling, Watch

LEMMA SettlesKeep ==
    ASSUME HlsInv, Settles
    PROVE  /\ PlaceInv' /\ KeyLockInv' /\ ListInv' /\ PruneInv' /\ LiveInv'
           /\ \A j \in Job : status'[j] \in Live => j \in permits'
           /\ \A j \in Job : Referenced(j)' => Referenced(j)
<1> USE DEF HlsInv
<1>1. PlaceInv' /\ KeyLockInv' /\ ListInv'
  BY DEF Settles, PlaceInv, KeyLockInv, ListInv, At
<1>2. PruneInv'
  <2>1. pruner.job \in Job \cup {NoJob}
    BY JobFacts DEF TypeOK, Pruner
  <2> QED BY <2>1 DEF Settles, PruneInv, Listed
<1>3. LiveInv'
  BY DEF Settles, LiveInv, Listed, Brought, At
<1>4. \A j \in Job : status'[j] \in Live => j \in permits'
  BY DEF Settles, PermitInv
<1>5. \A j \in Job : Referenced(j)' => Referenced(j)
  BY DEF Settles, Referenced, Live, Listed
<1> QED BY <1>1, <1>2, <1>3, <1>4, <1>5

-----------------------------------------------------------------------------
(* The pruner.                                                             *)

LEMMA PrunedJob ==
    ASSUME HlsInv, pruner.at # "idle"
    PROVE  /\ pruner.job \in Job /\ Referenced(pruner.job) /\ key[pruner.job] \in Key
           /\ listed[key[pruner.job]] = pruner.job
           /\ status[pruner.job] \in Running \cup {"dying", "done", "failed"}
<1> USE DEF HlsInv
<1>1. pruner.job \in Job
  BY JobFacts DEF PruneInv, TypeOK, Pruner
<1>2. Referenced(pruner.job)
  BY DEF Referenced
<1>3. PICK k \in Key : listed[k] = pruner.job
  BY DEF PruneInv, Listed
<1>4. key[pruner.job] = k
  BY <1>1, <1>3, JobFacts DEF ListInv
<1>5. status[pruner.job] \in Running \cup {"dying", "done", "failed"}
  BY <1>1, <1>2 DEF TypeOK
<1> QED BY <1>1, <1>2, <1>3, <1>4, <1>5

(* The job stays in the map; one that lived may be killed. *)
Pruned ==
    /\ pruner'.at # "idle" => pruner'.job # NoJob /\ Listed(pruner'.job)
    /\ pruner'.at = "kill" => status'[pruner'.job] = "dying"
    /\ pruner'.at = "remove" => status'[pruner'.job] \in {"done", "failed"}
    /\ pruner'.at = "idle" => pruner'.job = NoJob
    /\ \A j \in Job :
         /\ status'[j] = "dying" => pruner'.at = "kill" /\ pruner'.job = j
         /\ status'[j] \in Live => status[j] \in Live /\ j \in permits'
         /\ holder'[j] # NoOne => holder[j] # NoOne \/ status[j] \in Live

(* While the job is in the map, whatever becomes of it.                    *)
LEMMA PruneKeeps ==
    ASSUME HlsInv, PruneDecide \/ PruneTake \/ PruneKilled \/ \E k \in Key : PruneNext(k)
    PROVE  /\ PlaceInv' /\ KeyLockInv' /\ ListInv' /\ PruneInv' /\ LiveInv'
           /\ \A j \in Job : status'[j] \in Live => j \in permits'
           /\ \A j \in Job : Referenced(j)' => Referenced(j)
<1> USE DEF HlsInv
<1>0. UNCHANGED <<key, mode, listed, request>>
  BY DEF PruneDecide, PruneTake, PruneKilled, PruneNext, jobVars
<1>s. status \in [Job -> Running \cup {"none", "dying", "done", "failed"}] /\ DOMAIN holder = Job
  BY DEF TypeOK
<1>1. Pruned
  <2>1. ASSUME NEW k \in Key, PruneNext(k)
        PROVE  Pruned
    <3>1. pruner' = [at |-> "refresh", job |-> listed[k]] /\ listed[k] # NoJob
      BY <2>1 DEF PruneNext
    <3>2. UNCHANGED <<status, holder, permits>> /\ pruner.at = "idle"
      BY <2>1 DEF PruneNext, jobVars
    <3> QED BY <3>1, <3>2 DEF Pruned, PruneInv, PermitInv, Listed
  <2>2. CASE PruneDecide
    <3>1. pruner' = [at |-> "take", job |-> pruner.job] \/ pruner' = NoPrune
      BY <2>2 DEF PruneDecide, Prunes
    <3>2. UNCHANGED <<status, holder, permits>> /\ pruner.at = "refresh"
      BY <2>2 DEF PruneDecide, jobVars
    <3> QED BY <3>1, <3>2 DEF Pruned, PruneInv, PermitInv, NoPrune
  <2>3. CASE PruneTake
    <3>0. /\ pruner.at = "take" /\ pruner.job \in Job /\ permits' = permits
          /\ status[pruner.job] \in Running \cup {"done", "failed"}
      BY <2>3, PrunedJob DEF PruneTake, PruneInv
    <3>1. CASE status[pruner.job] \in Running
      <4>1. /\ status' = [status EXCEPT ![pruner.job] = "dying"]
            /\ holder' = [holder EXCEPT ![pruner.job] = "pruner"]
            /\ pruner' = [at |-> "kill", job |-> pruner.job]
        BY <2>3, <3>1 DEF PruneTake, Prunes
      <4> QED BY <1>s, <3>0, <3>1, <4>1 DEF Pruned, PruneInv, PermitInv, Live
    <3>2. CASE status[pruner.job] \notin Running
      <4>1. /\ UNCHANGED <<status, holder>>
            /\ pruner' = [at |-> "remove", job |-> pruner.job]
        BY <2>3, <3>2 DEF PruneTake, Prunes
      <4> QED BY <3>0, <3>2, <4>1 DEF Pruned, PruneInv, PermitInv, Exited
    <3> QED BY <3>1, <3>2
  <2>4. CASE PruneKilled
    <3>0. /\ pruner.at = "kill" /\ pruner.job \in Job
          /\ status' = [status EXCEPT ![pruner.job] = "failed"]
          /\ holder' = [holder EXCEPT ![pruner.job] = NoOne]
          /\ permits' = permits \ {pruner.job}
          /\ pruner' = [at |-> "remove", job |-> pruner.job]
      BY <2>4, PrunedJob DEF PruneKilled, Prunes
    <3>1. Listed(pruner'.job) /\ pruner'.job # NoJob
      BY <3>0 DEF PruneInv
    <3>2. \A j \in Job : j # pruner.job => status'[j] = status[j] /\ status[j] # "dying"
      BY <1>s, <3>0 DEF PruneInv
    <3>3. status'[pruner.job] = "failed"
      BY <1>s, <3>0
    <3>4. \A j \in Job : status'[j] \in Live => status[j] \in Live /\ j \in permits'
      BY <3>0, <3>2, <3>3 DEF PermitInv, Live, Running
    <3>5. \A j \in Job : holder'[j] # NoOne => holder[j] # NoOne
      BY <1>s, <3>0
    <3> QED BY <3>0, <3>1, <3>2, <3>3, <3>4, <3>5 DEF Pruned
  <2> QED BY <2>1, <2>2, <2>3, <2>4
<1>2. PlaceInv' /\ KeyLockInv' /\ ListInv'
  BY <1>0 DEF PlaceInv, KeyLockInv, ListInv, At
<1>3. PruneInv'
  BY <1>0, <1>1 DEF Pruned, PruneInv, Listed, Exited
<1>4. LiveInv'
  BY <1>0, <1>1 DEF Pruned, LiveInv, Listed, Brought, At
<1>5. ASSUME NEW j \in Job, Referenced(j)'
      PROVE  Referenced(j)
  BY <1>0, <1>1, <1>5, JobFacts DEF Pruned, Referenced, Live, Listed
<1> QED BY <1>1, <1>2, <1>3, <1>4, <1>5 DEF Pruned

(* It removes the job it has listed, which is over.                        *)
LEMMA PruneRemoveKeeps ==
    ASSUME HlsInv, PruneRemove
    PROVE  /\ PlaceInv' /\ KeyLockInv' /\ ListInv' /\ PruneInv' /\ LiveInv'
           /\ \A j \in Job : status'[j] \in Live => j \in permits'
           /\ \A j \in Job : Referenced(j)' => Referenced(j)
<1> USE DEF HlsInv
<1>0. PICK k \in Key, j \in Job :
        /\ key[j] = k /\ listed[k] = j /\ listed' = [listed EXCEPT ![k] = NoJob]
        /\ Exited(j)
  BY PrunedJob DEF PruneRemove, PruneInv
<1>1. /\ UNCHANGED <<key, mode, status, holder, permits, request>> /\ pruner' = NoPrune
      /\ pruner.at = "remove"
  BY DEF PruneRemove
<1>2. /\ listed'[k] = NoJob /\ \A i \in Key : i # k => listed'[i] = listed[i]
  BY <1>0 DEF TypeOK
<1>3. PlaceInv' /\ KeyLockInv' /\ ListInv'
  <2>1. \A q \in Request : request[q].key \in Key /\ listed[request[q].key] = NoJob
          => listed'[request[q].key] = NoJob
    BY <1>2
  <2>2. PlaceInv'
    BY <1>1, <2>1 DEF PlaceInv, At
  <2>3. KeyLockInv'
    BY <1>1 DEF KeyLockInv, At
  <2>4. ListInv'
    BY <1>1, <1>2 DEF ListInv
  <2> QED BY <2>2, <2>3, <2>4
<1>4. PruneInv'
  BY <1>1 DEF PruneInv, NoPrune
<1>5. LiveInv'
  <2>1. ASSUME NEW i \in Job, status[i] \in Live, Listed(i)
        PROVE  Listed(i)'
    <3>1. i # j
      BY <1>0, <2>1 DEF Exited, Live, Running
    <3> QED BY <1>0, <1>2, <2>1, <3>1 DEF Listed
  <2> QED BY <1>1, <2>1 DEF LiveInv, Brought, At
<1>6. \A i \in Job : status'[i] \in Live => i \in permits'
  BY <1>1 DEF PermitInv
<1>7. ASSUME NEW i \in Job, Referenced(i)'
      PROVE  Referenced(i)
  <2>1. Listed(i)' => Listed(i)
    BY <1>0, <1>2, JobFacts DEF Listed
  <2>2. pruner'.job # i
    BY <1>1, JobFacts DEF NoPrune
  <2> QED BY <1>1, <1>7, <2>1, <2>2 DEF Referenced, Live
<1> QED BY <1>3, <1>4, <1>5, <1>6, <1>7

-----------------------------------------------------------------------------
(* Type correctness.                                                       *)

MapsOK ==
    /\ key \in [Job -> Key \cup {"none"}] /\ mode \in [Job -> Mode]
    /\ status \in [Job -> Running \cup {"none", "dying", "done", "failed"}]
    /\ holder \in [Job -> Request \cup {NoOne, "watcher", "pruner"}]
    /\ permits \cup old \cup stale \subseteq Job
    /\ listed \in [Key -> 0..MaxJobs]
HoldOK == \A j \in Job : holder[j] # NoOne => status[j] \in {"done", "dying"}
ReferOK == \A j \in Job : Referenced(j) => status[j] # "none"
ProcessOK == request \in [Request -> Requests] /\ pruner \in Pruner
FilesOK == files \subseteq Key \X Path /\ markers \subseteq Key \X Mode

LEMMA TypeSplit ==
    /\ TypeOK <=> MapsOK /\ HoldOK /\ ReferOK /\ ProcessOK /\ FilesOK
    /\ TypeOK' <=> MapsOK' /\ HoldOK' /\ ReferOK' /\ ProcessOK' /\ FilesOK'
<1>1. TypeOK <=> MapsOK /\ HoldOK /\ ReferOK /\ ProcessOK /\ FilesOK
  BY DEF TypeOK, MapsOK, HoldOK, ReferOK, ProcessOK, FilesOK
<1>2. TypeOK' <=> MapsOK' /\ HoldOK' /\ ReferOK' /\ ProcessOK' /\ FilesOK'
  BY DEF TypeOK, MapsOK, HoldOK, ReferOK, ProcessOK, FilesOK
<1> QED BY <1>1, <1>2

LEMMA SimpleType ==
    ASSUME HlsInv, NEW r \in Request, Simple(r)
    PROVE  TypeOK'
<1> USE DEF HlsInv
<1>0. /\ MapsOK /\ HoldOK /\ ReferOK /\ ProcessOK /\ FilesOK
      /\ Moves(r) /\ UNCHANGED <<key, mode, status, permits, listed, pruner>>
  BY TypeSplit, MoveSteps DEF Moves, Same
<1>j. request[r].job \in 0..MaxJobs /\ NoJob \in 0..MaxJobs
  BY <1>0, JobFacts DEF ProcessOK, Requests
<1>k. ~At(r, {"idle"}) => request[r].key \in Key
  BY DEF PlaceInv
<1>1. request' \in [Request -> Requests]
  <2>1. ASSUME NEW k \in Key, Ask(r, k)
        PROVE  request' \in [Request -> Requests]
    <3>1. Place("lock", k, NoJob, FALSE, "demand") \in Requests
      BY <1>j DEF Place, Requests, Path
    <3> QED BY <1>0, <2>1, <3>1 DEF Ask, ProcessOK
  <2>2. CASE Look(r) \/ NoSpawn(r)
    BY <1>j, <2>2, GoesType DEF Look, NoSpawn
  <2>3. CASE Wait(r)
    <3>1. request[r].job \in Job
      BY <1>j, <2>3, JobFacts DEF Wait, PlaceInv, At
    <3>2. mode[request[r].job] \in Path
      BY <1>0, <3>1 DEF MapsOK, Path
    <3> QED BY <2>3, <3>2, GoesType DEF Wait
  <2>4. CASE Refused(r) \/ WaitTimeout(r) \/ HangUp(r)
    BY <2>4, GoesType DEF Refused, WaitTimeout, HangUp, Path
  <2>5. CASE RenderLock(r) \/ RenderPermit(r) \/ Rendered(r)
    BY <1>j, <2>5, GoesType DEF RenderLock, RenderPermit, Rendered
  <2> QED BY <2>1, <2>2, <2>3, <2>4, <2>5 DEF Simple
<1>2. old' \subseteq Job /\ stale' = stale
  BY <1>0 DEF Simple, Ask, Look, NoSpawn, Refused, Wait, WaitTimeout, HangUp, RenderLock,
     RenderPermit, Rendered, MapsOK, jobVars
<1>3. holder' \in [Job -> Request \cup {NoOne, "watcher", "pruner"}]
  <2>1. CASE HangUp(r)
    BY <1>0, <2>1 DEF HangUp, MapsOK
  <2>2. CASE ~HangUp(r)
    BY <1>0, <2>2 DEF Simple, Ask, Look, NoSpawn, Refused, Wait, WaitTimeout, RenderLock,
       RenderPermit, Rendered, MapsOK, jobVars
  <2> QED BY <2>1, <2>2
<1>4. FilesOK'
  <2>1. CASE Rendered(r)
    <3>1. Target(r) \in Key \X Path
      BY <1>0, <1>k, <2>1 DEF Rendered, Target, ProcessOK, Requests, At
    <3> QED BY <1>0, <2>1, <3>1 DEF Rendered, FilesOK
  <2>2. CASE ~Rendered(r)
    <3>1. files' \subseteq files /\ markers' = markers
      BY <2>2 DEF Simple, Ask, Look, NoSpawn, Refused, Wait, WaitTimeout, HangUp, RenderLock,
         RenderPermit, fileVars
    <3> QED BY <1>0, <3>1 DEF FilesOK
  <2> QED BY <2>1, <2>2
<1>5. MapsOK' /\ ProcessOK'
  BY <1>0, <1>1, <1>2, <1>3 DEF MapsOK, ProcessOK
<1>6. HoldOK'
  BY <1>0 DEF HoldOK, Moves
<1>7. ReferOK'
  BY <1>0, MovesRefer DEF ReferOK
<1> QED BY <1>4, <1>5, <1>6, <1>7, TypeSplit

LEMMA JobType ==
    ASSUME HlsInv, NEW r \in Request, LockKey(r) \/ Reopen(r) \/ Spawn(r) \/ Insert(r)
    PROVE  TypeOK'
<1> USE DEF HlsInv
<1>0. MapsOK /\ HoldOK /\ ReferOK /\ ProcessOK /\ FilesOK
  BY TypeSplit
<1>1. CASE LockKey(r)
  <2>1. request' \in [Request -> Requests] /\ UNCHANGED <<jobVars, pruner, fileVars>>
        /\ \A j \in Job : Referenced(j)' => Referenced(j)
    BY <1>1, LockKeySteps, LockKeyKeeps
  <2> QED BY <1>0, <2>1, TypeSplit DEF MapsOK, HoldOK, ReferOK, ProcessOK, FilesOK, jobVars,
        fileVars
<1>2. CASE Insert(r)
  <2>1. /\ request[r].key \in Key /\ request[r].job \in 0..MaxJobs
        /\ listed' = [listed EXCEPT ![request[r].key] = request[r].job]
        /\ UNCHANGED <<key, mode, status, holder, permits, old, stale, pruner, fileVars>>
        /\ request' \in [Request -> Requests]
        /\ \A j \in Job : Referenced(j)' => Referenced(j)
    BY <1>2, InsertSteps, InsertKeeps, JobFacts
  <2> QED BY <1>0, <2>1, TypeSplit DEF MapsOK, HoldOK, ReferOK, ProcessOK, FilesOK, fileVars
<1>3. ASSUME NEW j \in Job, NEW m \in Mode, NEW s \in {"done", "running"}, Makes(r, j, m, s),
             s = "done" => permits' = permits \ {j},
             s = "running" => permits' = permits \cup {j}
      PROVE  TypeOK'
  <2>1. MapsOK'
    BY <1>0, <1>3 DEF Makes, MapsOK, Running
  <2>2. ProcessOK' /\ FilesOK'
    BY <1>0, <1>3 DEF Makes, ProcessOK, FilesOK
  <2>3. holder[j] = NoOne
    BY <1>3 DEF Makes, Referenced
  <2>4. HoldOK'
    BY <1>0, <1>3, <2>3 DEF Makes, MapsOK, HoldOK
  <2>5. ReferOK'
    BY <1>0, <1>3, MakesKeep DEF Makes, MapsOK, ReferOK
  <2> QED BY <2>1, <2>2, <2>4, <2>5, TypeSplit
<1> QED BY <1>1, <1>2, <1>3, MakeSteps

LEMMA SettlingType ==
    ASSUME HlsInv, Settling
    PROVE  TypeOK'
<1> USE DEF HlsInv
<1>0. /\ MapsOK /\ HoldOK /\ ReferOK /\ ProcessOK /\ FilesOK
      /\ Settles /\ \A j \in Job : Referenced(j)' => Referenced(j)
  BY TypeSplit, SettleSteps, SettlesKeep
<1>1. \A j \in Job : status[j] \in Live => key[j] \in Key
  <2>1. ASSUME NEW j \in Job, Listed(j)
        PROVE  key[j] \in Key
    BY <2>1, JobFacts DEF Listed, ListInv
  <2>2. ASSUME NEW j \in Job, Brought(j)
        PROVE  key[j] \in Key
    BY <2>2 DEF Brought, PlaceInv, At
  <2> QED BY <2>1, <2>2 DEF LiveInv
<1>2. ASSUME NEW j \in Job, NEW p \in Request \cup {"watcher", "pruner"}, Refresh(j, p)
      PROVE  MapsOK' /\ HoldOK' /\ FilesOK'
  <2>1. CASE status[j] = "ended" /\ status' = [status EXCEPT ![j] = "done"] /\ permits' = permits
    BY <1>0, <1>1, <1>2, <2>1 DEF Refresh, MapsOK, HoldOK, FilesOK, Output, Live, Running
  <2>2. CASE /\ status[j] = "crashed" /\ status' = [status EXCEPT ![j] = "failed"]
             /\ permits' = permits \ {j} /\ holder' = holder /\ markers' = markers
    BY <1>0, <1>2, <2>2 DEF Refresh, MapsOK, HoldOK, FilesOK
  <2> QED BY <1>2, <2>1, <2>2 DEF Refresh
<1>3. ASSUME NEW j \in Job, Release(j)
      PROVE  MapsOK' /\ HoldOK' /\ FilesOK'
  BY <1>0, <1>3 DEF Release, MapsOK, HoldOK, FilesOK, fileVars
<1>4. ASSUME NEW j \in Job, Ffmpeg(j)
      PROVE  MapsOK' /\ HoldOK' /\ FilesOK'
  <2>1. Output(j) \in Key \X Path
    BY <1>0, <1>1, <1>4 DEF Ffmpeg, Output, Live, Running, MapsOK, Path
  <2>2. FilesOK'
    BY <1>0, <1>4, <2>1 DEF Ffmpeg, FilesOK
  <2>3. MapsOK' /\ HoldOK'
    BY <1>0, <1>4 DEF Ffmpeg, MapsOK, HoldOK, Running
  <2> QED BY <2>2, <2>3
<1>5. ASSUME \/ \E j \in Job : Age(j) \/ Stale(j)
             \/ SweepFiles \/ UNCHANGED vars
      PROVE  MapsOK' /\ HoldOK' /\ FilesOK'
  <2>1. CASE \E j \in Job : Age(j) \/ Stale(j)
    BY <1>0, <2>1 DEF Age, Stale, MapsOK, HoldOK, FilesOK, fileVars
  <2>2. CASE SweepFiles \/ UNCHANGED vars
    BY <1>0, <2>2 DEF SweepFiles, MapsOK, HoldOK, FilesOK, vars, jobVars, fileVars
  <2> QED BY <1>5, <2>1, <2>2
<1>6. MapsOK' /\ HoldOK' /\ FilesOK'
  BY <1>2, <1>3, <1>4, <1>5 DEF Settling, Watch
<1>7. ProcessOK'
  BY <1>0 DEF Settles, ProcessOK
<1>8. ASSUME NEW j \in Job, Referenced(j)'
      PROVE  status'[j] # "none"
  <2>1. status[j] # "none"
    BY <1>0, <1>8 DEF ReferOK
  <2>2. status'[j] = status[j] \/ status'[j] \in {"done", "failed", "ended", "crashed", "running"}
    BY <1>0 DEF Settling, Watch, Refresh, Release, Ffmpeg, Age, Stale, SweepFiles, vars, jobVars,
       MapsOK
  <2> QED BY <2>1, <2>2
<1> QED BY <1>6, <1>7, <1>8, TypeSplit DEF ReferOK

LEMMA PruneType ==
    ASSUME HlsInv, Prune
    PROVE  TypeOK'
<1> USE DEF HlsInv
<1>0. /\ MapsOK /\ HoldOK /\ ReferOK /\ ProcessOK /\ FilesOK
      /\ \A j \in Job : Referenced(j)' => Referenced(j)
  BY TypeSplit, PruneKeeps, PruneRemoveKeeps DEF Prune
<1>1. /\ UNCHANGED <<key, mode, request, files, markers>>
  BY DEF Prune, PruneNext, PruneDecide, PruneTake, PruneKilled, PruneRemove, jobVars, fileVars
<1>2. FilesOK'
  BY <1>0, <1>1 DEF FilesOK
<1>3. ASSUME NEW at \in {"take", "kill", "remove"}, Prunes(at)
      PROVE  pruner' \in Pruner
  BY <1>0, <1>3 DEF Prunes, ProcessOK, Pruner
<1>4. pruner' \in Pruner
  <2>1. ASSUME NEW k \in Key, PruneNext(k)
        PROVE  pruner' \in Pruner
    BY <1>0, <2>1 DEF PruneNext, MapsOK, Pruner
  <2>2. NoPrune \in Pruner
    BY JobFacts DEF NoPrune, Pruner
  <2>3. CASE PruneDecide \/ PruneRemove
    BY <1>3, <2>2, <2>3 DEF PruneDecide, PruneRemove
  <2>4. CASE PruneTake \/ PruneKilled
    BY <1>3, <2>4 DEF PruneTake, PruneKilled
  <2> QED BY <2>1, <2>3, <2>4 DEF Prune
<1>5. MapsOK' /\ HoldOK' /\ \A j \in Job : status[j] # "none" => status'[j] # "none"
  <2>1. CASE PruneDecide \/ \E k \in Key : PruneNext(k)
    BY <1>0, <2>1 DEF PruneDecide, PruneNext, MapsOK, HoldOK, jobVars
  <2>2. CASE PruneTake
    <3>1. pruner.job \in Job
      BY <2>2, PrunedJob DEF PruneTake
    <3> QED BY <1>0, <2>2, <3>1 DEF PruneTake, MapsOK, HoldOK
  <2>3. CASE PruneKilled
    <3>1. pruner.job \in Job
      BY <2>3, PrunedJob DEF PruneKilled
    <3> QED BY <1>0, <2>3, <3>1 DEF PruneKilled, MapsOK, HoldOK
  <2>4. CASE PruneRemove
    <3>1. NoJob \in 0..MaxJobs
      BY JobFacts
    <3> QED BY <1>0, <2>4, <3>1 DEF PruneRemove, MapsOK, HoldOK
  <2> QED BY <2>1, <2>2, <2>3, <2>4 DEF Prune
<1>6. ReferOK'
  BY <1>0, <1>5 DEF ReferOK
<1>7. ProcessOK'
  BY <1>0, <1>1, <1>4 DEF ProcessOK
<1> QED BY <1>2, <1>5, <1>6, <1>7, TypeSplit

-----------------------------------------------------------------------------
(* The permits in use.                                                     *)

LEMMA InUseFinite ==
    ASSUME TypeOK
    PROVE  IsFiniteSet(InUse) /\ Cardinality(InUse) \in Nat
<1>1. InUse \subseteq 1..MaxJobs
  BY DEF TypeOK, InUse, Job
<1>2. IsFiniteSet(1..MaxJobs)
  BY HlsAssumption, FS_Interval
<1> QED BY <1>1, <1>2, FS_Subset, FS_CardinalityType

LEMMA FewerInUse ==
    ASSUME HlsInv, TypeOK', permits' \subseteq permits,
           \A j \in Job : Referenced(j)' => Referenced(j)
    PROVE  Cardinality(InUse') <= MaxPermits
<1> USE DEF HlsInv
<1>1. InUse' \subseteq InUse
  BY DEF TypeOK, InUse
<1>2. Cardinality(InUse') <= Cardinality(InUse) /\ Cardinality(InUse') \in Nat
  BY <1>1, InUseFinite, FS_Subset, FS_CardinalityType
<1>3. Cardinality(InUse) <= MaxPermits /\ Cardinality(InUse) \in Nat /\ MaxPermits \in Nat
  BY InUseFinite, HlsAssumption DEF PermitInv
<1> QED BY <1>2, <1>3

LEMMA OneMoreInUse ==
    ASSUME HlsInv, TypeOK', NEW j \in Job, permits' = permits \cup {j},
           \A i \in Job : Referenced(i)' => i = j \/ Referenced(i),
           Cardinality(InUse) < MaxPermits
    PROVE  Cardinality(InUse') <= MaxPermits
<1> USE DEF HlsInv
<1>1. InUse' \subseteq InUse \cup {j}
  BY DEF TypeOK, InUse
<1>2. /\ IsFiniteSet(InUse \cup {j})
      /\ Cardinality(InUse \cup {j}) <= Cardinality(InUse) + 1
      /\ Cardinality(InUse \cup {j}) \in Nat
  <2>1. CASE j \in InUse
    <3>1. InUse \cup {j} = InUse
      BY <2>1
    <3>2. Cardinality(InUse) <= Cardinality(InUse) + 1
      BY InUseFinite
    <3> QED BY <3>1, <3>2, InUseFinite
  <2>2. CASE j \notin InUse
    <3>1. /\ IsFiniteSet(InUse \cup {j})
          /\ Cardinality(InUse \cup {j}) = Cardinality(InUse) + 1
      BY <2>2, InUseFinite, FS_AddElement
    <3> QED BY <3>1, InUseFinite
  <2> QED BY <2>1, <2>2
<1>3. Cardinality(InUse') <= Cardinality(InUse \cup {j}) /\ Cardinality(InUse') \in Nat
  BY <1>1, <1>2, FS_Subset, FS_CardinalityType
<1> QED BY <1>2, <1>3, InUseFinite, HlsAssumption

LEMMA SameInUse ==
    ASSUME HlsInv, TypeOK', NEW j \in Job, permits' = permits \ {j},
           \A i \in Job : Referenced(i)' => i = j \/ Referenced(i)
    PROVE  Cardinality(InUse') <= MaxPermits
<1> USE DEF HlsInv
<1>1. InUse' \subseteq InUse
  BY DEF TypeOK, InUse
<1>2. Cardinality(InUse') <= Cardinality(InUse) /\ Cardinality(InUse') \in Nat
  BY <1>1, InUseFinite, FS_Subset, FS_CardinalityType
<1>3. Cardinality(InUse) <= MaxPermits /\ Cardinality(InUse) \in Nat /\ MaxPermits \in Nat
  BY InUseFinite, HlsAssumption DEF PermitInv
<1> QED BY <1>2, <1>3

-----------------------------------------------------------------------------
(* Every step keeps the invariant.                                         *)

LEMMA InitHls == Init => HlsInv
<1> SUFFICES ASSUME Init
             PROVE  HlsInv
  OBVIOUS
<1>1. /\ \A r \in Request : request[r].at = "idle" /\ request[r].job = NoJob
      /\ \A j \in Job : status[j] = "none" /\ holder[j] = NoOne
      /\ \A k \in Key : listed[k] = NoJob
      /\ pruner = NoPrune /\ permits = {}
  BY DEF Init, Gone, Place
<1>2. \A j \in Job : ~Referenced(j)
  BY <1>1, JobFacts DEF Referenced, Listed, Running, NoPrune
<1>3. TypeOK
  <2>1. MapsOK
    BY JobFacts DEF Init, MapsOK, Mode
  <2>2. HoldOK /\ ReferOK
    BY <1>1, <1>2 DEF HoldOK, ReferOK
  <2>3. Gone \in Requests /\ NoPrune \in Pruner
    BY JobFacts DEF Gone, Place, Requests, Path, NoPrune, Pruner
  <2>4. ProcessOK /\ FilesOK
    BY <2>3 DEF Init, ProcessOK, FilesOK
  <2> QED BY <2>1, <2>2, <2>4, TypeSplit
<1>4. PlaceInv /\ KeyLockInv /\ ListInv
  BY <1>1 DEF PlaceInv, KeyLockInv, ListInv, At, Locked
<1>5. PruneInv /\ LiveInv
  BY <1>1 DEF PruneInv, LiveInv, NoPrune, Live, Running
<1>6. PermitInv
  <2>1. InUse = {}
    BY <1>1 DEF InUse
  <2>2. Cardinality(InUse) <= MaxPermits
    BY <2>1, FS_EmptySet, HlsAssumption
  <2> QED BY <1>1, <2>2 DEF PermitInv, Live, Running
<1> QED BY <1>3, <1>4, <1>5, <1>6 DEF HlsInv

LEMMA NextHls ==
    ASSUME HlsInv, [Next]_vars
    PROVE  HlsInv'
<1>1. ASSUME NEW r \in Request, Simple(r)
      PROVE  HlsInv'
  <2>1. Moves(r) /\ permits' = permits /\ TypeOK'
    BY <1>1, MoveSteps, SimpleType DEF Moves, Same
  <2>2. Cardinality(InUse') <= MaxPermits
    BY <2>1, MovesRefer, FewerInUse
  <2> QED BY <2>1, <2>2, MovesKeep DEF HlsInv, PermitInv
<1>2. ASSUME NEW r \in Request, LockKey(r) \/ Insert(r)
      PROVE  HlsInv'
  <2>1. permits' = permits /\ TypeOK'
    BY <1>2, JobType DEF LockKey, Insert, jobVars
  <2>2. Cardinality(InUse') <= MaxPermits
    BY <1>2, <2>1, LockKeyKeeps, InsertKeeps, FewerInUse
  <2> QED BY <1>2, <2>1, <2>2, LockKeyKeeps, InsertKeeps DEF HlsInv, PermitInv
<1>3. ASSUME NEW r \in Request, Reopen(r) \/ Spawn(r)
      PROVE  HlsInv'
  <2>1. PICK j \in Job, m \in Mode :
          \/ Makes(r, j, m, "done") /\ permits' = permits \ {j}
          \/ /\ Makes(r, j, m, "running") /\ permits' = permits \cup {j}
             /\ Cardinality(InUse) < MaxPermits
    BY <1>3, MakeSteps
  <2>2. TypeOK'
    BY <1>3, JobType
  <2>3. /\ PlaceInv' /\ KeyLockInv' /\ ListInv' /\ PruneInv' /\ LiveInv'
        /\ \A i \in Job : status'[i] \in Live => i \in permits'
        /\ \A i \in Job : Referenced(i)' => i = j \/ Referenced(i)
    BY <2>1, MakesKeep
  <2>4. Cardinality(InUse') <= MaxPermits
    BY <2>1, <2>2, <2>3, OneMoreInUse, SameInUse
  <2> QED BY <2>2, <2>3, <2>4 DEF HlsInv, PermitInv
<1>4. ASSUME Settling
      PROVE  HlsInv'
  <2>1. Settles /\ permits' \subseteq permits /\ TypeOK'
    BY <1>4, SettleSteps, SettlingType DEF Settles
  <2>2. Cardinality(InUse') <= MaxPermits
    BY <2>1, SettlesKeep, FewerInUse
  <2> QED BY <2>1, <2>2, SettlesKeep DEF HlsInv, PermitInv
<1>5. ASSUME Prune
      PROVE  HlsInv'
  <2>1. permits' \subseteq permits /\ TypeOK'
    BY <1>5, PruneType DEF Prune, PruneNext, PruneDecide, PruneTake, PruneKilled, PruneRemove,
       jobVars
  <2>2. Cardinality(InUse') <= MaxPermits
    BY <1>5, <2>1, PruneKeeps, PruneRemoveKeeps, FewerInUse DEF Prune
  <2> QED BY <1>5, <2>1, <2>2, PruneKeeps, PruneRemoveKeeps DEF HlsInv, PermitInv, Prune
<1> QED BY <1>1, <1>2, <1>3, <1>4, <1>5 DEF Next, Serve, Simple, Settling

(* The inductive invariant: who starts a transcode has the key's lock and  *)
(* an empty place in the map, a live ffmpeg is in that place or on its way *)
(* there, and the pruner empties it only of what is over.                  *)
THEOREM HlsCorrect == Spec => []HlsInv
<1> QED BY InitHls, NextHls, PTL DEF Spec

(* Jobs, requests, the pruner and files are well formed for any number of  *)
(* keys, requests, permits and jobs; a child's lock is held across an      *)
(* await only by a refresh or a kill (refresh_hls_job_state).              *)
THEOREM TypeCorrect == Spec => []TypeOK
<1>1. HlsInv => TypeOK
  BY DEF HlsInv
<1> QED BY <1>1, HlsCorrect, PTL

(* ensure_hls_transcode_job and prune_idle_hls_jobs: a title is transcoded *)
(* by one ffmpeg at a time.                                                *)
THEOREM OneTranscode == Spec => []OneTranscodePerKey
<1>1. HlsInv => OneTranscodePerKey
  <2> SUFFICES ASSUME HlsInv, NEW i \in Job, NEW j \in Job, Alive(i), Alive(j), key[i] = key[j]
               PROVE  i = j
    BY DEF OneTranscodePerKey
  <2> USE DEF HlsInv
  <2>1. Listed(i) \/ Brought(i)
    BY DEF LiveInv, Alive, Live, Running
  <2>2. Listed(j) \/ Brought(j)
    BY DEF LiveInv, Alive, Live, Running
  <2>3. ASSUME NEW h \in Job, Listed(h)
        PROVE  key[h] \in Key /\ listed[key[h]] = h
    BY <2>3, JobFacts DEF Listed, ListInv
  <2>4. ASSUME NEW h \in Job, NEW r \in Request, At(r, {"insert"}), request[r].job = h
        PROVE  At(r, Locked) /\ key[h] = request[r].key /\ listed[key[h]] = NoJob
    BY <2>4 DEF PlaceInv, At, Locked
  <2>5. CASE Listed(i) /\ Listed(j)
    BY <2>3, <2>5
  <2>6. CASE Brought(i) /\ Brought(j)
    BY <2>4, <2>6 DEF Brought, KeyLockInv
  <2>7. CASE (Listed(i) /\ Brought(j)) \/ (Listed(j) /\ Brought(i))
    BY <2>3, <2>4, <2>7, JobFacts DEF Brought
  <2> QED BY <2>1, <2>2, <2>5, <2>6, <2>7
<1> QED BY <1>1, HlsCorrect, PTL

(* HLS_MAX_TRANSCODE_JOBS bounds the ffmpeg processes: none runs without   *)
(* its permit, whoever refreshes, kills or forgets its job.                *)
THEOREM Permits == Spec => []TranscodesHavePermits
<1>1. HlsInv => TranscodesHavePermits
  <2> SUFFICES ASSUME HlsInv
               PROVE  TranscodesHavePermits
    OBVIOUS
  <2>1. \A j \in Job : Alive(j) => j \in InUse
    BY DEF HlsInv, PermitInv, Alive, Live, InUse, Referenced, Running
  <2> QED BY <2>1 DEF HlsInv, PermitInv, TranscodesHavePermits
<1> QED BY <1>1, HlsCorrect, PTL
=============================================================================
