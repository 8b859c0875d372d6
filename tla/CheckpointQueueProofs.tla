----------------------- MODULE CheckpointQueueProofs -----------------------
(***************************************************************************)
(* Theorems about CheckpointQueue, for any titles, retry budget, number of *)
(* snapshots and of flushes.                                               *)
(***************************************************************************)
EXTENDS CheckpointQueue, TLAPS

-----------------------------------------------------------------------------
(* What NothingForgotten rests on.                                         *)

(* The maps q, u and n: what waits to be acknowledged is the newest        *)
(* snapshot of its title, and what is newest waits, until both tables have *)
(* it; nothing else takes its place in the queue.                          *)
Kept(q, u, n) ==
    \A t \in Title :
        /\ u[t] \in {0, n[t]}
        /\ n[t] # 0 => /\ u[t] = n[t] \/ \A p \in Path : server[p][t] >= n[t]
                       /\ q[t] \in {0, n[t]}

(* The snapshot in flight is the newest of its title, or the newest waits  *)
(* in q: else a retry would take its place.  A pair of an older generation *)
(* is not retried.                                                         *)
InFlight(q, n) ==
    LET t == active.title IN
    active # NoActive /\ active.generation = generation
        => n[t] \in {0, active.version, q[t]}

(* What was acknowledged is in its table: the first request of the pair,   *)
(* and requests of a flush.                                                *)
AnsweredInv ==
    /\ active.path = "continue" => server["progress"][active.title] >= active.version
    /\ \A f \in flushing, p \in Path :
          p \notin f.left => server[p][f.title] >= f.version

KeptInv == Kept(queued, unsynced, newest)
FlightInv == InFlight(queued, newest)
QueueInv == TypeOK /\ KeptInv /\ FlightInv /\ AnsweredInv

-----------------------------------------------------------------------------
(* The operators on maps and the call of drain.                            *)

Maps == [Title -> 0..made]
Actives == {NoActive} \cup
    [title : Title, version : 1..made, path : Path, generation : 0..generation]
Requests == [title : Title, version : 1..made, path : Path]

(* queued.clear(); unsynced.clear(): nothing is left to be kept.           *)
LEMMA DiscardKeeps ==
    ASSUME TypeOK, made' \in Nat, Discard
    PROVE  {queued', unsynced', newest'} \subseteq Maps' /\ KeptInv' /\ FlightInv'
BY DEF Discard, Nothing, Maps, KeptInv, Kept, FlightInv, InFlight, TypeOK

(* Whatever consistent maps drain finds, it leaves consistent maps, and    *)
(* what it takes from the queue is the newest snapshot of its title.       *)
LEMMA DrainKeeps ==
    ASSUME TypeOK, made' \in Nat, made' >= made, UNCHANGED <<generation, server>>,
           NEW q \in Maps', NEW u \in Maps', NEW n \in Maps',
           Kept(q, u, n), Drain(q, u, n)
    PROVE  /\ {queued', unsynced', newest'} \subseteq Maps' /\ active' \in Actives'
           /\ sent' \subseteq Requests' /\ KeptInv' /\ FlightInv'
           /\ active'.path # "continue"
<1>1. sent \subseteq Requests' /\ generation \in Nat
  BY DEF TypeOK, Requests
<1>2. CASE ~owns /\ Discard /\ active' = NoActive /\ UNCHANGED sent
  BY <1>1, <1>2, DiscardKeeps DEF Actives, NoActive
<1>3. CASE owns /\ q = Nothing /\ Keep(q, u, n) /\ active' = NoActive /\ UNCHANGED sent
  <2>1. queued' = q /\ unsynced' = u /\ newest' = n
    BY <1>3 DEF Keep
  <2>2. KeptInv'
    BY <2>1 DEF KeptInv, Kept
  <2>3. FlightInv' /\ active'.path # "continue"
    BY <1>3 DEF FlightInv, InFlight, NoActive
  <2> QED BY <1>1, <1>3, <2>1, <2>2, <2>3 DEF Actives
<1>4. ASSUME owns, NEW t \in Title, q[t] # 0, Keep(With(q, t, 0), u, n),
             active' = Snapshot(t, q[t], "progress", generation),
             Send(Request(t, q[t], {"progress"}))
      PROVE  /\ {queued', unsynced', newest'} \subseteq Maps' /\ active' \in Actives'
             /\ sent' \subseteq Requests' /\ KeptInv' /\ FlightInv'
             /\ active'.path # "continue"
  <2>1. /\ queued' = [q EXCEPT ![t] = 0] /\ unsynced' = u /\ newest' = n
        /\ queued' \in Maps'
    BY <1>4 DEF Keep, With, Maps
  <2>2. q[t] \in 1..made'
    BY <1>4 DEF Maps
  <2>3. active' \in Actives' /\ sent' \subseteq Requests'
    BY <1>1, <1>4, <2>2 DEF Actives, Requests, Snapshot, Send, Request, Path
  <2>4. KeptInv'
    BY <2>1 DEF KeptInv, Kept, Maps
  <2>5. FlightInv' /\ active'.path # "continue"
    BY <1>4, <2>1 DEF FlightInv, InFlight, Snapshot, Kept
  <2> QED BY <2>1, <2>3, <2>4, <2>5
<1> QED BY <1>2, <1>3, <1>4 DEF Drain

(* The retry of the pair in flight, the removal of what was acknowledged   *)
(* or rejected, and the merge of retryPending stay among the versions made.*)
LEMMA MapsType ==
    ASSUME made \in Nat, NEW m \in Maps, NEW t \in Title, NEW v
    PROVE  Without(m, t, v) \in Maps /\ \A k \in 0..made : With(m, t, k) \in Maps
BY DEF Without, With, Maps

(* A pair in flight ends with a call of drain, or nothing (finally).       *)
LEMMA FinishKeeps ==
    ASSUME TypeOK, UNCHANGED <<generation, server, made>>,
           NEW q \in Maps, NEW u \in Maps, NEW n \in Maps,
           Kept(q, u, n), Finish(q, u, n)
    PROVE  /\ {queued', unsynced', newest'} \subseteq Maps /\ active' \in Actives
           /\ sent' \subseteq Requests /\ KeptInv' /\ FlightInv'
           /\ active'.path # "continue"
<1>1. made \in Nat /\ Maps' = Maps /\ Actives' = Actives /\ Requests' = Requests
  BY DEF TypeOK, Maps, Actives, Requests
<1>2. CASE disposed
  <2>1. /\ queued' = q /\ unsynced' = u /\ newest' = n
        /\ active' = NoActive /\ sent' = sent
    BY <1>2 DEF Finish, Keep
  <2>2. KeptInv'
    BY <2>1 DEF KeptInv, Kept
  <2> QED BY <2>1, <2>2 DEF Actives, Requests, TypeOK, FlightInv, InFlight, NoActive
<1>3. CASE ~disposed
  BY <1>1, <1>3, DrainKeeps DEF Finish
<1> QED BY <1>2, <1>3

-----------------------------------------------------------------------------
(* One lemma for each group of steps.                                      *)

(* TypeOK and AnsweredInv need only this of a step that makes no snapshot, *)
(* touches neither the server nor what a flush has sent, and leaves a retry*)
(* set only with nothing in flight.                                        *)
LEMMA StepType ==
    ASSUME QueueInv, UNCHANGED <<made, server, flushing, generation>>,
           owns' \in BOOLEAN, disposed' \in BOOLEAN, retryTimer' \in BOOLEAN,
           attempt' \in 0..MaxRetries,
           {queued', unsynced', newest'} \subseteq Maps, active' \in Actives,
           sent' \subseteq Requests, retryTimer' => active' = NoActive,
           active'.path = "continue" => server["progress"][active'.title] >= active'.version
    PROVE  TypeOK' /\ AnsweredInv'
BY DEF QueueInv, TypeOK, AnsweredInv, Maps, Actives, Requests

(* The answers to the pair in flight: the second request follows the       *)
(* first, what both tables have is forgotten, what failed is queued again  *)
(* unless a newer snapshot is (drain).                                     *)
LEMMA AnsweredKeeps ==
    ASSUME QueueInv, Answered
    PROVE  QueueInv'
<1> USE QueueAssumption
<1> DEFINE t == active.title
           v == active.version
<1>1. /\ TypeOK /\ KeptInv /\ FlightInv /\ AnsweredInv /\ made \in Nat
      /\ queued \in Maps /\ unsynced \in Maps /\ newest \in Maps
      /\ active \in Actives /\ sent \subseteq Requests /\ Kept(queued, unsynced, newest)
  BY DEF QueueInv, TypeOK, Maps, Actives, Requests, KeptInv
<1>2. Maps' = Maps /\ Actives' = Actives /\ Requests' = Requests
  BY DEF Answered, FirstAcknowledged, PairAcknowledged, Fail, Reject, Maps, Actives, Requests
<1>3. active # NoActive /\ ~retryTimer /\ t \in Title /\ v \in 1..made
  BY <1>1 DEF Answered, FirstAcknowledged, PairAcknowledged, Fail, Reject, Answers, Actives,
              NoActive, Path, TypeOK
<1>4. CASE FirstAcknowledged
  <2>0. UNCHANGED <<owns, disposed, retryTimer, attempt, generation, flushing, server, made>>
    BY <1>4 DEF FirstAcknowledged
  <2>1. CASE Discard /\ active' = NoActive /\ UNCHANGED sent
    <3>1. {queued', unsynced', newest'} \subseteq Maps /\ KeptInv' /\ FlightInv'
      BY <1>1, <1>2, <2>0, <2>1, DiscardKeeps
    <3>2. TypeOK' /\ AnsweredInv'
      BY <1>1, <1>3, <2>0, <2>1, <3>1, StepType DEF TypeOK, NoActive, Actives
    <3> QED BY <3>1, <3>2 DEF QueueInv
  <2>2. CASE Finish(queued, unsynced, newest)
    <3>1. /\ {queued', unsynced', newest'} \subseteq Maps /\ active' \in Actives
          /\ sent' \subseteq Requests /\ KeptInv' /\ FlightInv'
          /\ active'.path # "continue"
      BY <1>1, <2>0, <2>2, FinishKeeps
    <3>2. TypeOK' /\ AnsweredInv'
      BY <1>3, <2>0, <3>1, StepType DEF TypeOK, QueueInv
    <3> QED BY <3>1, <3>2 DEF QueueInv
  <2>3. CASE /\ generation = active.generation
             /\ active' = Snapshot(t, v, "continue", generation)
             /\ Send(Request(t, v, {"continue"})) /\ UNCHANGED maps
    <3>1. server["progress"][t] >= v
      BY <1>4 DEF FirstAcknowledged, Answers
    <3>2. active' \in Actives /\ sent' \subseteq Requests
      BY <1>1, <1>3, <2>3 DEF Snapshot, Send, Request, Actives, Requests, Path, TypeOK
    <3>3. TypeOK' /\ AnsweredInv'
      BY <1>1, <1>3, <2>0, <2>3, <3>1, <3>2, StepType DEF TypeOK, Snapshot, maps
    <3>4. KeptInv' /\ FlightInv'
      BY <1>1, <1>3, <2>0, <2>3 DEF KeptInv, Kept, FlightInv, InFlight, Snapshot, maps
    <3> QED BY <3>3, <3>4 DEF QueueInv
  <2> QED BY <1>4, <2>1, <2>2, <2>3 DEF FirstAcknowledged
<1>5. CASE PairAcknowledged
  <2>0. UNCHANGED <<owns, disposed, retryTimer, generation, flushing, server, made>>
    BY <1>5 DEF PairAcknowledged
  <2>1. \A p \in Path : server[p][t] >= v
    BY <1>1, <1>5 DEF PairAcknowledged, Answers, AnsweredInv, Path
  <2> DEFINE u == Acknowledged(unsynced, t, v)
  <2>2. u \in Maps
    BY <1>1, <1>3, MapsType DEF Acknowledged
  <2>3. Kept(queued, u, newest)
    BY <1>1, <1>3, <2>1 DEF Kept, Acknowledged, Without, Maps
  <2>4. /\ {queued', unsynced', newest'} \subseteq Maps /\ active' \in Actives
        /\ sent' \subseteq Requests /\ KeptInv' /\ FlightInv'
        /\ active'.path # "continue"
    BY <1>1, <1>5, <2>0, <2>2, <2>3, FinishKeeps DEF PairAcknowledged
  <2>5. TypeOK' /\ AnsweredInv'
    BY <1>3, <1>5, <2>0, <2>4, StepType DEF TypeOK, QueueInv, PairAcknowledged
  <2> QED BY <2>4, <2>5 DEF QueueInv
<1>6. CASE Fail
  <2>0. UNCHANGED <<owns, disposed, generation, flushing, server, made>>
    BY <1>6 DEF Fail
  <2>1. CASE /\ Current /\ attempt < MaxRetries
             /\ Keep(Requeued, unsynced, newest)
             /\ retryTimer' = TRUE /\ attempt' = attempt + 1
             /\ active' = NoActive /\ UNCHANGED sent
    <3>1. newest[t] \in {0, v, queued[t]}
      BY <1>1, <1>3, <2>1 DEF Current, FlightInv, InFlight
    <3>2. queued' = Requeued /\ unsynced' = unsynced /\ newest' = newest /\ Requeued \in Maps
      BY <1>1, <1>3, <2>1, MapsType DEF Keep, Requeued
    <3>3. KeptInv'
      BY <1>1, <1>3, <2>0, <3>1, <3>2 DEF KeptInv, Kept, Requeued, With, Maps
    <3>4. FlightInv'
      BY <2>1 DEF FlightInv, InFlight
    <3>5. TypeOK' /\ AnsweredInv'
      BY <1>1, <2>0, <2>1, <3>2, StepType DEF TypeOK, NoActive, Actives
    <3> QED BY <3>3, <3>4, <3>5 DEF QueueInv
  <2>2. CASE /\ Finish(queued, unsynced, newest)
             /\ retryTimer' = retryTimer /\ attempt' \in {0, attempt}
    <3>1. /\ {queued', unsynced', newest'} \subseteq Maps /\ active' \in Actives
          /\ sent' \subseteq Requests /\ KeptInv' /\ FlightInv'
          /\ active'.path # "continue"
      BY <1>1, <2>0, <2>2, FinishKeeps
    <3>2. TypeOK' /\ AnsweredInv'
      BY <1>3, <2>0, <2>2, <3>1, StepType DEF TypeOK, QueueInv
    <3> QED BY <3>1, <3>2 DEF QueueInv
  <2> QED BY <1>6, <2>1, <2>2 DEF Fail
<1>7. CASE Reject
  <2>0. UNCHANGED <<owns, disposed, retryTimer, generation, flushing, server, made>>
        /\ attempt' \in {0, attempt}
    BY <1>7 DEF Reject
  <2> DEFINE u == Without(unsynced, t, v)
             n == IF unsynced[t] = v THEN Without(newest, t, v) ELSE newest
  <2>1. u \in Maps /\ n \in Maps
    BY <1>1, <1>3, MapsType
  <2>2. Kept(queued, u, n)
    BY <1>1, <1>3 DEF Kept, Without, Maps
  <2>3. /\ {queued', unsynced', newest'} \subseteq Maps /\ active' \in Actives
        /\ sent' \subseteq Requests /\ KeptInv' /\ FlightInv'
        /\ active'.path # "continue"
    <3>1. CASE Finish(queued, u, n)
      BY <1>1, <2>0, <2>1, <2>2, <3>1, FinishKeeps
    <3>2. CASE Finish(queued, unsynced, newest)
      BY <1>1, <2>0, <3>2, FinishKeeps
    <3> QED BY <1>7, <3>1, <3>2 DEF Reject
  <2>4. TypeOK' /\ AnsweredInv'
    BY <1>3, <2>0, <2>3, StepType DEF TypeOK, QueueInv
  <2> QED BY <2>3, <2>4 DEF QueueInv
<1> QED BY <1>4, <1>5, <1>6, <1>7 DEF Answered

(* A new snapshot takes its title's place in the queue; with nothing in    *)
(* flight and no retry set it is sent at once (enqueue).                   *)
LEMMA EnqueueKeeps ==
    ASSUME QueueInv, NEW t \in Title, Enqueue(t)
    PROVE  QueueInv'
<1> USE QueueAssumption
<1> DEFINE v == made + 1
           q == With(queued, t, v)
           u == With(unsynced, t, v)
           n == With(newest, t, v)
<1>0. /\ UNCHANGED <<owns, disposed, retryTimer, attempt, generation, flushing, server>>
      /\ TypeOK /\ KeptInv /\ FlightInv /\ AnsweredInv /\ made \in Nat /\ made < MaxSaves
  BY DEF Enqueue, QueueInv, TypeOK
<1>1. CASE ~owns /\ Discard /\ UNCHANGED <<active, sent, made>>
  <2>1. {queued', unsynced', newest'} \subseteq Maps' /\ KeptInv' /\ FlightInv'
    BY <1>0, <1>1, DiscardKeeps
  <2>2. TypeOK' /\ AnsweredInv'
    BY <1>0, <1>1, <2>1 DEF TypeOK, AnsweredInv, Maps
  <2> QED BY <2>1, <2>2 DEF QueueInv
<1>2. CASE owns /\ made' = v /\ TryDrain(q, u, n, retryTimer)
  <2>1. q \in Maps' /\ u \in Maps' /\ n \in Maps' /\ made' \in 0..MaxSaves
    BY <1>0, <1>2 DEF TypeOK, Maps, With
  <2>2. Kept(q, u, n)
    BY <1>0, <2>1 DEF KeptInv, Kept, With, TypeOK
  <2>3. /\ {queued', unsynced', newest'} \subseteq Maps' /\ active' \in Actives'
        /\ sent' \subseteq Requests' /\ KeptInv' /\ FlightInv'
        /\ \/ active' = active
           \/ active'.path # "continue" /\ ~retryTimer
    <3>1. CASE active # NoActive \/ retryTimer
      <4>1. /\ queued' = q /\ unsynced' = u /\ newest' = n
            /\ active' = active /\ sent' = sent
        BY <1>2, <3>1 DEF TryDrain, Keep
      <4>2. active' \in Actives' /\ sent' \subseteq Requests'
        BY <1>0, <1>2, <4>1 DEF TypeOK, Actives, Requests
      <4>3. KeptInv'
        BY <1>0, <2>2, <4>1 DEF KeptInv, Kept
      <4>4. FlightInv'
        BY <1>0, <4>1 DEF FlightInv, InFlight, With, TypeOK
      <4> QED BY <2>1, <4>1, <4>2, <4>3, <4>4
    <3>2. CASE active = NoActive /\ ~retryTimer
      BY <1>0, <1>2, <2>1, <2>2, <3>2, DrainKeeps DEF TryDrain
    <3> QED BY <3>1, <3>2
  <2>4. TypeOK' /\ AnsweredInv'
    BY <1>0, <1>2, <2>1, <2>3 DEF TypeOK, AnsweredInv, Maps, Actives, Requests
  <2> QED BY <2>3, <2>4 DEF QueueInv
<1> QED BY <1>1, <1>2 DEF Enqueue

(* What is not acknowledged is queued again, but for the snapshot in       *)
(* flight (retryPending); the retry timer drains the queue.                *)
LEMMA RetryKeeps ==
    ASSUME QueueInv, RetryPending \/ TimerFires
    PROVE  QueueInv'
<1> USE QueueAssumption
<1> DEFINE Keeps ==
        /\ {queued', unsynced', newest'} \subseteq Maps /\ active' \in Actives
        /\ sent' \subseteq Requests /\ KeptInv' /\ FlightInv'
        /\ \/ active' = active
           \/ active'.path # "continue" /\ ~retryTimer'
<1>a. /\ UNCHANGED <<owns, disposed, generation, flushing, server, made>>
      /\ (retryTimer' = FALSE \/ retryTimer' = retryTimer) /\ attempt' \in {0, attempt}
  BY DEF RetryPending, TimerFires, ClearRetry
<1>b. /\ TypeOK /\ KeptInv /\ FlightInv /\ AnsweredInv /\ made \in Nat
      /\ queued \in Maps /\ unsynced \in Maps /\ newest \in Maps
      /\ active \in Actives /\ sent \subseteq Requests
  BY DEF QueueInv, TypeOK, Maps, Actives, Requests
<1>c. Maps' = Maps /\ Actives' = Actives /\ Requests' = Requests
  BY <1>a DEF Maps, Actives, Requests
<1>0. /\ UNCHANGED <<owns, disposed, generation, flushing, server, made>>
      /\ TypeOK /\ KeptInv /\ FlightInv /\ AnsweredInv /\ made \in Nat
      /\ queued \in Maps /\ unsynced \in Maps /\ newest \in Maps
      /\ active \in Actives /\ sent \subseteq Requests
      /\ Maps' = Maps /\ Actives' = Actives /\ Requests' = Requests
  BY <1>a, <1>b, <1>c
<1>1. ASSUME RetryPending, ~owns PROVE Keeps
  BY <1>0, <1>1, DiscardKeeps DEF RetryPending
<1>2. ASSUME RetryPending, owns PROVE Keeps
  <2>1. Pending \in Maps
    BY <1>0 DEF Pending, Maps
  <2>2. Kept(Pending, unsynced, newest)
    BY <1>0 DEF KeptInv, Kept, Pending, Maps
  <2>3. ~retryTimer' /\ TryDrain(Pending, unsynced, newest, FALSE)
    BY <1>2 DEF RetryPending, ClearRetry
  <2>4. CASE active # NoActive
    <3>1. /\ queued' = Pending /\ unsynced' = unsynced /\ newest' = newest
          /\ active' = active /\ sent' = sent
      BY <2>3, <2>4 DEF TryDrain, Keep
    <3>2. KeptInv'
      BY <1>0, <2>2, <3>1 DEF KeptInv, Kept
    <3>3. FlightInv'
      BY <1>0, <2>4, <3>1 DEF FlightInv, InFlight, Pending, Actives, KeptInv, Kept, IsActive
    <3> QED BY <1>0, <2>1, <3>1, <3>2, <3>3
  <2>5. CASE active = NoActive
    BY <1>0, <2>1, <2>2, <2>3, <2>5, DrainKeeps DEF TryDrain
  <2> QED BY <2>4, <2>5
<1>3. ASSUME TimerFires PROVE Keeps
  BY <1>0, <1>3, DrainKeeps DEF TimerFires, KeptInv
<1>4. Keeps
  BY <1>1, <1>2, <1>3
<1>5. TypeOK' /\ AnsweredInv'
  <2>1. retryTimer' => active' = NoActive
    BY <1>a, <1>b, <1>4 DEF TypeOK
  <2>2. owns' \in BOOLEAN /\ disposed' \in BOOLEAN /\ retryTimer' \in BOOLEAN
    BY <1>a, <1>b DEF TypeOK
  <2>4. attempt' \in 0..MaxRetries
    BY <1>a, <1>b DEF TypeOK
  <2>3. active'.path = "continue" => server["progress"][active'.title] >= active'.version
    BY <1>b, <1>4 DEF AnsweredInv
  <2> QED BY <1>a, <1>4, <2>1, <2>2, <2>3, <2>4, StepType
<1> QED BY <1>4, <1>5 DEF QueueInv

(* Leaving the page: the queue is emptied, but what is not acknowledged is *)
(* kept, and the pair in flight gets old (flushForExit, dispose).          *)
LEMMA LeaveKeeps ==
    ASSUME QueueInv, FlushForExit \/ Dispose
    PROVE  QueueInv'
<1> USE QueueAssumption
<1>a. /\ UNCHANGED <<owns, active, attempt, server, made>>
      /\ generation' = generation + 1 /\ generation < MaxGeneration /\ ~retryTimer'
      /\ retryTimer' = FALSE /\ (disposed' = disposed \/ disposed' = TRUE)
  BY DEF FlushForExit, Dispose, Dispatch
<1>b. TypeOK /\ KeptInv /\ FlightInv /\ AnsweredInv /\ made \in Nat /\ generation \in Nat
  BY DEF QueueInv, TypeOK
<1>c. generation' \in 0..MaxGeneration /\ disposed' \in BOOLEAN /\ Maps' = Maps
  <2>1. disposed' \in BOOLEAN
    BY <1>a, <1>b DEF TypeOK
  <2> QED BY <1>a, <1>b, <2>1 DEF TypeOK, Maps
<1>0. /\ UNCHANGED <<owns, active, attempt, server, made>>
      /\ TypeOK /\ KeptInv /\ FlightInv /\ AnsweredInv /\ made \in Nat
      /\ generation' = generation + 1 /\ generation' \in 0..MaxGeneration /\ ~retryTimer'
      /\ retryTimer' = FALSE /\ disposed' \in BOOLEAN /\ Maps' = Maps /\ generation \in Nat
  BY <1>a, <1>b, <1>c
<1>1. /\ \A f \in flushing' \ flushing : f.left = Path
      /\ flushing' \subseteq [title : Title, version : 1..made, left : (SUBSET Path) \ {{}},
                            generation : 1..generation']
      /\ sent' \subseteq Requests
  <2>1. \A f \in Flushed :
           /\ f.title \in Title /\ f.version \in 1..made /\ f.left = Path
           /\ f.generation = generation'
           /\ f = [title |-> f.title, version |-> f.version, left |-> f.left,
                   generation |-> f.generation]
    BY <1>0 DEF Flushed, TypeOK
  <2>2. Path \in (SUBSET Path) \ {{}}
    BY DEF Path
  <2>3. \A f \in Flushed : Request(f.title, f.version, Path) \subseteq Requests
    BY <2>1 DEF Request, Requests
  <2>4. Flushed \subseteq [title : Title, version : 1..made, left : (SUBSET Path) \ {{}},
                         generation : 1..generation']
    BY <1>0, <2>1, <2>2
  <2>5. CASE owns
    BY <1>0, <2>1, <2>3, <2>4, <2>5
       DEF FlushForExit, Dispose, Dispatch, Send, TypeOK, Requests
  <2>6. CASE ~owns
    BY <1>0, <2>6 DEF FlushForExit, Dispose, Dispatch, TypeOK, Requests
  <2> QED BY <1>0, <2>5, <2>6 DEF TypeOK
<1>2. {queued', unsynced', newest'} \subseteq Maps /\ KeptInv'
  <2>1. CASE Discard
    BY <1>0, <2>1, DiscardKeeps
  <2>2. CASE queued' = Nothing /\ UNCHANGED <<unsynced, newest>>
    BY <1>0, <2>2 DEF Nothing, Maps, KeptInv, Kept, TypeOK
  <2> QED BY <2>1, <2>2 DEF FlushForExit, Dispose
<1>3. FlightInv'
  BY <1>0 DEF FlightInv, InFlight, TypeOK
<1>4. AnsweredInv'
  BY <1>0, <1>1 DEF AnsweredInv
<1>5. TypeOK'
  <2>1. owns' \in BOOLEAN /\ disposed' \in BOOLEAN /\ retryTimer' \in BOOLEAN
    BY <1>0 DEF TypeOK
  <2>2. active' \in Actives'
    BY <1>0 DEF TypeOK, Actives
  <2> QED BY <1>0, <1>1, <1>2, <2>1, <2>2 DEF TypeOK, Maps, Requests, Actives
<1> QED BY <1>2, <1>3, <1>4, <1>5 DEF QueueInv

(* The answers to what a flush has sent: forgotten is only the snapshot    *)
(* that both tables have.                                                  *)
LEMMA FlushEndsKeeps ==
    ASSUME QueueInv, NEW f \in flushing,
           (\E p \in Path : FlushAcknowledged(f, p)) \/ FlushFails(f)
    PROVE  QueueInv'
<1> USE QueueAssumption
<1>0. /\ UNCHANGED <<owns, disposed, queued, active, retryTimer, attempt, generation,
                    sent, server, made, newest>>
      /\ TypeOK /\ KeptInv /\ FlightInv /\ AnsweredInv
  BY DEF FlushAcknowledged, FlushFails, maps, QueueInv
<1>1. FlightInv'
  BY <1>0 DEF FlightInv, InFlight
<1>2. CASE FlushFails(f)
  BY <1>0, <1>1, <1>2
     DEF FlushFails, QueueInv, TypeOK, KeptInv, Kept, AnsweredInv, maps
<1>3. ASSUME NEW p \in Path, FlushAcknowledged(f, p)
      PROVE  QueueInv'
  <2>0. /\ f.title \in Title /\ f.version \in 1..made /\ f.generation \in 1..generation
        /\ f.left \in SUBSET Path /\ server[p][f.title] >= f.version
    BY <1>0, <1>3 DEF FlushAcknowledged, TypeOK
  <2>1. CASE f.left = {p}
    <3>1. /\ flushing' = flushing \ {f}
          /\ unsynced' = Without(unsynced, f.title, f.version)
      BY <1>3, <2>1 DEF FlushAcknowledged, Acknowledged
    <3>2. \A o \in Path : server[o][f.title] >= f.version
      BY <1>0, <2>0, <2>1 DEF AnsweredInv
    <3>3. KeptInv'
      BY <1>0, <2>0, <3>1, <3>2 DEF KeptInv, Kept, Without, TypeOK
    <3>4. TypeOK' /\ AnsweredInv'
      BY <1>0, <2>0, <3>1 DEF TypeOK, AnsweredInv, Without
    <3> QED BY <1>1, <3>3, <3>4 DEF QueueInv
  <2>2. CASE f.left # {p}
    <3> DEFINE g == [title |-> f.title, version |-> f.version, left |-> f.left \ {p},
                     generation |-> f.generation]
    <3>1. flushing' = (flushing \ {f}) \cup {g} /\ unsynced' = unsynced /\ p \in f.left
      BY <1>3, <2>2 DEF FlushAcknowledged
    <3>2. f.left \ {p} \in (SUBSET Path) \ {{}}
      BY <2>0, <2>2, <3>1
    <3>3. \A o \in Path : o \notin g.left => server[o][g.title] >= g.version
      BY <1>0, <2>0 DEF AnsweredInv
    <3>4. TypeOK' /\ AnsweredInv'
      <4>1. g \in [title : Title, version : 1..made, left : (SUBSET Path) \ {{}},
                   generation : 1..generation]
        BY <2>0, <3>2
      <4>2. TypeOK'
        BY <1>0, <3>1, <4>1 DEF TypeOK
      <4>3. AnsweredInv'
        BY <1>0, <3>1, <3>3 DEF AnsweredInv
      <4> QED BY <4>2, <4>3
    <3>5. KeptInv'
      BY <1>0, <3>1 DEF KeptInv, Kept
    <3> QED BY <1>1, <3>4, <3>5 DEF QueueInv
  <2> QED BY <2>1, <2>2
<1> QED BY <1>2, <1>3

(* Requests arrive and tables only grow; the account of the page changes   *)
(* in another tab.                                                         *)
LEMMA EnvironmentKeeps ==
    ASSUME QueueInv, OwnerChanges \/ (\E m \in sent : Apply(m)) \/ UNCHANGED vars
    PROVE  QueueInv'
<1> USE QueueAssumption
<1>1. CASE OwnerChanges \/ UNCHANGED vars
  <2>1. /\ UNCHANGED <<disposed, queued, unsynced, newest, active, retryTimer, attempt,
                      generation, flushing, sent, server, made>>
        /\ owns' \in {owns, ~owns}
    BY <1>1 DEF OwnerChanges, vars, maps
  <2>2. TypeOK'
    BY <2>1 DEF QueueInv, TypeOK
  <2>3. KeptInv' /\ FlightInv' /\ AnsweredInv'
    BY <2>1 DEF QueueInv, KeptInv, Kept, FlightInv, InFlight, AnsweredInv
  <2> QED BY <2>2, <2>3 DEF QueueInv
<1>2. ASSUME NEW m \in sent, Apply(m)
      PROVE  QueueInv'
  <2>0. /\ UNCHANGED <<owns, disposed, queued, unsynced, newest, active, retryTimer, attempt,
                      generation, flushing, sent, made>>
        /\ TypeOK /\ KeptInv /\ FlightInv /\ AnsweredInv /\ made \in Nat
        /\ m.title \in Title /\ m.version \in 1..made /\ m.path \in Path
    BY <1>2 DEF Apply, maps, QueueInv, TypeOK
  <2>1. /\ server' \in [Path -> [Title -> 0..made]]
        /\ \A p \in Path, t \in Title : server'[p][t] >= server[p][t]
    BY <1>2, <2>0 DEF Apply, With, TypeOK
  <2>2. TypeOK'
    BY <2>0, <2>1 DEF TypeOK
  <2>3. KeptInv'
    BY <2>0, <2>1 DEF KeptInv, Kept, TypeOK
  <2>4. AnsweredInv'
    <3>1. active.path = "continue" => active.title \in Title /\ active.version \in 1..made
      BY <2>0 DEF TypeOK, NoActive
    <3>2. "progress" \in Path
      BY DEF Path
    <3>3. \A f \in flushing : f.title \in Title /\ f.version \in 1..made
      BY <2>0 DEF TypeOK
    <3> QED BY <2>0, <2>1, <3>1, <3>2, <3>3 DEF AnsweredInv, TypeOK
  <2>5. FlightInv'
    BY <2>0 DEF FlightInv, InFlight
  <2> QED BY <2>2, <2>3, <2>4, <2>5 DEF QueueInv
<1> QED BY <1>1, <1>2

-----------------------------------------------------------------------------
(* The inductive invariant and what follows from it (checkpoint-save.js).  *)
THEOREM QueueCorrect == Spec => []QueueInv
<1>1. Init => QueueInv
  <2>1. Init => TypeOK
    <3> SUFFICES ASSUME Init PROVE TypeOK
      OBVIOUS
    <3>1. /\ {queued, unsynced, newest} \subseteq [Title -> 0..made]
          /\ server \in [Path -> [Title -> 0..made]]
      BY DEF Init, Nothing
    <3>2. owns \in BOOLEAN /\ disposed \in BOOLEAN /\ retryTimer \in BOOLEAN
      BY DEF Init
    <3> QED BY QueueAssumption, <3>1, <3>2 DEF Init, TypeOK
  <2>2. Init => KeptInv /\ FlightInv /\ AnsweredInv
    BY DEF Init, KeptInv, Kept, FlightInv, InFlight, AnsweredInv, Nothing, NoActive
  <2> QED BY <2>1, <2>2 DEF QueueInv
<1>2. QueueInv /\ [Next]_vars => QueueInv'
  BY AnsweredKeeps, EnqueueKeeps, RetryKeeps, LeaveKeeps, FlushEndsKeeps, EnvironmentKeeps
     DEF Next
<1> QED BY <1>1, <1>2, PTL DEF Spec

(* Snapshots in the maps, in flight and sent are among those made, a pair  *)
(* is of a past or the present generation, and a retry waits only while    *)
(* nothing is in flight (drain, scheduleRetry).                            *)
THEOREM TypeCorrect == Spec => []TypeOK
<1>1. QueueInv => TypeOK
  BY DEF QueueInv
<1> QED BY <1>1, QueueCorrect, PTL

(* The newest snapshot of a title is known to the page until both tables   *)
(* hold it, whatever timers, flushes, retries and late answers of older    *)
(* ones do, and a retry never takes its place in the queue.                *)
THEOREM NothingLost == Spec => []NothingForgotten
<1>1. QueueInv => NothingForgotten
  BY DEF QueueInv, KeptInv, Kept, NothingForgotten
<1> QED BY <1>1, QueueCorrect, PTL

(* Nothing is sent while the page's account is not the one that is signed  *)
(* in: drain, its second request and flushForExit all look first.          *)
THEOREM OwnerSends == Spec => OnlyOwnerSends
<1>1. [Next]_vars => (sent' # sent => owns)
  <2> SUFFICES ASSUME Next, ~owns
               PROVE  sent' = sent
    BY DEF vars
  <2>1. ASSUME NEW q, NEW u, NEW n, Drain(q, u, n)
        PROVE  sent' = sent
    BY <2>1 DEF Drain
  <2>2. CASE \E t \in Title : Enqueue(t)
    BY <2>2 DEF Enqueue
  <2>3. CASE Answered
    <3>1. ASSUME NEW q, NEW u, NEW n, Finish(q, u, n)
          PROVE  sent' = sent
      BY <2>1, <3>1 DEF Finish
    <3> QED BY <2>3, <3>1 DEF Answered, FirstAcknowledged, PairAcknowledged, Fail, Reject
  <2>4. CASE TimerFires
    BY <2>1, <2>4 DEF TimerFires
  <2>5. CASE FlushForExit \/ Dispose
    BY <2>5 DEF FlushForExit, Dispose, Dispatch
  <2>6. CASE \E f \in flushing : (\E p \in Path : FlushAcknowledged(f, p)) \/ FlushFails(f)
    BY <2>6 DEF FlushAcknowledged, FlushFails
  <2>7. CASE RetryPending
    BY <2>7 DEF RetryPending
  <2>8. CASE OwnerChanges \/ \E m \in sent : Apply(m)
    BY <2>8 DEF OwnerChanges, Apply
  <2> QED BY <2>2, <2>3, <2>4, <2>5, <2>6, <2>7, <2>8 DEF Next
<1> QED BY <1>1, PTL DEF Spec, OnlyOwnerSends
=============================================================================
