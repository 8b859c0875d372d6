------------------------ MODULE ResolveClientProofs ------------------------
(***************************************************************************)
(* Theorems about ResolveClient, for any calls, retries, kinds of request  *)
(* and registrations.                                                      *)
(***************************************************************************)
EXTENDS ResolveClient, FiniteSetTheorems, SequenceTheorems, TLAPS

-----------------------------------------------------------------------------
(* What OneJobAtATime and NewestIsDelivered rest on.                       *)
Held == {"register", "poll", "giveup"}
Requesting == {"begun"} \cup Held
Working == {"begin", "direct", "sleep"} \cup Requesting

(* A call that is yet to come is nowhere, and only one that registers,     *)
(* polls or gives up has a job.                                            *)
PlaceInv ==
    /\ made <= MaxJobs
    /\ \A c \in Call : /\ c > asked => At(c, {"none"})
                       /\ ~At(c, Held) => call[c].job = None
    /\ step.at # "start" => step.job \in 1..made

(* A transition in the queue is that of a call that waits for it, once; if *)
(* the last one begins a request, its call is still wanted.                *)
QueueInv ==
    /\ \A n \in 1..Len(queue) :
         IF queue[n].by = None THEN ~queue[n].begins
         ELSE At(queue[n].by, IF queue[n].begins THEN {"begin"} ELSE {"cancelling"})
    /\ \A m, n \in 1..Len(queue) : queue[m].by = queue[n].by /\ queue[n].by # None => m = n
    /\ queue # <<>> /\ queue[Len(queue)].begins => queue[Len(queue)].by \notin aborted
    /\ step.at # "start" => queue # <<>> /\ current = None

(* The active call is the newest, and the only one that works unaborted.   *)
ActiveInv ==
    /\ active # None => At(active, Working) /\ newest = active
    /\ \A c \in Call :
         /\ At(c, Working) /\ c \notin aborted => active = c
         /\ At(c, {"none", "cancelling", "admitted"}) => c \notin aborted
         /\ newest = c /\ At(c, {"cancelling", "admitted"}) => active = None

(* The coordinator's request is the one that was not stopped; what was     *)
(* aborted and not stopped yet is so by a transition in the queue.         *)
CurrentInv ==
    /\ stopped \subseteq aborted
    /\ current # None => At(current, Requesting) /\ current \notin stopped
    /\ current \in aborted => queue # <<>> /\ step.at = "start"
    /\ \A c \in Call : At(c, Requesting) =>
         /\ c \notin stopped => current = c
         /\ c \notin aborted => queue = <<>>

(* A pending job is that of the coordinator's request or of the            *)
(* cancellation under way, or nobody answers for it.                       *)
Answered(j) == j \in deletes \/ server[j] = "over"
JobInv ==
    /\ \A j \in Pending \ lost :
         \/ current # None /\ At(current, Held) /\ call[current].job = j
         \/ step.at # "start" /\ step.job = j
    /\ step.at = "registration" =>
         Unregistered(step.job) \/ step.job \in known \/ step.job \notin Pending \ lost
    /\ step.at = "deletion" => step.job \in known /\ Answered(step.job)
    /\ \A c \in Call : At(c, {"giveup"}) => Answered(call[c].job)

ClientInv == TypeOK /\ PlaceInv /\ QueueInv /\ ActiveInv /\ CurrentInv /\ JobInv

-----------------------------------------------------------------------------
(* Calls and transitions.                                                  *)
Spot == [at : Places, kind : {"job", "short"}, left : Nat, job : Job \cup {None}]
Move == [by : Call \cup {None}, begins : BOOLEAN]

(* A call has a number of its own. *)
LEMMA Numbers == /\ None \notin Call /\ None \notin Job
                 /\ Call \subseteq Nat \ {0} /\ Job \subseteq Nat \ {0}
BY ClientAssumption DEF Call, Job, None

(* Call c gets to place p, all others stay. *)
Becomes(c, p) ==
    /\ call' \in [Call -> Spot]
    /\ call'[c] = p
    /\ \A d \in Call : d # c => call'[d] = call[d]

(* The four ways the code moves a call. *)
LEMMA Moved ==
    ASSUME TypeOK, NEW c \in Call, NEW p \in Spot, call' = [call EXCEPT ![c] = p]
    PROVE  Becomes(c, p)
BY DEF TypeOK, Becomes, Spot

LEMMA Gone ==
    ASSUME TypeOK, NEW c \in Call, NEW at \in Places, Goes(c, at)
    PROVE  Becomes(c, Place(at, call[c].kind, call[c].left, call[c].job))
<1>1. Place(at, call[c].kind, call[c].left, call[c].job) \in Spot
  BY DEF TypeOK, Place, Spot
<1> QED BY <1>1, Moved DEF Goes, TypeOK

LEMMA Ended ==
    ASSUME TypeOK, NEW c \in Call, NEW at \in Places, Ends(c, at)
    PROVE  Becomes(c, Place(at, "job", 0, None)) /\ active' = IF active = c THEN None ELSE active
<1>1. Place(at, "job", 0, None) \in Spot
  BY DEF Place, Spot
<1> QED BY <1>1, Moved DEF Ends

LEMMA Queued ==
    ASSUME TypeOK
    PROVE  queue \in Seq(Move) /\ \A n \in 1..Len(queue) : queue[n] \in Move
<1>1. queue \in Seq(Move)
  BY DEF TypeOK, Move
<1> QED BY <1>1

(* A transition at the end of the queue (enqueueTransition).               *)
LEMMA Enqueued ==
    ASSUME queue \in Seq(Move), NEW t \in Move, queue' = Append(queue, t)
    PROVE  /\ queue' \in Seq(Move) /\ queue' # <<>>
           /\ Len(queue') = Len(queue) + 1 /\ queue'[Len(queue')] = t
           /\ \A n \in 1..Len(queue) : queue'[n] = queue[n]
           /\ \A n \in 1..Len(queue') : n \in 1..Len(queue) \/ n = Len(queue')
OBVIOUS

(* The transitions behind the first. *)
LEMMA Dequeued ==
    ASSUME queue \in Seq(Move), queue # <<>>, queue' = Tail(queue)
    PROVE  /\ queue' \in Seq(Move) /\ Head(queue) = queue[1] /\ queue[1] \in Move
           /\ 1 \in 1..Len(queue) /\ Len(queue') = Len(queue) - 1
           /\ (queue' = <<>>) <=> (Len(queue) = 1)
           /\ \A n \in 1..Len(queue') : n + 1 \in 1..Len(queue) /\ queue'[n] = queue[n + 1]
<1>1. queue' \in Seq(Move) /\ Head(queue) = queue[1] /\ queue[1] \in Move
  OBVIOUS
<1>2. Len(queue) \in Nat \ {0} /\ Len(queue') = Len(queue) - 1
  OBVIOUS
<1>3. (queue' = <<>>) <=> (Len(queue') = 0)
  BY <1>1, EmptySeq
<1>4. \A n \in 1..Len(queue') : queue'[n] = queue[n + 1]
  OBVIOUS
<1> QED BY <1>1, <1>2, <1>3, <1>4

-----------------------------------------------------------------------------
(* A call that worked, or whose turn came too late, is over, or sleeps     *)
(* before its next attempt; the coordinator's request is not its own.      *)
Quits(c) ==
    /\ At(c, {"admitted"} \cup (Working \ {"begin"}))
    /\ \E p \in Spot :
         /\ p.at \in {"sleep", "delivered", "over"} /\ p.job = None /\ Becomes(c, p)
         /\ IF p.at = "sleep" THEN At(c, Working) /\ c \notin aborted /\ active' = active
            ELSE active' = IF active = c THEN None ELSE active
    /\ FinishRequest(c)
    /\ UNCHANGED <<requester, queue, step, stopped, made, deletes, server>>
    /\ known \subseteq known' /\ lost \subseteq lost' /\ known' \cup lost' \subseteq 1..made

LEMMA QuitStep ==
    ASSUME ClientInv, NEW c \in Call, Quits(c),
           At(c, Held) /\ current = c => call[c].job \notin Pending \ lost',
           At(c, {"register"}) => call[c].job \in known' \/ call[c].job \notin Pending \ lost'
    PROVE  ClientInv'
<1> USE Numbers
<1>0. PICK p \in Spot :
         /\ p.at \in {"sleep", "delivered", "over"} /\ p.job = None /\ Becomes(c, p)
         /\ IF p.at = "sleep" THEN At(c, Working) /\ c \notin aborted /\ active' = active
            ELSE active' = IF active = c THEN None ELSE active
  BY DEF Quits
<1>1. TypeOK'
  BY <1>0 DEF ClientInv, TypeOK, Quits, Becomes, FinishRequest, At, requester, Spot
<1>2. PlaceInv'
  <2>1. (\A d \in Call : d > asked => At(d, {"none"}))'
    BY <1>0 DEF ClientInv, PlaceInv, Quits, Becomes, At, requester, Working, Requesting, Held
  <2>2. (\A d \in Call : ~At(d, Held) => call[d].job = None)'
    BY <1>0 DEF ClientInv, PlaceInv, Quits, Becomes, At
  <2>3. (made <= MaxJobs)' /\ (step.at # "start" => step.job \in 1..made)'
    BY DEF ClientInv, PlaceInv, Quits
  <2> QED BY <2>1, <2>2, <2>3 DEF PlaceInv
<1>3. QueueInv'
  <2>1. \A n \in 1..Len(queue) : queue[n].by # c
    BY DEF ClientInv, QueueInv, Quits, At, Working, Requesting, Held
  <2>2. \A n \in 1..Len(queue) : queue[n].by \in Call \cup {None}
    BY Queued DEF ClientInv, Move
  <2> QED BY <1>0, <2>1, <2>2 DEF ClientInv, QueueInv, Quits, Becomes, At, requester, FinishRequest
<1>4. ActiveInv'
  <2>1. active' # None => At(active, Working)' /\ newest' = active'
    BY <1>0 DEF ClientInv, TypeOK, ActiveInv, Quits, Becomes, At, requester, Working
  <2>2. \A d \in Call : At(d, Working)' /\ d \notin aborted' => active' = d
    BY <1>0 DEF ClientInv, ActiveInv, Quits, Becomes, At, requester, Working, Requesting, Held
  <2>3. \A d \in Call :
         /\ At(d, {"none", "cancelling", "admitted"})' => d \notin aborted'
         /\ newest' = d /\ At(d, {"cancelling", "admitted"})' => active' = None
    BY <1>0 DEF ClientInv, ActiveInv, Quits, Becomes, At, requester
  <2> QED BY <2>1, <2>2, <2>3 DEF ActiveInv
<1>5. CurrentInv'
  BY <1>0 DEF ClientInv, TypeOK, CurrentInv, Quits, Becomes, At, requester, FinishRequest, Requesting, Held
<1>6. JobInv'
  <2>1. Pending' \ lost' \subseteq Pending \ lost /\ Pending' = Pending
    BY DEF Quits, Pending
  <2>2. \A j \in Pending' \ lost' :
         \/ current' # None /\ At(current, Held)' /\ call'[current'].job = j
         \/ step'.at # "start" /\ step'.job = j
    <3> SUFFICES ASSUME NEW j \in Pending' \ lost'
                 PROVE  \/ current' # None /\ At(current, Held)' /\ call'[current'].job = j
                        \/ step'.at # "start" /\ step'.job = j
      OBVIOUS
    <3>1. CASE step.at # "start" /\ step.job = j
      BY <3>1 DEF Quits
    <3>2. CASE current # None /\ At(current, Held) /\ call[current].job = j
      <4>1. current # c /\ current \in Call
        BY <3>2, <2>1 DEF ClientInv, TypeOK
      <4>2. current' = current /\ call'[current] = call[current]
        BY <4>1, <1>0 DEF Quits, FinishRequest, Becomes
      <4> QED BY <4>2, <3>2 DEF At
    <3> QED BY <3>1, <3>2, <2>1 DEF ClientInv, JobInv
  <2>3. step'.at = "registration" =>
         Unregistered(step.job)' \/ step'.job \in known' \/ step'.job \notin Pending' \ lost'
    BY <1>0, <2>1 DEF ClientInv, JobInv, Quits, Becomes, At, Unregistered
  <2>4. step'.at = "deletion" => step'.job \in known' /\ Answered(step.job)'
    BY DEF ClientInv, JobInv, Quits, Answered
  <2>5. \A d \in Call : At(d, {"giveup"})' => Answered(call[d].job)'
    BY <1>0 DEF ClientInv, JobInv, Quits, Becomes, At, Answered
  <2> QED BY <2>2, <2>3, <2>4, <2>5 DEF JobInv
<1> QED BY <1>1, <1>2, <1>3, <1>4, <1>5, <1>6 DEF ClientInv

(* The page learns the id of a job that its request is still for. *)
LEMMA PollStep ==
    ASSUME ClientInv, NEW c \in Call, At(c, {"register"}), c \notin aborted,
           known' = known \cup {call[c].job}, Goes(c, "poll"),
           UNCHANGED <<requester, active, coordinator, made, backend>>
    PROVE  ClientInv'
<1> USE Numbers
<1> DEFINE p == Place("poll", call[c].kind, call[c].left, call[c].job)
<1>0. Becomes(c, p) /\ p.at = "poll" /\ p.job = call[c].job
  BY Gone DEF ClientInv, Places, Place
<1> HIDE DEF p
<1> USE DEF requester, coordinator, backend
<1>1. TypeOK'
  BY <1>0 DEF ClientInv, TypeOK, Becomes, At, Spot
<1>2. PlaceInv'
  <2>1. (\A d \in Call : d > asked => At(d, {"none"}))'
    BY <1>0 DEF ClientInv, PlaceInv, Becomes, At
  <2>2. (\A d \in Call : ~At(d, Held) => call[d].job = None)'
    BY <1>0 DEF ClientInv, PlaceInv, Becomes, At, Held
  <2>3. (made <= MaxJobs)' /\ (step.at # "start" => step.job \in 1..made)'
    BY DEF ClientInv, PlaceInv
  <2> QED BY <2>1, <2>2, <2>3 DEF PlaceInv
<1>3. QueueInv'
  <2>1. \A n \in 1..Len(queue) : queue[n].by # c /\ queue[n].by \in Call \cup {None}
    BY Queued DEF ClientInv, QueueInv, At, Move
  <2> QED BY <1>0, <2>1 DEF ClientInv, QueueInv, Becomes, At
<1>4. ActiveInv'
  BY <1>0 DEF ClientInv, TypeOK, ActiveInv, Becomes, At, Working, Requesting, Held
<1>5. CurrentInv'
  BY <1>0 DEF ClientInv, TypeOK, CurrentInv, Becomes, At, Requesting, Held
<1>6. JobInv'
  <2>1. Pending' \ lost' = Pending \ lost
    BY DEF Pending
  <2>2. (\A j \in Pending \ lost :
         \/ current # None /\ At(current, Held) /\ call[current].job = j
         \/ step.at # "start" /\ step.job = j)'
    BY <1>0, <2>1 DEF ClientInv, TypeOK, JobInv, Becomes, At, Held
  <2>3. (step.at = "registration" =>
         Unregistered(step.job) \/ step.job \in known \/ step.job \notin Pending \ lost)'
    BY <1>0, <2>1 DEF ClientInv, JobInv, Becomes, At, Unregistered
  <2>4. (step.at = "deletion" => step.job \in known /\ Answered(step.job))'
    BY DEF ClientInv, JobInv, Answered
  <2>5. (\A d \in Call : At(d, {"giveup"}) => Answered(call[d].job))'
    BY <1>0 DEF ClientInv, JobInv, Becomes, At, Answered
  <2> QED BY <2>2, <2>3, <2>4, <2>5 DEF JobInv
<1> QED BY <1>1, <1>2, <1>3, <1>4, <1>5, <1>6 DEF ClientInv

(* The deadline of a poll. *)
LEMMA DeadlineStep ==
    ASSUME ClientInv, NEW c \in Call, Deadline(c)
    PROVE  ClientInv'
<1> USE Numbers
<1> DEFINE p == Place("giveup", call[c].kind, call[c].left, call[c].job)
<1>0. Becomes(c, p) /\ p.at = "giveup" /\ p.job = call[c].job
  BY Gone DEF ClientInv, Places, Place, Deadline
<1> HIDE DEF p
<1>q. At(c, {"poll"}) /\ c \notin stopped /\ deletes' = deletes \cup {call[c].job}
  BY DEF Deadline, Polls
<1>u. UNCHANGED <<requester, active, coordinator, made, known, server, lost>>
  BY DEF Deadline
<1> USE DEF requester, coordinator
<1>1. TypeOK'
  BY <1>0, <1>q, <1>u DEF ClientInv, TypeOK, Becomes, At, Spot
<1>2. PlaceInv'
  <2>1. (\A d \in Call : d > asked => At(d, {"none"}))'
    BY <1>0, <1>q, <1>u DEF ClientInv, PlaceInv, Becomes, At
  <2>2. (\A d \in Call : ~At(d, Held) => call[d].job = None)'
    BY <1>0, <1>q, <1>u DEF ClientInv, PlaceInv, Becomes, At, Held
  <2>3. (made <= MaxJobs)' /\ (step.at # "start" => step.job \in 1..made)'
    BY <1>u DEF ClientInv, PlaceInv
  <2> QED BY <2>1, <2>2, <2>3 DEF PlaceInv
<1>3. QueueInv'
  <2>1. \A n \in 1..Len(queue) : queue[n].by # c /\ queue[n].by \in Call \cup {None}
    BY <1>q, Queued DEF ClientInv, QueueInv, At, Move
  <2> QED BY <1>0, <1>q, <1>u, <2>1 DEF ClientInv, QueueInv, Becomes, At
<1>4. ActiveInv'
  BY <1>0, <1>q, <1>u DEF ClientInv, TypeOK, ActiveInv, Becomes, At, Working, Requesting, Held
<1>5. CurrentInv'
  BY <1>0, <1>q, <1>u DEF ClientInv, TypeOK, CurrentInv, Becomes, At, Requesting, Held
<1>6. JobInv'
  <2>1. Pending' \ lost' = Pending \ lost
    BY <1>u DEF Pending
  <2>2. (\A j \in Pending \ lost :
         \/ current # None /\ At(current, Held) /\ call[current].job = j
         \/ step.at # "start" /\ step.job = j)'
    BY <1>0, <1>u, <2>1 DEF ClientInv, TypeOK, JobInv, Becomes, At, Held
  <2>3. (step.at = "registration" =>
         Unregistered(step.job) \/ step.job \in known \/ step.job \notin Pending \ lost)'
    BY <1>0, <1>q, <1>u, <2>1 DEF ClientInv, JobInv, Becomes, At, Unregistered
  <2>4. (step.at = "deletion" => step.job \in known /\ Answered(step.job))'
    BY <1>q, <1>u DEF ClientInv, JobInv, Answered
  <2>5. (\A d \in Call : At(d, {"giveup"}) => Answered(call[d].job))'
    BY <1>0, <1>q, <1>u DEF ClientInv, JobInv, Becomes, At, Answered
  <2> QED BY <2>2, <2>3, <2>4, <2>5 DEF JobInv
<1> QED BY <1>1, <1>2, <1>3, <1>4, <1>5, <1>6 DEF ClientInv

(* A registration is sent: the request is the coordinator's, and no job of *)
(* the page is pending.                                                    *)
LEMMA RegisterStep ==
    ASSUME ClientInv, NEW c \in Call, Register(c), c \notin aborted
    PROVE  ClientInv'
<1> USE Numbers
<1> DEFINE p == Place("register", call[c].kind, call[c].left, made')
<1>q. At(c, {"begun"}) /\ made < MaxJobs /\ made' = made + 1
  BY DEF Register
<1>u. UNCHANGED <<requester, active, current, queue, step, stopped, known, deletes, lost>>
  BY DEF Register
<1>s. server' = [server EXCEPT ![made'] = "sent"]
  BY DEF Register
<1>m. made \in Nat /\ made' \in Job /\ MaxJobs \in Nat
  BY <1>q, ClientAssumption DEF ClientInv, TypeOK, Job
<1>0. Becomes(c, p) /\ p.at = "register" /\ p.job = made'
  <2>1. p \in Spot
    BY <1>m DEF ClientInv, TypeOK, Place, Places, Spot
  <2>2. call' = [call EXCEPT ![c] = p]
    BY DEF Register
  <2> QED BY <2>1, <2>2, Moved DEF ClientInv, Place
<1> HIDE DEF p
<1> USE DEF requester
<1>w. current = c /\ queue = <<>> /\ c \notin stopped /\ step.at = "start"
  BY <1>q DEF ClientInv, CurrentInv, QueueInv, At, Requesting
<1>1. TypeOK'
  <2>1. (\A d \in Call : At(d, {"register", "poll", "giveup"}) => call[d].job \in 1..made)'
    BY <1>0, <1>q, <1>m DEF ClientInv, TypeOK, Becomes, At
  <2>2. (\A d \in Call : At(d, {"poll", "giveup"}) => call[d].job \in known)'
    BY <1>0, <1>u DEF ClientInv, TypeOK, Becomes, At
  <2>3. (known \cup lost \subseteq 1..made)'
    BY <1>q, <1>m, <1>u DEF ClientInv, TypeOK
  <2>4. (call \in [Call -> [at : Places, kind : {"job", "short"}, left : Nat,
                          job : Job \cup {None}]])'
    BY <1>0 DEF Becomes, Spot
  <2>5. (server \in [Job -> {"none", "sent", "live", "over"}])'
    BY <1>s DEF ClientInv, TypeOK
  <2>6. (made \in Nat)'
    BY <1>q, <1>m
  <2> QED BY <2>1, <2>2, <2>3, <2>4, <2>5, <2>6, <1>u DEF ClientInv, TypeOK
<1>2. PlaceInv'
  <2>1. (\A d \in Call : d > asked => At(d, {"none"}))'
    BY <1>0, <1>q, <1>u DEF ClientInv, PlaceInv, Becomes, At
  <2>2. (\A d \in Call : ~At(d, Held) => call[d].job = None)'
    BY <1>0, <1>q, <1>u DEF ClientInv, PlaceInv, Becomes, At, Held
  <2>3. (made <= MaxJobs)' /\ (step.at # "start" => step.job \in 1..made)'
    BY <1>q, <1>m, <1>u, <1>w DEF ClientInv, PlaceInv
  <2> QED BY <2>1, <2>2, <2>3 DEF PlaceInv
<1>3. QueueInv'
  BY <1>w, <1>u DEF ClientInv, QueueInv
<1>4. ActiveInv'
  BY <1>0, <1>q, <1>u DEF ClientInv, TypeOK, ActiveInv, Becomes, At, Working, Requesting, Held
<1>5. CurrentInv'
  BY <1>0, <1>q, <1>u, <1>w DEF ClientInv, TypeOK, CurrentInv, Becomes, At, Requesting, Held
<1>6. JobInv'
  <2>1. Pending \ lost = {}
    BY <1>w, <1>q DEF ClientInv, JobInv, At, Held
  <2>2. Pending' \ lost' \subseteq {made'}
    BY <2>1, <1>s, <1>u, <1>m DEF Pending, ClientInv, TypeOK
  <2>3. (\A j \in Pending \ lost :
         \/ current # None /\ At(current, Held) /\ call[current].job = j
         \/ step.at # "start" /\ step.job = j)'
    BY <1>0, <1>w, <1>u, <2>2 DEF Becomes, At, Held
  <2>4. (\A d \in Call : At(d, {"giveup"}) => Answered(call[d].job))'
    <3>1. \A d \in Call : At(d, {"giveup"}) => call[d].job \in 1..made /\ call[d].job # made'
      BY <1>q, <1>m DEF ClientInv, TypeOK, At
    <3>2. \A j \in Job : j # made' => server'[j] = server[j]
      BY <1>s DEF ClientInv, TypeOK
    <3>3. 1..made \subseteq Job
      BY <1>m, <1>q DEF Job
    <3> QED BY <1>0, <1>u, <3>1, <3>2, <3>3 DEF ClientInv, JobInv, Becomes, At, Answered
  <2> QED BY <2>3, <2>4, <1>w, <1>u DEF JobInv
<1> QED BY <1>1, <1>2, <1>3, <1>4, <1>5, <1>6 DEF ClientInv

(* The server creates a job, or is done with one.                          *)
LEMMA ServerStep ==
    ASSUME ClientInv, NEW j \in Job, Created(j) \/ Works(j) \/ DeleteArrives(j)
    PROVE  ClientInv'
<1> USE Numbers
<1>u. UNCHANGED <<requester, active, call, coordinator, made, known>>
  BY DEF Created, Works, DeleteArrives, Over
<1>s. /\ server' \in [Job -> {"none", "sent", "live", "over"}]
      /\ Pending' \ lost' \subseteq Pending \ lost
      /\ lost' \subseteq lost /\ deletes' \subseteq deletes
      /\ \A i \in Job : Answered(i) => Answered(i)'
  BY DEF Created, Works, DeleteArrives, Over, ClientInv, TypeOK, Pending, Answered
<1>a. \A i \in 1..made : Answered(i) => Answered(i)'
  BY <1>s, ClientAssumption DEF Job, ClientInv, PlaceInv, TypeOK
<1> USE DEF requester, coordinator
<1>1. TypeOK'
  BY <1>u, <1>s DEF ClientInv, TypeOK, At
<1>2. PlaceInv'
  BY <1>u DEF ClientInv, PlaceInv, At
<1>3. QueueInv'
  BY <1>u DEF ClientInv, QueueInv, At
<1>4. ActiveInv'
  BY <1>u DEF ClientInv, ActiveInv, At
<1>5. CurrentInv'
  BY <1>u DEF ClientInv, CurrentInv, At
<1>6. JobInv'
  <2>1. (\A i \in Pending \ lost :
         \/ current # None /\ At(current, Held) /\ call[current].job = i
         \/ step.at # "start" /\ step.job = i)'
    BY <1>u, <1>s DEF ClientInv, JobInv, At
  <2>2. (step.at = "registration" =>
         Unregistered(step.job) \/ step.job \in known \/ step.job \notin Pending \ lost)'
    BY <1>u, <1>s DEF ClientInv, JobInv, At, Unregistered
  <2>3. (step.at = "deletion" => step.job \in known /\ Answered(step.job))'
    <3>1. step.at = "deletion" => step.job \in 1..made
      BY DEF ClientInv, PlaceInv
    <3> QED BY <1>u, <1>a, <3>1 DEF ClientInv, JobInv
  <2>4. (\A d \in Call : At(d, {"giveup"}) => Answered(call[d].job))'
    <3>1. \A d \in Call : At(d, {"giveup"}) => call[d].job \in 1..made
      BY DEF ClientInv, TypeOK, At
    <3> QED BY <1>u, <1>a, <3>1 DEF ClientInv, JobInv, At
  <2> QED BY <2>1, <2>2, <2>3, <2>4 DEF JobInv
<1> QED BY <1>1, <1>2, <1>3, <1>4, <1>5, <1>6 DEF ClientInv

-----------------------------------------------------------------------------
(* A call makes an attempt: the first, when nothing was in its way or its  *)
(* turn has come, or the next.                                             *)
Tries(c) ==
    /\ At(c, {"none", "admitted", "sleep"}) /\ c \notin aborted
    /\ active \in {None, c} /\ active' = c /\ newest' = c /\ asked' >= asked /\ asked' >= c
    /\ asked' \in 0..MaxCalls
    /\ \E kind \in {"job", "short"}, left \in Nat : Attempts(c, kind, left)
    /\ UNCHANGED <<aborted, disposed, step, current, stopped, made, known, backend>>

LEMMA TryStep ==
    ASSUME ClientInv, NEW c \in Call, Tries(c)
    PROVE  ClientInv'
<1> USE Numbers
<1>k. PICK kind \in {"job", "short"}, left \in Nat : Attempts(c, kind, left)
  BY DEF Tries
<1> DEFINE p == Place(IF kind = "job" THEN "begin" ELSE "direct", kind, left, None)
           t == Transition(c, TRUE)
<1>0. /\ Becomes(c, p) /\ p.at \in {"begin", "direct"} /\ p.job = None
      /\ p.at = "begin" => queue' = Append(queue, t)
      /\ p.at = "direct" => queue' = queue
  <2>1. p \in Spot
    BY DEF Place, Places, Spot
  <2>2. call' = [call EXCEPT ![c] = p]
    BY <1>k DEF Attempts
  <2> QED BY <2>1, <2>2, <1>k, Moved DEF ClientInv, Place, Attempts, Enqueue
<1>t. t \in Move /\ t.by = c /\ t.begins
  BY DEF Transition, Move
<1> HIDE DEF p, t
<1>q. At(c, {"none", "admitted", "sleep"}) /\ c \notin aborted /\ active \in {None, c}
      /\ active' = c /\ newest' = c /\ asked' >= asked /\ asked' >= c /\ asked' \in 0..MaxCalls
  BY DEF Tries
<1>u. UNCHANGED <<aborted, disposed, step, current, stopped, made, known, deletes, server, lost>>
  BY DEF Tries, backend
<1>e. /\ queue' \in Seq(Move)
      /\ queue # <<>> => queue' # <<>>
      /\ p.at = "begin" => /\ queue' # <<>> /\ Len(queue') = Len(queue) + 1
                           /\ queue'[Len(queue')] = t
                           /\ \A n \in 1..Len(queue) : queue'[n] = queue[n]
                           /\ \A n \in 1..Len(queue') : n \in 1..Len(queue) \/ n = Len(queue')
  BY <1>0, <1>t, Queued, Enqueued DEF ClientInv
<1>1. TypeOK'
  BY <1>0, <1>q, <1>u, <1>e DEF ClientInv, TypeOK, Becomes, At, Spot, Move
<1>2. PlaceInv'
  <2>1. (\A d \in Call : d > asked => At(d, {"none"}))'
    BY <1>0, <1>q, <1>u, ClientAssumption DEF ClientInv, TypeOK, PlaceInv, Becomes, At, Call
  <2>2. (\A d \in Call : ~At(d, Held) => call[d].job = None)'
    BY <1>0, <1>q, <1>u DEF ClientInv, PlaceInv, Becomes, At, Held
  <2>3. (made <= MaxJobs)' /\ (step.at # "start" => step.job \in 1..made)'
    BY <1>u DEF ClientInv, PlaceInv
  <2> QED BY <2>1, <2>2, <2>3 DEF PlaceInv
<1>3. QueueInv'
  <2>1. \A n \in 1..Len(queue) : queue[n].by # c /\ queue[n].by \in Call \cup {None}
    BY <1>q, Queued DEF ClientInv, QueueInv, At, Move
  <2>2. CASE p.at = "direct"
    <3>1. (\A n \in 1..Len(queue) :
         IF queue[n].by = None THEN ~queue[n].begins
         ELSE At(queue[n].by, IF queue[n].begins THEN {"begin"} ELSE {"cancelling"}))'
      BY <2>1, <2>2, <1>0 DEF ClientInv, QueueInv, Becomes, At
    <3>2. (\A m, n \in 1..Len(queue) : queue[m].by = queue[n].by /\ queue[n].by # None => m = n)'
      BY <2>2, <1>0 DEF ClientInv, QueueInv
    <3>3. (queue # <<>> /\ queue[Len(queue)].begins => queue[Len(queue)].by \notin aborted)'
      BY <2>2, <1>0, <1>u DEF ClientInv, QueueInv
    <3>4. (step.at # "start" => queue # <<>> /\ current = None)'
      BY <1>e, <1>u DEF ClientInv, QueueInv
    <3> QED BY <3>1, <3>2, <3>3, <3>4 DEF QueueInv
  <2>3. CASE p.at = "begin"
    <3>1. (\A n \in 1..Len(queue) :
         IF queue[n].by = None THEN ~queue[n].begins
         ELSE At(queue[n].by, IF queue[n].begins THEN {"begin"} ELSE {"cancelling"}))'
      <4> SUFFICES ASSUME NEW n \in 1..Len(queue')
                   PROVE  IF queue'[n].by = None THEN ~queue'[n].begins
                          ELSE call'[queue'[n].by].at
                                 \in (IF queue'[n].begins THEN {"begin"} ELSE {"cancelling"})
        BY DEF At
      <4>1. CASE n \in 1..Len(queue)
        <5>1. queue'[n] = queue[n] /\ queue[n].by # c /\ queue[n].by \in Call \cup {None}
          BY <4>1, <2>1, <2>3, <1>e
        <5>2. queue[n].by # None => call'[queue[n].by] = call[queue[n].by]
          BY <5>1, <1>0 DEF Becomes
        <5> QED BY <4>1, <5>1, <5>2 DEF ClientInv, QueueInv, At
      <4>2. CASE n = Len(queue')
        BY <4>2, <2>3, <1>0, <1>e, <1>t DEF Becomes
      <4> QED BY <4>1, <4>2, <2>3, <1>e
    <3>2. (\A m, n \in 1..Len(queue) : queue[m].by = queue[n].by /\ queue[n].by # None => m = n)'
      BY <2>1, <2>3, <1>e, <1>t DEF ClientInv, QueueInv
    <3>3. (queue # <<>> /\ queue[Len(queue)].begins => queue[Len(queue)].by \notin aborted)'
      BY <2>3, <1>e, <1>t, <1>q, <1>u
    <3>4. (step.at # "start" => queue # <<>> /\ current = None)'
      BY <1>e, <1>u DEF ClientInv, QueueInv
    <3> QED BY <3>1, <3>2, <3>3, <3>4 DEF QueueInv
  <2> QED BY <2>2, <2>3, <1>0
<1>4. ActiveInv'
  <2>1. (active # None => At(active, Working) /\ newest = active)'
    BY <1>0, <1>q DEF Becomes, At, Working
  <2>2. (\A d \in Call : At(d, Working) /\ d \notin aborted => active = d)'
    BY <1>0, <1>q, <1>u DEF ClientInv, ActiveInv, Becomes, At
  <2>3. (\A d \in Call :
         /\ At(d, {"none", "cancelling", "admitted"}) => d \notin aborted
         /\ newest = d /\ At(d, {"cancelling", "admitted"}) => active = None)'
    BY <1>0, <1>q, <1>u DEF ClientInv, ActiveInv, Becomes, At
  <2> QED BY <2>1, <2>2, <2>3 DEF ActiveInv
<1>5. CurrentInv'
  <2>1. \A d \in Call : At(d, Requesting) => d \in aborted
    BY <1>q DEF ClientInv, ActiveInv, At, Working, Requesting, Held
  <2> QED BY <2>1, <1>0, <1>q, <1>u, <1>e
          DEF ClientInv, TypeOK, CurrentInv, Becomes, At, Requesting, Held
<1>6. JobInv'
  <2>1. Pending' \ lost' = Pending \ lost
    BY <1>u DEF Pending
  <2>2. (\A j \in Pending \ lost :
         \/ current # None /\ At(current, Held) /\ call[current].job = j
         \/ step.at # "start" /\ step.job = j)'
    BY <1>0, <1>q, <1>u, <2>1 DEF ClientInv, TypeOK, JobInv, Becomes, At, Held
  <2>3. (step.at = "registration" =>
         Unregistered(step.job) \/ step.job \in known \/ step.job \notin Pending \ lost)'
    BY <1>0, <1>q, <1>u, <2>1 DEF ClientInv, JobInv, Becomes, At, Unregistered
  <2>4. (step.at = "deletion" => step.job \in known /\ Answered(step.job))'
    BY <1>u DEF ClientInv, JobInv, Answered
  <2>5. (\A d \in Call : At(d, {"giveup"}) => Answered(call[d].job))'
    BY <1>0, <1>q, <1>u DEF ClientInv, JobInv, Becomes, At, Answered
  <2> QED BY <2>2, <2>3, <2>4, <2>5 DEF JobInv
<1> QED BY <1>1, <1>2, <1>3, <1>4, <1>5, <1>6 DEF ClientInv

(* Invalidate, by a call that has to wait for its turn or by none.         *)
Invalidates(c) ==
    /\ Invalidate /\ newest' = c /\ asked' >= asked /\ asked' \in 0..MaxCalls
    /\ Enqueue(Transition(c, FALSE))
    /\ IF c = None THEN call' = call
       ELSE /\ At(c, {"none"}) /\ asked' >= c
            /\ \E kind \in {"job", "short"}, left \in Nat :
                  call' = [call EXCEPT ![c] = Place("cancelling", kind, left, None)]
    /\ disposed' \in BOOLEAN
    /\ UNCHANGED <<step, current, stopped, made, known, backend>>

LEMMA InvalidateStep ==
    ASSUME ClientInv, NEW c \in Call \cup {None}, Invalidates(c)
    PROVE  ClientInv'
<1> USE Numbers
<1> DEFINE t == Transition(c, FALSE)
<1>0. /\ call' \in [Call -> Spot]
      /\ \A d \in Call : d # c => call'[d] = call[d]
      /\ c # None => call'[c].at = "cancelling" /\ call'[c].job = None
  <2>1. CASE c = None
    BY <2>1 DEF Invalidates, ClientInv, TypeOK, Spot
  <2>2. CASE c # None
    <3>1. PICK kind \in {"job", "short"}, left \in Nat :
                  call' = [call EXCEPT ![c] = Place("cancelling", kind, left, None)]
      BY <2>2 DEF Invalidates
    <3>2. Place("cancelling", kind, left, None) \in Spot
      BY DEF Place, Places, Spot
    <3> QED BY <2>2, <3>1, <3>2, Moved DEF ClientInv, Place, Becomes
  <2> QED BY <2>1, <2>2
<1>t. t \in Move /\ t.by = c /\ ~t.begins
  BY DEF Transition, Move
<1>q. /\ aborted' = aborted \cup ({active} \ {None}) /\ active' = None /\ newest' = c
      /\ asked' >= asked /\ asked' \in 0..MaxCalls /\ disposed' \in BOOLEAN
      /\ c # None => At(c, {"none"}) /\ asked' >= c
      /\ queue' = Append(queue, t)
  BY DEF Invalidates, Invalidate, Enqueue
<1> HIDE DEF t
<1>u. UNCHANGED <<step, current, stopped, made, known, deletes, server, lost>>
  BY DEF Invalidates, backend
<1>e. /\ queue' \in Seq(Move)
      /\ queue' # <<>> /\ Len(queue') = Len(queue) + 1
      /\ queue'[Len(queue')] = t
      /\ \A n \in 1..Len(queue) : queue'[n] = queue[n]
      /\ \A n \in 1..Len(queue') : n \in 1..Len(queue) \/ n = Len(queue')
  BY <1>q, <1>t, Queued, Enqueued DEF ClientInv
<1>1. TypeOK'
  <2>1. (\A d \in Call : /\ At(d, {"register", "poll", "giveup"}) => call[d].job \in 1..made
                         /\ At(d, {"poll", "giveup"}) => call[d].job \in known)'
    BY <1>0, <1>u DEF ClientInv, TypeOK, At
  <2> QED BY <2>1, <1>0, <1>q, <1>u, <1>e DEF ClientInv, TypeOK, Spot, Move
<1>2. PlaceInv'
  <2>1. (\A d \in Call : d > asked => At(d, {"none"}))'
    <3>1. \A d \in Call : d > asked' => d # c
      BY <1>q, ClientAssumption DEF Call
    <3>2. \A d \in Call : d > asked' => d > asked
      BY <1>q, ClientAssumption DEF Call, ClientInv, TypeOK
    <3> QED BY <3>1, <3>2, <1>0 DEF ClientInv, PlaceInv, At
  <2>2. (\A d \in Call : ~At(d, Held) => call[d].job = None)'
    BY <1>0 DEF ClientInv, PlaceInv, At
  <2>3. (made <= MaxJobs)' /\ (step.at # "start" => step.job \in 1..made)'
    BY <1>u DEF ClientInv, PlaceInv
  <2> QED BY <2>1, <2>2, <2>3 DEF PlaceInv
<1>3. QueueInv'
  <2>1. \A n \in 1..Len(queue) : /\ queue[n].by \in Call \cup {None}
                                 /\ c # None => queue[n].by # c
    BY <1>q, Queued DEF ClientInv, QueueInv, At, Move
  <2>2. (\A n \in 1..Len(queue) :
         IF queue[n].by = None THEN ~queue[n].begins
         ELSE At(queue[n].by, IF queue[n].begins THEN {"begin"} ELSE {"cancelling"}))'
    BY <2>1, <1>0, <1>e, <1>t DEF ClientInv, QueueInv, At
  <2>3. (\A m, n \in 1..Len(queue) : queue[m].by = queue[n].by /\ queue[n].by # None => m = n)'
    BY <2>1, <1>e, <1>t DEF ClientInv, QueueInv
  <2>4. (queue # <<>> /\ queue[Len(queue)].begins => queue[Len(queue)].by \notin aborted)'
    BY <1>e, <1>t
  <2>5. (step.at # "start" => queue # <<>> /\ current = None)'
    BY <1>e, <1>u DEF ClientInv, QueueInv
  <2> QED BY <2>2, <2>3, <2>4, <2>5 DEF QueueInv
<1>4. ActiveInv'
  <2>1. (active # None => At(active, Working) /\ newest = active)'
    BY <1>q
  <2>2. (\A d \in Call : At(d, Working) /\ d \notin aborted => active = d)'
    BY <1>0, <1>q DEF ClientInv, ActiveInv, At, Working, Requesting, Held
  <2>3. (\A d \in Call : At(d, {"none", "cancelling", "admitted"}) => d \notin aborted)'
    BY <1>0, <1>q DEF ClientInv, ActiveInv, At, Working, Requesting, Held
  <2> QED BY <2>1, <2>2, <2>3, <1>q DEF ActiveInv
<1>5. CurrentInv'
  <2>1. (\A d \in Call : At(d, Requesting) => d \in aborted)'
    BY <1>0, <1>q DEF ClientInv, ActiveInv, At, Working, Requesting, Held
  <2>2. \A d \in Call : At(d, Requesting) <=> At(d, Requesting)'
    BY <1>0, <1>q DEF At, Requesting, Held
  <2>3. current # None => current \in Call /\ step.at = "start"
    BY DEF ClientInv, TypeOK, QueueInv, CurrentInv
  <2>4. current' = current /\ stopped' = stopped /\ step' = step
    BY <1>u
  <2>5. None \notin aborted'
    BY <1>q DEF ClientInv, TypeOK
  <2>6. (current # None => At(current, Requesting) /\ current \notin stopped)'
    BY <2>2, <2>3, <2>4 DEF ClientInv, CurrentInv, At
  <2>7. (current \in aborted => queue # <<>> /\ step.at = "start")'
    BY <2>3, <2>4, <2>5, <1>e
  <2>8. (\A d \in Call : At(d, Requesting) =>
         /\ d \notin stopped => current = d
         /\ d \notin aborted => queue = <<>>)'
    BY <2>1, <2>2, <2>4 DEF ClientInv, CurrentInv
  <2>9. (stopped \subseteq aborted)'
    BY <2>4, <1>q DEF ClientInv, CurrentInv
  <2> QED BY <2>6, <2>7, <2>8, <2>9 DEF CurrentInv
<1>6. JobInv'
  <2>1. Pending' \ lost' = Pending \ lost
    BY <1>u DEF Pending
  <2>2. (\A j \in Pending \ lost :
         \/ current # None /\ At(current, Held) /\ call[current].job = j
         \/ step.at # "start" /\ step.job = j)'
    BY <1>0, <1>q, <1>u, <2>1 DEF ClientInv, TypeOK, JobInv, At, Held
  <2>3. (step.at = "registration" =>
         Unregistered(step.job) \/ step.job \in known \/ step.job \notin Pending \ lost)'
    BY <1>0, <1>q, <1>u, <2>1 DEF ClientInv, JobInv, At, Unregistered
  <2>4. (step.at = "deletion" => step.job \in known /\ Answered(step.job))'
    BY <1>u DEF ClientInv, JobInv, Answered
  <2>5. (\A d \in Call : At(d, {"giveup"}) => Answered(call[d].job))'
    BY <1>0, <1>q, <1>u DEF ClientInv, JobInv, At, Answered
  <2> QED BY <2>2, <2>3, <2>4, <2>5 DEF JobInv
<1> QED BY <1>1, <1>2, <1>3, <1>4, <1>5, <1>6 DEF ClientInv

-----------------------------------------------------------------------------
(* What is left of the queue when its first transition is gone.            *)
LEMMA QueueLeft ==
    ASSUME TypeOK, QueueInv, queue # <<>>, queue' = Tail(queue), UNCHANGED aborted,
           NEW t, t = Head(queue), step'.at = "start",
           \A d \in Call : d # t.by => call'[d].at = call[d].at
    PROVE  /\ QueueInv'
           /\ t \in Move
           /\ t.by = None => ~t.begins
           /\ t.by # None => At(t.by, IF t.begins THEN {"begin"} ELSE {"cancelling"})
           /\ Len(queue) = 1 /\ t.begins => t.by \notin aborted
           /\ queue' \in Seq(Move)
           /\ (queue' = <<>>) <=> (Len(queue) = 1)
<1>1. /\ queue \in Seq(Move) /\ Len(queue) \in Nat /\ Len(queue') \in Nat
      /\ \A n \in 1..Len(queue) : queue[n] \in Move
  BY Queued
<1>2. /\ queue' \in Seq(Move) /\ t = queue[1] /\ t \in Move
      /\ 1 \in 1..Len(queue) /\ Len(queue') = Len(queue) - 1
      /\ (queue' = <<>>) <=> (Len(queue) = 1)
      /\ \A n \in 1..Len(queue') : n + 1 \in 1..Len(queue) /\ queue'[n] = queue[n + 1]
  BY <1>1, Dequeued
<1>3. \A n \in 1..Len(queue') : queue'[n].by = None \/ queue'[n].by # t.by
  BY <1>1, <1>2 DEF QueueInv
<1>4. (\A n \in 1..Len(queue) :
         IF queue[n].by = None THEN ~queue[n].begins
         ELSE At(queue[n].by, IF queue[n].begins THEN {"begin"} ELSE {"cancelling"}))'
  <2> SUFFICES ASSUME NEW n \in 1..Len(queue')
               PROVE  IF queue'[n].by = None THEN ~queue'[n].begins
                      ELSE call'[queue'[n].by].at
                             \in (IF queue'[n].begins THEN {"begin"} ELSE {"cancelling"})
    BY DEF At
  <2>1. n + 1 \in 1..Len(queue) /\ queue'[n] = queue[n + 1]
    BY <1>2
  <2>2. queue[n + 1] \in Move
    BY <2>1, <1>1
  <2>3. queue[n + 1].by # None => call'[queue[n + 1].by].at = call[queue[n + 1].by].at
    BY <2>1, <2>2, <1>3 DEF Move
  <2> QED BY <2>1, <2>2, <2>3 DEF QueueInv, At
<1>5. (\A m, n \in 1..Len(queue) : queue[m].by = queue[n].by /\ queue[n].by # None => m = n)'
  <2> SUFFICES ASSUME NEW m \in 1..Len(queue'), NEW n \in 1..Len(queue'),
                      queue'[m].by = queue'[n].by, queue'[n].by # None
               PROVE  m = n
    OBVIOUS
  <2>1. m + 1 = n + 1
    BY <1>2 DEF QueueInv
  <2> QED BY <2>1, <1>1
<1>6. (queue # <<>> /\ queue[Len(queue)].begins => queue[Len(queue)].by \notin aborted)'
  <2> SUFFICES ASSUME queue' # <<>>
               PROVE  queue'[Len(queue')].begins => queue'[Len(queue')].by \notin aborted'
    OBVIOUS
  <2>1. Len(queue') \in 1..Len(queue') /\ Len(queue') + 1 = Len(queue)
    BY <1>1, <1>2
  <2>2. queue'[Len(queue')] = queue[Len(queue)]
    BY <2>1, <1>2
  <2> QED BY <2>2 DEF QueueInv
<1>7. QueueInv'
  BY <1>4, <1>5, <1>6 DEF QueueInv
<1> QED BY <1>1, <1>2, <1>7 DEF QueueInv

(* A transition that was outdated before it began. *)
LEMMA SkipStep ==
    ASSUME ClientInv, Skip
    PROVE  ClientInv'
<1> USE Numbers
<1> DEFINE t == Head(queue)
<1>q. queue # <<>> /\ step.at = "start" /\ Len(queue) # 1 /\ queue' = Tail(queue)
  BY DEF Skip, IsLatest
<1>u. UNCHANGED <<asked, newest, aborted, disposed, step, current, stopped,
                  made, known, deletes, server, lost>>
  BY DEF Skip, requester, backend
<1>0. t.by # None => t.by \in Call /\ At(t.by, IF t.begins THEN {"begin"} ELSE {"cancelling"})
  BY <1>q, Queued, Dequeued DEF ClientInv, QueueInv, Move
<1>c. /\ call' \in [Call -> Spot]
      /\ \A d \in Call : d # t.by => call'[d] = call[d]
      /\ t.by # None => /\ call'[t.by].job = None
                        /\ call'[t.by].at = (IF t.begins THEN "over" ELSE "admitted")
      /\ active' = (IF t.by # None /\ t.begins /\ active = t.by THEN None ELSE active)
  <2>1. CASE t.by = None
    BY <2>1 DEF Skip, ClientInv, TypeOK, Spot
  <2>2. CASE t.by # None /\ t.begins
    <3>1. Ends(t.by, "over")
      BY <2>2 DEF Skip
    <3>2. /\ Becomes(t.by, Place("over", "job", 0, None))
          /\ active' = IF active = t.by THEN None ELSE active
      BY <2>2, <3>1, <1>0, Ended DEF ClientInv, Places
    <3> QED BY <2>2, <3>2 DEF Becomes, Place
  <2>3. CASE t.by # None /\ ~t.begins
    <3>1. Goes(t.by, "admitted") /\ active' = active
      BY <2>3 DEF Skip
    <3>2. call[t.by].job = None
      BY <2>3, <1>0 DEF ClientInv, PlaceInv, At, Held
    <3>3. Becomes(t.by, Place("admitted", call[t.by].kind, call[t.by].left, call[t.by].job))
      BY <2>3, <3>1, <1>0, Gone DEF ClientInv, Places
    <3> QED BY <2>3, <3>1, <3>2, <3>3 DEF Becomes, Place
  <2> QED BY <2>1, <2>2, <2>3
<1>l. /\ QueueInv' /\ queue' \in Seq(Move) /\ queue' # <<>>
  BY <1>q, <1>u, <1>c, QueueLeft DEF ClientInv
<1> HIDE DEF t
<1>d. \A d \in Call : /\ At(d, Requesting) <=> At(d, Requesting)'
                      /\ At(d, Held)' => call'[d] = call[d]
                      /\ At(d, Held) => call'[d] = call[d]
  BY <1>0, <1>c DEF At, Requesting, Held
<1>1. TypeOK'
  <2>1. (\A d \in Call : /\ At(d, {"register", "poll", "giveup"}) => call[d].job \in 1..made
                         /\ At(d, {"poll", "giveup"}) => call[d].job \in known)'
    BY <1>d, <1>u DEF ClientInv, TypeOK, At, Held
  <2> QED BY <2>1, <1>c, <1>u, <1>l DEF ClientInv, TypeOK, Spot, Move
<1>2. PlaceInv'
  <2>1. (\A d \in Call : d > asked => At(d, {"none"}))'
    BY <1>0, <1>c, <1>u DEF ClientInv, PlaceInv, At
  <2>2. (\A d \in Call : ~At(d, Held) => call[d].job = None)'
    BY <1>0, <1>c DEF ClientInv, PlaceInv, At
  <2>3. (made <= MaxJobs)' /\ (step.at # "start" => step.job \in 1..made)'
    BY <1>u DEF ClientInv, PlaceInv
  <2> QED BY <2>1, <2>2, <2>3 DEF PlaceInv
<1>4. ActiveInv'
  <2>1. (active # None => At(active, Working) /\ newest = active)'
    BY <1>0, <1>c, <1>u DEF ClientInv, TypeOK, ActiveInv, At, Working, Requesting, Held
  <2>2. (\A d \in Call : At(d, Working) /\ d \notin aborted => active = d)'
    BY <1>0, <1>c, <1>u DEF ClientInv, ActiveInv, At, Working, Requesting, Held
  <2>3. (\A d \in Call :
         /\ At(d, {"none", "cancelling", "admitted"}) => d \notin aborted
         /\ newest = d /\ At(d, {"cancelling", "admitted"}) => active = None)'
    BY <1>0, <1>c, <1>u DEF ClientInv, ActiveInv, At
  <2> QED BY <2>1, <2>2, <2>3 DEF ActiveInv
<1>5. CurrentInv'
  <2>1. (current # None => At(current, Requesting) /\ current \notin stopped)'
    BY <1>d, <1>u DEF ClientInv, TypeOK, CurrentInv, At
  <2>2. (\A d \in Call : At(d, Requesting) =>
         /\ d \notin stopped => current = d
         /\ d \notin aborted => queue = <<>>)'
    BY <1>d, <1>u, <1>q DEF ClientInv, CurrentInv
  <2> QED BY <2>1, <2>2, <1>u, <1>l, <1>q DEF ClientInv, CurrentInv
<1>6. JobInv'
  <2>1. Pending' \ lost' = Pending \ lost
    BY <1>u DEF Pending
  <2>2. (\A j \in Pending \ lost :
         \/ current # None /\ At(current, Held) /\ call[current].job = j
         \/ step.at # "start" /\ step.job = j)'
    BY <1>d, <1>u, <2>1 DEF ClientInv, TypeOK, JobInv, At
  <2>3. (\A d \in Call : At(d, {"giveup"}) => Answered(call[d].job))'
    BY <1>d, <1>u DEF ClientInv, JobInv, At, Answered, Held
  <2> QED BY <2>2, <2>3, <1>q, <1>u DEF JobInv
<1> QED BY <1>1, <1>2, <1>l, <1>4, <1>5, <1>6 DEF ClientInv

(* A transition ends, when no job of the page is pending that it answers   *)
(* for and every request was stopped.                                      *)
LEMMA DoneStep ==
    ASSUME ClientInv, queue # <<>>, Done,
           stopped \subseteq stopped', stopped' \subseteq aborted,
           \A d \in Call : At(d, Requesting) => d \in stopped',
           lost \subseteq lost', lost' \subseteq 1..made, Pending \ lost' = {},
           UNCHANGED <<requester, made, known, deletes, server>>
    PROVE  ClientInv'
<1> USE Numbers
<1> DEFINE t == Head(queue)
           b == t.begins /\ Len(queue) = 1
<1>q. queue' = Tail(queue) /\ step' = Start /\ current' = (IF b THEN t.by ELSE None)
  BY DEF Done, IsLatest
<1>u. UNCHANGED <<asked, newest, aborted, disposed, made, known, deletes, server>>
  BY DEF requester
<1>0. /\ t.by # None => t.by \in Call /\ At(t.by, IF t.begins THEN {"begin"} ELSE {"cancelling"})
      /\ t.begins => t.by # None
  BY Queued, Dequeued DEF ClientInv, QueueInv, Move
<1>c. /\ call' \in [Call -> Spot]
      /\ \A d \in Call : d # t.by => call'[d] = call[d]
      /\ t.by # None => /\ call'[t.by].job = None
                        /\ call'[t.by].at = (IF b THEN "begun" ELSE
                                             IF t.begins THEN "over" ELSE "admitted")
      /\ active' = (IF t.begins /\ ~b /\ active = t.by THEN None ELSE active)
  <2>1. CASE t.by = None
    <3>1. ~t.begins
      BY <2>1, <1>0
    <3> QED BY <2>1, <3>1 DEF Done, IsLatest, ClientInv, TypeOK, Spot
  <2>2. CASE t.begins /\ ~b
    <3>1. Ends(t.by, "over")
      BY <2>2 DEF Done, IsLatest
    <3>2. /\ Becomes(t.by, Place("over", "job", 0, None))
          /\ active' = IF active = t.by THEN None ELSE active
      BY <2>2, <3>1, <1>0, Ended DEF ClientInv, Places
    <3> QED BY <2>2, <3>2 DEF Becomes, Place
  <2>3. CASE t.by # None /\ (~t.begins \/ b)
    <3> DEFINE at == IF t.begins THEN "begun" ELSE "admitted"
    <3>1. Goes(t.by, at) /\ active' = active
      BY <2>3 DEF Done, IsLatest
    <3>2. call[t.by].job = None
      BY <2>3, <1>0 DEF ClientInv, PlaceInv, At, Held
    <3>3. at \in Places
      BY DEF Places
    <3>4. Becomes(t.by, Place(at, call[t.by].kind, call[t.by].left, call[t.by].job))
      BY <2>3, <3>1, <3>3, <1>0, Gone DEF ClientInv
    <3> QED BY <2>3, <3>1, <3>2, <3>4 DEF Becomes, Place
  <2> QED BY <2>1, <2>2, <2>3
<1>l. /\ QueueInv' /\ queue' \in Seq(Move) /\ ((queue' = <<>>) <=> (Len(queue) = 1))
      /\ b => t.by \notin aborted
  BY <1>q, <1>u, <1>c, QueueLeft DEF ClientInv, Start
<1>b. current' # None => b /\ current' = t.by
  BY <1>q
<1>B. b => current' = t.by /\ t.by # None /\ t.begins /\ queue' = <<>>
  BY <1>q, <1>0, <1>l
<1> HIDE DEF t, b
<1>d. \A d \in Call : /\ At(d, Requesting)' => (At(d, Requesting) \/ (d = t.by /\ b))
                      /\ At(d, Held)' => call'[d] = call[d]
  BY <1>0, <1>c DEF At, Requesting, Held
<1>1. TypeOK'
  <2>1. (\A d \in Call : /\ At(d, {"register", "poll", "giveup"}) => call[d].job \in 1..made
                         /\ At(d, {"poll", "giveup"}) => call[d].job \in known)'
    BY <1>d, <1>u DEF ClientInv, TypeOK, At, Held
  <2>2. current' \in Call \cup {None} /\ active' \in Call \cup {None}
    BY <1>0, <1>b, <1>c DEF ClientInv, TypeOK
  <2>3. step' \in [at : {"start", "registration", "deletion"}, job : Job \cup {None}]
    BY <1>q DEF Start
  <2> QED BY <2>1, <2>2, <2>3, <1>c, <1>u, <1>l DEF ClientInv, TypeOK, Spot, Move
<1>2. PlaceInv'
  <2>1. (\A d \in Call : d > asked => At(d, {"none"}))'
    BY <1>0, <1>c, <1>u DEF ClientInv, PlaceInv, At
  <2>2. (\A d \in Call : ~At(d, Held) => call[d].job = None)'
    BY <1>0, <1>c DEF ClientInv, PlaceInv, At
  <2>3. (made <= MaxJobs)' /\ (step.at # "start" => step.job \in 1..made)'
    BY <1>u, <1>q DEF ClientInv, PlaceInv, Start
  <2> QED BY <2>1, <2>2, <2>3 DEF PlaceInv
<1>4. ActiveInv'
  <2>1. (active # None => At(active, Working) /\ newest = active)'
    BY <1>0, <1>c, <1>u DEF ClientInv, TypeOK, ActiveInv, At, Working, Requesting, Held
  <2>2. (\A d \in Call : At(d, Working) /\ d \notin aborted => active = d)'
    <3> SUFFICES ASSUME NEW d \in Call, At(d, Working)', d \notin aborted
                 PROVE  active' = d
      BY <1>u
    <3>1. CASE d # t.by
      BY <3>1, <1>0, <1>c DEF ClientInv, ActiveInv, At
    <3>2. CASE d = t.by
      BY <3>2, <1>0, <1>c, <1>B DEF ClientInv, ActiveInv, At, Working, Requesting, Held
    <3> QED BY <3>1, <3>2
  <2>3. (\A d \in Call :
         /\ At(d, {"none", "cancelling", "admitted"}) => d \notin aborted
         /\ newest = d /\ At(d, {"cancelling", "admitted"}) => active = None)'
    BY <1>0, <1>c, <1>u DEF ClientInv, ActiveInv, At
  <2> QED BY <2>1, <2>2, <2>3 DEF ActiveInv
<1>5. CurrentInv'
  <2>1. (current # None => At(current, Requesting) /\ current \notin stopped)'
    BY <1>b, <1>B, <1>c, <1>l DEF At, Requesting
  <2>2. (\A d \in Call : At(d, Requesting) =>
         /\ d \notin stopped => current = d
         /\ d \notin aborted => queue = <<>>)'
    BY <1>d, <1>u, <1>B
  <2>3. (stopped \subseteq aborted)' /\ current' \notin aborted'
    BY <1>u, <1>b, <1>l DEF ClientInv, TypeOK
  <2> QED BY <2>1, <2>2, <2>3 DEF CurrentInv
<1>6. JobInv'
  <2>1. Pending' \ lost' = {}
    BY <1>u DEF Pending
  <2>2. (\A d \in Call : At(d, {"giveup"}) => Answered(call[d].job))'
    BY <1>d, <1>u DEF ClientInv, JobInv, At, Answered, Held
  <2> QED BY <2>1, <2>2, <1>q DEF JobInv, Start
<1> QED BY <1>1, <1>2, <1>l, <1>4, <1>5, <1>6 DEF ClientInv

(* A transition goes on: it waits for a registration, or sends a DELETE.   *)
LEMMA GoOnStep ==
    ASSUME ClientInv, queue # <<>>, NEW j \in 1..made, NEW at,
           step' = [at |-> at, job |-> j],
           \/ at = "registration" /\ Unregistered(j) /\ deletes' = deletes
           \/ at = "deletion" /\ j \in known /\ deletes' = deletes \cup {j},
           stopped \subseteq stopped', stopped' \subseteq aborted,
           \A d \in Call : At(d, Requesting) => d \in stopped',
           current' = None, Pending \ lost \subseteq {j},
           UNCHANGED <<requester, active, call, queue, made, known, server, lost>>
    PROVE  ClientInv'
<1> USE Numbers
<1>u. UNCHANGED <<asked, newest, aborted, disposed>>
  BY DEF requester
<1>m. j \in Job
  BY ClientAssumption DEF ClientInv, TypeOK, PlaceInv, Job
<1>1. TypeOK'
  BY <1>u, <1>m DEF ClientInv, TypeOK, At
<1>2. PlaceInv'
  BY <1>u DEF ClientInv, PlaceInv, At
<1>3. QueueInv'
  BY <1>u DEF ClientInv, QueueInv, At
<1>4. ActiveInv'
  BY <1>u DEF ClientInv, ActiveInv, At
<1>5. CurrentInv'
  <2>1. current' \notin aborted'
    BY <1>u DEF ClientInv, TypeOK
  <2> QED BY <2>1, <1>u DEF ClientInv, CurrentInv, At
<1>6. JobInv'
  <2>1. Pending' \ lost' = Pending \ lost
    BY DEF Pending
  <2>2. (step.at = "deletion" => step.job \in known /\ Answered(step.job))'
    BY DEF Answered
  <2>3. (step.at = "registration" => Unregistered(step.job))'
    BY DEF Unregistered, At
  <2>4. (\A d \in Call : At(d, {"giveup"}) => Answered(call[d].job))'
    BY DEF ClientInv, JobInv, Answered, At
  <2>5. (\A i \in Pending \ lost : step.at # "start" /\ step.job = i)'
    BY <2>1
  <2> QED BY <2>2, <2>3, <2>4, <2>5 DEF JobInv
<1> QED BY <1>1, <1>2, <1>3, <1>4, <1>5, <1>6 DEF ClientInv

-----------------------------------------------------------------------------
(* What the invariant says when the coordinator is not at rest.            *)
LEMMA Superseded ==
    ASSUME ClientInv, queue # <<>>
    PROVE  /\ current # None => current \in aborted /\ step.at = "start"
           /\ \A d \in Call : At(d, Requesting) => d \in stopped \cup ({current} \ {None})
           /\ stopped \cup ({current} \ {None}) \subseteq aborted
<1>1. current # None => current \in Call /\ At(current, Requesting)
  BY DEF ClientInv, TypeOK, CurrentInv
<1>2. \A d \in Call : At(d, Requesting) => d \in aborted
  BY DEF ClientInv, CurrentInv
<1>3. current # None => step.at = "start"
  BY DEF ClientInv, QueueInv
<1> QED BY <1>1, <1>2, <1>3, Numbers DEF ClientInv, CurrentInv

(* A request that goes on is still the coordinator's, unless it is         *)
(* stopped already; nobody continues it who was told to stop.              *)
LEMMA Answering ==
    ASSUME ClientInv, Settled, NEW c \in Call, current = c
    PROVE  c \notin aborted
<1>1. c # None
  BY Numbers
<1> QED BY <1>1 DEF ClientInv, CurrentInv, Settled

LEMMA ErrsQuits ==
    ASSUME ClientInv, NEW c \in Call, At(c, Working \ {"begin"}), NEW at \in {"delivered", "over"},
           Leaves(c, at) \/ \E transient \in BOOLEAN : Errs(c, transient)
    PROVE  /\ FinishRequest(c)
           /\ \E p \in Spot :
               /\ p.at \in {"sleep", "delivered", "over"} /\ p.job = None /\ Becomes(c, p)
               /\ IF p.at = "sleep" THEN At(c, Working) /\ c \notin aborted /\ active' = active
                  ELSE active' = IF active = c THEN None ELSE active
<1>1. ASSUME NEW place \in {"delivered", "over"}, Leaves(c, place)
      PROVE  /\ FinishRequest(c)
             /\ Becomes(c, Place(place, "job", 0, None))
             /\ Place(place, "job", 0, None) \in Spot
             /\ active' = IF active = c THEN None ELSE active
  <2>1. place \in Places
    BY DEF Places
  <2> QED BY <1>1, <2>1, Ended DEF Leaves, ClientInv, Place, Spot
<1>2. ASSUME c \notin aborted, call[c].left > 0, FinishRequest(c), active' = active,
             call' = [call EXCEPT ![c] = Place("sleep", @.kind, @.left - 1, None)]
      PROVE  LET p == Place("sleep", call[c].kind, call[c].left - 1, None)
             IN  p \in Spot /\ Becomes(c, p)
  <2> DEFINE p == Place("sleep", call[c].kind, call[c].left - 1, None)
  <2>1. p \in Spot
    BY <1>2 DEF Place, Places, Spot, ClientInv, TypeOK
  <2> QED BY <2>1, <1>2, Moved DEF ClientInv
<1>3. CASE Leaves(c, at)
  BY <1>3, <1>1 DEF Place
<1>4. CASE \E transient \in BOOLEAN : Errs(c, transient)
  <2>1. CASE Leaves(c, "over")
    BY <2>1, <1>1 DEF Place
  <2>2. CASE ~Leaves(c, "over")
    <3>1. /\ c \notin aborted /\ call[c].left > 0 /\ FinishRequest(c) /\ active' = active
          /\ call' = [call EXCEPT ![c] = Place("sleep", @.kind, @.left - 1, None)]
      BY <1>4, <2>2 DEF Errs
    <3> QED BY <3>1, <1>2 DEF Place, At
  <2> QED BY <2>1, <2>2
<1> QED BY <1>3, <1>4

LEMMA RequestStep ==
    ASSUME ClientInv, NEW kind \in {"job", "short"}, Request(kind)
    PROVE  ClientInv'
<1> DEFINE c == asked + 1
<1>1. c \in Call /\ c \in 0..MaxCalls /\ c > asked /\ c >= asked /\ c >= c
  BY ClientAssumption DEF Request, ClientInv, TypeOK, Call
<1>2. At(c, {"none"}) /\ c \notin aborted
  BY <1>1 DEF ClientInv, PlaceInv, ActiveInv, At
<1>3. Retries[c] \in Nat
  BY <1>1, ClientAssumption
<1>4. asked' = c /\ newest' = c /\ disposed' = disposed /\ disposed \in BOOLEAN
      /\ UNCHANGED <<step, current, stopped, made, known, backend>>
  BY DEF Request, ClientInv, TypeOK
<1>w. /\ active = None => active' = c /\ aborted' = aborted /\ Attempts(c, kind, Retries[c])
      /\ active # None =>
           /\ Invalidate /\ Enqueue(Transition(c, FALSE))
           /\ call' = [call EXCEPT ![c] = Place("cancelling", kind, Retries[c], None)]
  BY DEF Request
<1> HIDE DEF c
<1>5. CASE active = None
  <2>1. active' = c /\ aborted' = aborted /\ Attempts(c, kind, Retries[c])
    BY <1>5, <1>w
  <2>2. Tries(c)
    BY <1>1, <1>2, <1>3, <1>4, <1>5, <2>1 DEF Tries, At
  <2> QED BY <2>2, <1>1, TryStep
<1>6. CASE active # None
  <2>1. /\ Invalidate /\ Enqueue(Transition(c, FALSE))
        /\ call' = [call EXCEPT ![c] = Place("cancelling", kind, Retries[c], None)]
    BY <1>6, <1>w
  <2>2. Invalidates(c)
    BY <1>1, <1>2, <1>3, <1>4, <2>1, Numbers DEF Invalidates
  <2> QED BY <2>2, <1>1, InvalidateStep
<1> QED BY <1>5, <1>6

LEMMA CancelStep ==
    ASSUME ClientInv, CancelActive \/ Dispose
    PROVE  ClientInv'
<1>1. Cancel /\ disposed' \in BOOLEAN
  BY DEF CancelActive, Dispose, ClientInv, TypeOK
<1>2. asked' = asked /\ asked \in 0..MaxCalls /\ asked >= asked
  BY <1>1, ClientAssumption DEF Cancel, ClientInv, TypeOK
<1>3. Invalidates(None)
  BY <1>1, <1>2 DEF Cancel, Invalidates
<1> QED BY <1>3, InvalidateStep

LEMMA AdmitStep ==
    ASSUME ClientInv, NEW c \in Call, Admit(c)
    PROVE  ClientInv'
<1>1. CASE disposed \/ newest # c
  <2>1. Ends(c, "over")
    BY <1>1 DEF Admit
  <2>2. /\ Becomes(c, Place("over", "job", 0, None)) /\ Place("over", "job", 0, None) \in Spot
        /\ active' = IF active = c THEN None ELSE active
    BY <2>1, Ended DEF ClientInv, Places, Place, Spot
  <2>3. FinishRequest(c)
    BY DEF Admit, FinishRequest, ClientInv, CurrentInv, At, Requesting, Held
  <2>4. At(c, {"admitted"})
        /\ UNCHANGED <<requester, queue, step, stopped, made, deletes, server, known, lost>>
    BY <1>1 DEF Admit, backend
  <2>5. Quits(c)
    BY <2>2, <2>3, <2>4 DEF Quits, Place, At, ClientInv, TypeOK
  <2> QED BY <2>4, <2>5, QuitStep DEF At, Held
<1>2. CASE ~disposed /\ newest = c
  <2>1. /\ At(c, {"admitted"}) /\ active' = c /\ Attempts(c, call[c].kind, call[c].left)
        /\ UNCHANGED <<requester, step, current, stopped, made, known, backend>>
    BY <1>2 DEF Admit
  <2>2. c \notin aborted /\ active = None
    BY <1>2, <2>1 DEF ClientInv, ActiveInv, At
  <2>3. asked >= c /\ asked \in 0..MaxCalls /\ call[c].kind \in {"job", "short"}
        /\ call[c].left \in Nat
    BY <2>1, ClientAssumption DEF ClientInv, TypeOK, PlaceInv, At, Call
  <2>4. Tries(c)
    BY <1>2, <2>1, <2>2, <2>3, ClientAssumption DEF Tries, requester, At
  <2> QED BY <2>4, TryStep
<1> QED BY <1>1, <1>2

LEMMA WakesStep ==
    ASSUME ClientInv, NEW c \in Call, Wakes(c)
    PROVE  ClientInv'
<1>1. /\ At(c, {"sleep"}) /\ c \notin aborted /\ Attempts(c, call[c].kind, call[c].left)
      /\ UNCHANGED <<requester, active, step, current, stopped, made, known, backend>>
  BY DEF Wakes
<1>2. active = c /\ newest = c
  BY <1>1, Numbers DEF ClientInv, ActiveInv, At, Working
<1>3. asked >= c /\ asked \in 0..MaxCalls /\ call[c].kind \in {"job", "short"}
      /\ call[c].left \in Nat
  BY <1>1, ClientAssumption DEF ClientInv, TypeOK, PlaceInv, At, Call
<1>4. Tries(c)
  BY <1>1, <1>2, <1>3, ClientAssumption DEF Tries, requester, At
<1> QED BY <1>4, TryStep

LEMMA StopsStep ==
    ASSUME ClientInv, NEW c \in Call, DirectAnswer(c) \/ Stops(c)
    PROVE  ClientInv'
<1>1. At(c, {"direct", "sleep", "poll"})
  BY DEF DirectAnswer, Stops, At
<1>2. At(c, Working \ {"begin"}) /\ ~At(c, {"register"})
  BY <1>1 DEF At, Working, Requesting, Held
<1>3. \/ Leaves(c, "delivered") \/ \E transient \in BOOLEAN : Errs(c, transient)
      \/ Leaves(c, "over")
  BY DEF DirectAnswer, Stops
<1>4. At(c, Held) => c \in stopped
  BY DEF DirectAnswer, Stops, At, Held
<1>5. At(c, Held) => current # c
  BY <1>4, Numbers DEF ClientInv, CurrentInv
<1>6. UNCHANGED <<requester, queue, step, stopped, made, deletes, server, known, lost>>
  BY DEF DirectAnswer, Stops, backend
<1>7. Quits(c)
  BY <1>2, <1>3, <1>6, ErrsQuits DEF Quits, At, ClientInv, TypeOK
<1> QED BY <1>2, <1>5, <1>7, QuitStep

LEMMA RegisterAnyStep ==
    ASSUME ClientInv, NEW c \in Call, Register(c)
    PROVE  ClientInv'
<1>1. CASE c \notin aborted
  BY <1>1, RegisterStep
<1>2. CASE c \in aborted
  <2>1. /\ Leaves(c, "over") /\ At(c, {"begun"})
        /\ UNCHANGED <<requester, queue, step, stopped, made, deletes, server, known, lost>>
    BY <1>2 DEF Register
  <2>2. At(c, Working \ {"begin"}) /\ ~At(c, Held) /\ ~At(c, {"register"})
    BY <2>1 DEF At, Working, Requesting, Held
  <2>3. Quits(c)
    BY <2>1, <2>2, ErrsQuits DEF Quits, At, ClientInv, TypeOK
  <2> QED BY <2>2, <2>3, QuitStep
<1> QED BY <1>1, <1>2

LEMMA RegisteredStep ==
    ASSUME ClientInv, NEW c \in Call, Registered(c)
    PROVE  ClientInv'
<1> DEFINE j == call[c].job
<1>1. /\ Settled /\ At(c, {"register"})
      /\ UNCHANGED <<requester, queue, step, stopped, made, deletes, server, lost>>
  BY DEF Registered, backend
<1>2. At(c, Working \ {"begin"}) /\ j \in 1..made
  BY <1>1 DEF At, Working, Requesting, Held, ClientInv, TypeOK
<1>3. CASE /\ known' = known \cup {j} /\ c \notin aborted
           /\ Goes(c, "poll") /\ UNCHANGED <<active, current>>
  BY <1>1, <1>3, PollStep DEF coordinator, backend
<1>4. CASE known' = known \cup {j} /\ c \in aborted /\ Leaves(c, "over")
  <2>1. current # c
    BY <1>1, <1>4, Answering
  <2>2. Quits(c)
    BY <1>1, <1>2, <1>4, ErrsQuits DEF Quits, At, ClientInv, TypeOK
  <2> QED BY <1>4, <2>1, <2>2, QuitStep
<1>5. CASE server[j] = "over" /\ UNCHANGED known
           /\ Leaves(c, IF c \in aborted THEN "over" ELSE "delivered")
  <2>1. j \notin Pending \ lost'
    BY <1>5 DEF Pending
  <2>2. Quits(c)
    BY <1>1, <1>2, <1>5, ErrsQuits DEF Quits, At, ClientInv, TypeOK
  <2> QED BY <2>1, <2>2, QuitStep
<1> QED BY <1>3, <1>4, <1>5 DEF Registered

(* The answer to a registration is lost, or to a poll good or bad.         *)
LEMMA AnswersStep ==
    ASSUME ClientInv, NEW c \in Call,
           RegisterFails(c) \/ PollAnswer(c) \/ PollRefused(c) \/ GivesUp(c)
    PROVE  ClientInv'
<1> DEFINE j == call[c].job
<1>1. /\ At(c, Held)
      /\ UNCHANGED <<requester, queue, step, stopped, made, deletes, server, known>>
  BY DEF RegisterFails, PollAnswer, PollRefused, GivesUp, Polls, backend, At, Held
<1>2. At(c, Working \ {"begin"}) /\ j \in 1..made
  BY <1>1 DEF At, Working, Requesting, Held, ClientInv, TypeOK
<1>3. \/ Leaves(c, "delivered") \/ \E transient \in BOOLEAN : Errs(c, transient)
      \/ Leaves(c, "over")
  BY DEF RegisterFails, PollAnswer, PollRefused, GivesUp
<1>4. lost \subseteq lost' /\ lost' \subseteq 1..made /\ j \notin Pending \ lost'
  <2>1. CASE RegisterFails(c) \/ PollRefused(c)
    BY <2>1, <1>2 DEF RegisterFails, PollRefused, Loses, ClientInv, TypeOK
  <2>2. CASE PollAnswer(c)
    BY <2>2 DEF PollAnswer, backend, Pending, ClientInv, TypeOK
  <2>3. CASE GivesUp(c)
    <3>1. Answered(j)
      BY <2>3 DEF GivesUp, ClientInv, JobInv
    <3> QED BY <2>3, <3>1, <1>2 DEF GivesUp, Answers, Answered, Loses, Pending, ClientInv, TypeOK
  <2> QED BY <2>1, <2>2, <2>3
<1>5. Quits(c)
  BY <1>1, <1>2, <1>3, <1>4, ErrsQuits DEF Quits, At, ClientInv, TypeOK
<1> QED BY <1>4, <1>5, QuitStep

LEMMA TakeStep ==
    ASSUME ClientInv, Take
    PROVE  ClientInv'
<1> USE Numbers
<1> DEFINE j == IF current = None THEN None ELSE call[current].job
<1>1. /\ queue # <<>> /\ step.at = "start" /\ stopped' = stopped \cup ({current} \ {None})
      /\ UNCHANGED <<requester, made, known, server, lost>>
  BY DEF Take
<1>2. /\ stopped \subseteq stopped' /\ stopped' \subseteq aborted
      /\ \A d \in Call : At(d, Requesting) => d \in stopped'
  BY <1>1, Superseded
<1>3. Pending \ lost \subseteq {j}
  BY <1>1 DEF ClientInv, JobInv
<1>4. CASE j \in known /\ Deletes(j) /\ current' = None /\ UNCHANGED <<active, call, queue>>
  <2>1. j \in 1..made
    BY <1>4 DEF ClientInv, TypeOK
  <2> QED BY <1>1, <1>2, <1>3, <1>4, <2>1, GoOnStep DEF Deletes
<1>5. CASE /\ MustLearn(j) /\ step' = [at |-> "registration", job |-> j] /\ current' = None
           /\ UNCHANGED <<active, call, queue, deletes>>
  <2>1. j \in 1..made
    BY <1>5 DEF MustLearn, Unregistered, ClientInv, TypeOK, At
  <2> QED BY <1>1, <1>2, <1>3, <1>5, <2>1, GoOnStep DEF MustLearn
<1>6. CASE j \notin known /\ ~MustLearn(j) /\ Done /\ UNCHANGED deletes
  <2>1. Pending \ lost = {}
    <3> SUFFICES ASSUME NEW i \in Pending \ lost PROVE FALSE
      OBVIOUS
    <3>1. current # None /\ At(current, Held) /\ call[current].job = i
      BY <1>1 DEF ClientInv, JobInv
    <3>2. current \in Call /\ i = j
      BY <3>1 DEF ClientInv, TypeOK
    <3>3. At(current, {"register"}) \/ At(current, {"poll", "giveup"})
      BY <3>1 DEF At, Held
    <3> QED BY <3>1, <3>2, <3>3, <1>6 DEF MustLearn, Unregistered, ClientInv, TypeOK
  <2>2. lost' = lost /\ lost \subseteq 1..made
    BY <1>1 DEF ClientInv, TypeOK
  <2> QED BY <1>1, <1>2, <1>6, <2>1, <2>2, DoneStep
<1> QED BY <1>4, <1>5, <1>6 DEF Take

LEMMA LearnStep ==
    ASSUME ClientInv, Learn
    PROVE  ClientInv'
<1> USE Numbers
<1> DEFINE j == step.job
<1>1. /\ step.at = "registration" /\ ~Unregistered(j)
      /\ UNCHANGED <<requester, stopped, made, known, server, lost>>
  BY DEF Learn
<1>2. queue # <<>> /\ current = None /\ j \in 1..made
  BY <1>1 DEF ClientInv, QueueInv, PlaceInv
<1>3. /\ stopped \subseteq aborted /\ stopped' = stopped
      /\ \A d \in Call : At(d, Requesting) => d \in stopped
  BY <1>1, <1>2, Superseded
<1>4. Pending \ lost \subseteq {j} /\ (j \notin known => Pending \ lost = {})
  BY <1>1, <1>2 DEF ClientInv, JobInv
<1>5. CASE j \in known
  <2>1. Deletes(j) /\ UNCHANGED <<active, call, queue, current>>
    BY <1>5 DEF Learn
  <2> HIDE DEF j
  <2> QED BY <1>1, <1>2, <1>3, <1>4, <1>5, <2>1, GoOnStep DEF Deletes
<1>6. CASE j \notin known
  <2>1. Done /\ UNCHANGED deletes
    BY <1>6 DEF Learn
  <2>2. lost' = lost /\ lost \subseteq 1..made
    BY <1>1 DEF ClientInv, TypeOK
  <2> QED BY <1>1, <1>2, <1>3, <1>4, <1>6, <2>1, <2>2, DoneStep
<1> QED BY <1>5, <1>6

LEMMA DeletedStep ==
    ASSUME ClientInv, Deleted
    PROVE  ClientInv'
<1> USE Numbers
<1> DEFINE j == step.job
<1>1. /\ step.at = "deletion" /\ Answers(j) /\ Done
      /\ UNCHANGED <<requester, stopped, made, known, deletes, server>>
  BY DEF Deleted
<1>2. queue # <<>> /\ current = None /\ j \in 1..made
  BY <1>1 DEF ClientInv, QueueInv, PlaceInv
<1>3. /\ stopped \subseteq aborted /\ stopped' = stopped
      /\ \A d \in Call : At(d, Requesting) => d \in stopped
  BY <1>1, <1>2, Superseded
<1>4. Pending \ lost \subseteq {j} /\ Answered(j)
  BY <1>1, <1>2 DEF ClientInv, JobInv
<1>5. lost \subseteq lost' /\ lost' \subseteq 1..made /\ Pending \ lost' = {}
  BY <1>1, <1>2, <1>4 DEF Answers, Answered, Loses, Pending, ClientInv, TypeOK
<1> QED BY <1>1, <1>2, <1>3, <1>5, DoneStep

-----------------------------------------------------------------------------
LEMMA InitClient == Init => ClientInv
<1> SUFFICES ASSUME Init PROVE ClientInv
  OBVIOUS
<1> USE Numbers
<1>1. /\ \A c \in Call : call[c] = Place("none", "job", 0, None)
      /\ call \in [Call -> Spot]
  BY DEF Init, Place, Places, Spot
<1>2. TypeOK
  <2>1. /\ asked \in 0..MaxCalls /\ made \in Nat
        /\ call \in [Call -> [at : Places, kind : {"job", "short"}, left : Nat,
                             job : Job \cup {None}]]
        /\ server \in [Job -> {"none", "sent", "live", "over"}]
    BY <1>1, ClientAssumption DEF Init, Spot
  <2>2. \A c \in Call : ~At(c, {"register", "poll", "giveup"}) /\ ~At(c, {"poll", "giveup"})
    BY <1>1 DEF At, Place
  <2>3. /\ queue \in Seq([by : Call \cup {None}, begins : BOOLEAN])
        /\ step \in [at : {"start", "registration", "deletion"}, job : Job \cup {None}]
    BY DEF Init, Start
  <2> QED BY <2>1, <2>2, <2>3 DEF Init, TypeOK
<1>3. PlaceInv
  BY <1>1, ClientAssumption DEF Init, PlaceInv, Start, At, Place
<1>4. QueueInv /\ ActiveInv /\ CurrentInv
  BY <1>1 DEF Init, QueueInv, ActiveInv, CurrentInv, Start, At, Place, Working, Requesting, Held
<1>5. JobInv
  BY <1>1 DEF Init, JobInv, Pending, Start, At, Place
<1> QED BY <1>2, <1>3, <1>4, <1>5 DEF ClientInv

LEMMA NextClient == ClientInv /\ [Next]_vars => ClientInv'
<1> SUFFICES ASSUME ClientInv, [Next]_vars PROVE ClientInv'
  OBVIOUS
<1>1. CASE \E kind \in {"job", "short"} : Request(kind)
  BY <1>1, RequestStep
<1>2. CASE CancelActive \/ Dispose
  BY <1>2, CancelStep
<1>3. CASE Continues
  BY <1>3, SkipStep, TakeStep, LearnStep, DeletedStep DEF Continues
<1>4. ASSUME NEW c \in Call, Proceeds(c) PROVE ClientInv'
  <2>1. CASE Admit(c) \/ Wakes(c)
    BY <2>1, AdmitStep, WakesStep
  <2>2. CASE DirectAnswer(c) \/ Stops(c)
    BY <2>2, StopsStep
  <2>3. CASE Register(c) \/ Registered(c)
    BY <2>3, RegisterAnyStep, RegisteredStep
  <2>4. CASE RegisterFails(c) \/ PollAnswer(c) \/ PollRefused(c) \/ GivesUp(c)
    BY <2>4, AnswersStep
  <2>5. CASE Deadline(c)
    BY <2>5, DeadlineStep
  <2> QED BY <1>4, <2>1, <2>2, <2>3, <2>4, <2>5 DEF Proceeds
<1>5. CASE \E j \in Job : Created(j) \/ Works(j) \/ DeleteArrives(j)
  BY <1>5, ServerStep
<1>6. CASE UNCHANGED vars
  <2>1. UNCHANGED <<asked, newest, active, aborted, disposed, call, queue, step, current,
                    stopped, made, known, deletes, server, lost>>
    BY <1>6 DEF vars, requester, coordinator, backend
  <2>2. TypeOK' /\ PlaceInv' /\ QueueInv'
    BY <2>1 DEF ClientInv, TypeOK, PlaceInv, QueueInv, At
  <2>3. ActiveInv' /\ CurrentInv'
    BY <2>1 DEF ClientInv, ActiveInv, CurrentInv, At
  <2>4. JobInv'
    BY <2>1 DEF ClientInv, JobInv, At, Pending, Unregistered, Answered
  <2> QED BY <2>2, <2>3, <2>4 DEF ClientInv
<1> QED BY <1>1, <1>2, <1>3, <1>4, <1>5, <1>6 DEF Next

(* Through every interleaving of calls, retries, cancellations, late       *)
(* registrations and lost answers, the requester, the coordinator and the  *)
(* server agree on whose turn it is.                                       *)
THEOREM ClientCorrect == Spec => []ClientInv
BY InitClient, NextClient, PTL DEF Spec

(* The variables of the player keep their types: a call that polls has the *)
(* id of its job.                                                          *)
THEOREM TypeCorrect == Spec => []TypeOK
<1>1. ClientInv => TypeOK
  BY DEF ClientInv
<1> QED BY <1>1, ClientCorrect, PTL

(* No resolve enters the server before the one it supersedes has been      *)
(* cancelled, also when that one's id was still on its way (begin and      *)
(* cancelCurrentRequest of the coordinator): at most one job that the page *)
(* still answers for is pending.                                           *)
THEOREM OneJob == Spec => []OneJobAtATime
<1>1. ClientInv => OneJobAtATime
  <2> SUFFICES ASSUME ClientInv PROVE Cardinality(Pending \ lost) <= 1
    BY DEF OneJobAtATime
  <2> DEFINE j == IF step.at = "start" THEN call[current].job ELSE step.job
  <2>1. Pending \ lost \subseteq {j}
    BY DEF ClientInv, JobInv, QueueInv
  <2> HIDE DEF j
  <2>2. IsFiniteSet({j}) /\ Cardinality({j}) = 1
    BY FS_Singleton
  <2>3. IsFiniteSet(Pending \ lost) /\ Cardinality(Pending \ lost) <= Cardinality({j})
    BY <2>1, <2>2, FS_Subset
  <2> QED BY <2>2, <2>3
<1> QED BY <1>1, ClientCorrect, PTL

(* Whatever comes late, a registration, a poll, a retry or a transition,   *)
(* only the newest call resolves its promise with a result.                *)
THEOREM NewestDelivered == Spec => NewestIsDelivered
<1> DEFINE Late(c) == ~At(c, {"delivered"}) /\ call'[c].at = "delivered" => newest = c
<1>1. ClientInv /\ Next => \A c \in Call : Late(c)
  <2> SUFFICES ASSUME ClientInv, Next, NEW c \in Call,
                      ~At(c, {"delivered"}), call'[c].at = "delivered"
               PROVE  newest = c
    OBVIOUS
  <2>a. At(c, Working) /\ c \notin aborted => newest = c
    BY Numbers DEF ClientInv, ActiveInv
  <2>t. ASSUME NEW d \in Nat, NEW kind, NEW left, Attempts(d, kind, left)
        PROVE  FALSE
    <3> DEFINE at == IF kind = "job" THEN "begin" ELSE "direct"
    <3>1. call' = [call EXCEPT ![d] = Place(at, kind, left, None)]
      BY <2>t DEF Attempts
    <3>2. at # "delivered"
      OBVIOUS
    <3> QED BY <3>1, <3>2 DEF Place, At, ClientInv, TypeOK
  <2>1. CASE \E kind \in {"job", "short"} : Request(kind)
    <3>1. PICK kind \in {"job", "short"} : Request(kind)
      BY <2>1
    <3>2. asked + 1 \in Nat
      BY ClientAssumption DEF ClientInv, TypeOK
    <3>3. CASE active = None
      BY <3>1, <3>2, <3>3, <2>t DEF Request
    <3>4. CASE active # None
      BY <3>1, <3>4 DEF Request, Place, At, ClientInv, TypeOK
    <3> QED BY <3>3, <3>4
  <2>2. CASE CancelActive \/ Dispose
    BY <2>2 DEF CancelActive, Dispose, Cancel, At
  <2>3. CASE Continues
    <3>1. \A d, e \in Call, at \in {"over", "begun", "admitted"} :
             Goes(d, at) \/ Ends(d, at) => call'[e].at \in {call[e].at, at}
      <4> TAKE d, e \in Call, at \in {"over", "begun", "admitted"}
      <4>1. CASE Goes(d, at)
        BY <4>1 DEF Goes, Place, ClientInv, TypeOK
      <4>2. CASE Ends(d, at)
        BY <4>2 DEF Ends, Place, ClientInv, TypeOK
      <4> QED BY <4>1, <4>2
    <3>2. CASE \E t \in Move : t = Head(queue) /\ (t.begins => t.by # None)
                 /\ (\/ call' = call
                     \/ t.by # None /\ \E at \in {"over", "begun", "admitted"} :
                                         Goes(t.by, at) \/ Ends(t.by, at))
      BY <3>1, <3>2 DEF At, Move
    <3>3. queue # <<>> => Head(queue) \in Move /\ (Head(queue).begins => Head(queue).by # None)
      BY Queued, Dequeued DEF ClientInv, QueueInv
    <3>4. CASE Skip
      BY <3>2, <3>3, <3>4 DEF Skip
    <3>5. CASE Done /\ queue # <<>>
      BY <3>2, <3>3, <3>5 DEF Done
    <3>6. CASE call' = call
      BY <3>6 DEF At
    <3>7. Take \/ Learn \/ Deleted => queue # <<>>
      BY DEF Take, Learn, Deleted, ClientInv, QueueInv
    <3>8. Take \/ Learn \/ Deleted => Done \/ call' = call
      BY DEF Take, Learn, Deleted
    <3> QED BY <2>3, <3>4, <3>5, <3>6, <3>7, <3>8 DEF Continues
  <2>4. ASSUME NEW d \in Call, Proceeds(d) PROVE newest = c
    <3>1. d = c
      BY <2>4 DEF Proceeds, Admit, Wakes, DirectAnswer, Stops, Register, Registered, RegisterFails,
                  PollAnswer, PollRefused, Deadline, GivesUp, Attempts, Leaves, Errs, Ends, Goes,
                  At, ClientInv, TypeOK
    <3>2. CASE DirectAnswer(c)
      BY <3>2, <2>a DEF DirectAnswer, At, Working
    <3>3. CASE Registered(c)
      <4>1. c \notin aborted
        BY <3>3 DEF Registered, Leaves, Ends, Goes, Place, ClientInv, TypeOK
      <4> QED BY <3>3, <4>1, <2>a DEF Registered, At, Working, Requesting, Held
    <3>4. CASE PollAnswer(c)
      <4>1. Settled /\ At(c, Requesting) /\ At(c, Working) /\ c \notin stopped
        BY <3>4 DEF PollAnswer, Polls, At, Working, Requesting, Held
      <4>2. current = c
        BY <4>1 DEF ClientInv, CurrentInv
      <4> QED BY <4>1, <4>2, <2>a, Answering
    <3>5. CASE Admit(c) \/ Wakes(c)
      <4>1. c \in Nat
        BY Numbers
      <4>2. CASE Ends(c, "over")
        BY <4>2 DEF Ends, Place, ClientInv, TypeOK
      <4> QED BY <3>5, <4>1, <4>2, <2>t DEF Admit, Wakes
    <3>6. CASE Stops(c) \/ Register(c) \/ PollRefused(c) \/ Deadline(c) \/ GivesUp(c)
      BY <3>6 DEF Stops, Register, PollRefused, Deadline, GivesUp, Leaves, Ends, Goes, Place,
                  ClientInv, TypeOK
    <3>7. CASE RegisterFails(c)
      BY <3>7 DEF RegisterFails, Errs, Leaves, Ends, Place, ClientInv, TypeOK
    <3> QED BY <2>4, <3>1, <3>2, <3>3, <3>4, <3>5, <3>6, <3>7 DEF Proceeds
  <2>5. CASE \E j \in Job : Created(j) \/ Works(j) \/ DeleteArrives(j)
    BY <2>5 DEF Created, Works, DeleteArrives, Over, At
  <2> QED BY <2>1, <2>2, <2>3, <2>4, <2>5 DEF Next
<1>2. ClientInv /\ [Next]_vars => [\A c \in Call : Late(c)]_vars
  BY <1>1
<1> QED BY <1>2, ClientCorrect, PTL DEF Spec, NewestIsDelivered
=============================================================================
