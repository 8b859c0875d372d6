--------------------------- MODULE ResolveClient ---------------------------
(***************************************************************************)
(* The player's side of a background resolve (player/resolve-job.js): a    *)
(* requester of which only the newest call is wanted, and a coordinator    *)
(* whose transitions run one after the other, so that no resolve enters    *)
(* the server before the one it supersedes has been cancelled, also when   *)
(* the job's id is still on its way.                                       *)
(*                                                                         *)
(* The script of a page runs to its next await without interruption, and   *)
(* continues with the promises that are settled before it looks at another *)
(* event (Settled).  Requests time out: what was sent may still arrive.    *)
(***************************************************************************)
EXTENDS Naturals, Sequences, FiniteSets

CONSTANTS
    MaxCalls,   \* bound: calls of the requester
    Retries,    \* [Call -> retryDelays.length]
    Kinds,      \* [Call -> the kinds of request it may make]
    MaxJobs     \* bound: registrations (one per attempt is enough)

Call == 1..MaxCalls
Job == 1..MaxJobs
None == 0

ASSUME ClientAssumption ==
    /\ MaxCalls \in Nat \ {0} /\ MaxJobs \in Nat \ {0}
    /\ Retries \in [Call -> Nat] /\ Kinds \in [Call -> SUBSET {"job", "short"}]

VARIABLES
    asked,      \* calls made; a call's number is its generation
    newest,     \* the call with the current generation, if any
    active,     \* activeInvocation
    aborted,    \* calls whose own signal is aborted
    disposed,
    call,       \* [Call -> where it is, its retries left, its job]
    queue,      \* the coordinator's transitions
    step,       \* where the first of them is
    current,    \* activeRequest: the call it belongs to
    stopped,    \* calls whose coordinated request is aborted
    made,       \* registrations sent; a job's number
    known,      \* jobs whose id the page has learnt
    deletes,    \* DELETE requests on their way
    server,     \* [Job -> the registration, then the job]
    lost        \* history: pending jobs the page no longer answers for

requester == <<asked, newest, aborted, disposed>>
coordinator == <<queue, step, current, stopped>>
backend == <<deletes, server, lost>>
vars == <<requester, active, call, coordinator, made, known, backend>>

At(c, places) == call[c].at \in places
Place(at, kind, left, job) == [at |-> at, kind |-> kind, left |-> left, job |-> job]
Goes(c, at) == call' = [call EXCEPT ![c] = Place(at, @.kind, @.left, @.job)]

(* A call returns or throws: its finally blocks, here and in requestAsync. *)
FinishRequest(c) == current' = IF current = c THEN None ELSE current
Ends(c, at) ==
    /\ call' = [call EXCEPT ![c] = Place(at, "job", 0, None)]
    /\ active' = IF active = c THEN None ELSE active
Leaves(c, at) == Ends(c, at) /\ FinishRequest(c)

Start == [at |-> "start", job |-> None]
Transition(c, begins) == [by |-> c, begins |-> begins]
Enqueue(t) == queue' = Append(queue, t)

(* generation === transitionGeneration: no later transition was asked for. *)
IsLatest == Len(queue) = 1

Unregistered(j) == \E c \in Call : At(c, {"register"}) /\ call[c].job = j

(* No promise is left to continue with. *)
Settled ==
    /\ queue = <<>> \/ step.at # "start"
    /\ step.at = "registration" => Unregistered(step.job)
    /\ \A c \in Call : ~At(c, {"admitted", "begun"})

Pending == {j \in Job : server[j] \in {"sent", "live"}}
Loses(j) == lost' = lost \cup ({j} \cap Pending)

-----------------------------------------------------------------------------
(* requestResolveJson.                                                     *)

(* An attempt, by a job or by one short request. *)
Attempts(c, kind, left) ==
    LET at == IF kind = "job" THEN "begin" ELSE "direct" IN
    /\ call' = [call EXCEPT ![c] = Place(at, kind, left, None)]
    /\ IF kind = "job" THEN Enqueue(Transition(c, TRUE)) ELSE UNCHANGED queue

(* forgets the signal *)
MutInvalidate == active' = None /\ UNCHANGED aborted
Invalidate ==
    /\ aborted' = aborted \cup ({active} \ {None})
    /\ active' = None

Request(kind) ==
    LET c == asked + 1 IN
    /\ ~disposed /\ asked < MaxCalls /\ kind \in Kinds[c]
    /\ asked' = c /\ newest' = c
    /\ IF active = None
       THEN active' = c /\ UNCHANGED aborted /\ Attempts(c, kind, Retries[c])
       ELSE /\ Invalidate
            /\ call' = [call EXCEPT ![c] = Place("cancelling", kind, Retries[c], None)]
            /\ Enqueue(Transition(c, FALSE))
    /\ UNCHANGED <<disposed, step, current, stopped, made, known, backend>>

(* After the cancellation it has waited for. *)
Admit(c) ==
    /\ At(c, {"admitted"})
    /\ IF disposed \/ newest # c
       THEN Ends(c, "over") /\ UNCHANGED queue
       ELSE active' = c /\ Attempts(c, call[c].kind, call[c].left)
    /\ UNCHANGED <<requester, step, current, stopped, made, known, backend>>

(* cancelActive, when the viewer chooses another source, and dispose. *)
Cancel ==
    /\ newest' = None
    /\ Invalidate
    /\ Enqueue(Transition(None, FALSE))
    /\ UNCHANGED <<asked, step, call, current, stopped, made, known, backend>>

(* Bound: the page cancels at most once after each of its calls. *)
CancelActive == newest # None /\ Cancel /\ UNCHANGED disposed
Dispose == ~disposed /\ disposed' = TRUE /\ Cancel

(* An error: retried when it is transient and the call is still wanted. *)
Errs(c, transient) ==
    IF transient /\ c \notin aborted /\ call[c].left > 0
    THEN /\ call' = [call EXCEPT ![c] = Place("sleep", @.kind, @.left - 1, None)]
         /\ FinishRequest(c)
         /\ UNCHANGED active
    ELSE Leaves(c, "over")

Wakes(c) ==
    /\ Settled /\ At(c, {"sleep"}) /\ c \notin aborted
    /\ Attempts(c, call[c].kind, call[c].left)
    /\ UNCHANGED <<requester, active, step, current, stopped, made, known, backend>>

DirectAnswer(c) ==
    /\ Settled /\ At(c, {"direct"}) /\ c \notin aborted
    /\ Leaves(c, "delivered") \/ \E transient \in BOOLEAN : Errs(c, transient)
    /\ UNCHANGED <<requester, queue, step, stopped, made, known, backend>>

(* A sleep and a short request listen to the call's signal, a poll to that *)
(* of its coordinated request.                                             *)
Stops(c) ==
    /\ \/ At(c, {"direct", "sleep"}) /\ c \in aborted
       \/ At(c, {"poll"}) /\ c \in stopped
    /\ Leaves(c, "over")
    /\ UNCHANGED <<requester, queue, step, stopped, made, known, backend>>

-----------------------------------------------------------------------------
(* The coordinator: begin and cancelActive.                                *)

(* A transition ends: begin throws when a later one was asked for.         *)
Done ==
    LET t == Head(queue) IN
    /\ queue' = Tail(queue) /\ step' = Start
    /\ current' = IF t.begins /\ IsLatest THEN t.by ELSE None
    /\ IF t.begins /\ ~IsLatest
       THEN Ends(t.by, "over")
       ELSE /\ UNCHANGED active
            /\ IF t.by = None THEN UNCHANGED call
               ELSE Goes(t.by, IF t.begins THEN "begun" ELSE "admitted")

(* A transition that is outdated before it begins does nothing. *)
Skip ==
    /\ queue # <<>> /\ step.at = "start" /\ ~IsLatest
    /\ LET t == Head(queue) IN
         /\ queue' = Tail(queue)
         /\ IF t.by = None THEN UNCHANGED <<call, active>>
            ELSE IF t.begins THEN Ends(t.by, "over")
            ELSE Goes(t.by, "admitted") /\ UNCHANGED active
    /\ UNCHANGED <<requester, step, current, stopped, made, known, backend>>

(* the registration is not waited for *)
MutMustLearn(j) == FALSE
MustLearn(j) == Unregistered(j)

Deletes(j) == deletes' = deletes \cup {j} /\ step' = [at |-> "deletion", job |-> j]

(* cancelCurrentRequest, to its first await. *)
Take ==
    LET j == IF current = None THEN None ELSE call[current].job IN
    /\ queue # <<>> /\ step.at = "start" /\ IsLatest
    /\ stopped' = stopped \cup ({current} \ {None})
    /\ \/ /\ j \in known
          /\ Deletes(j)
          /\ current' = None
          /\ UNCHANGED <<active, call, queue>>
       \/ /\ MustLearn(j)
          /\ step' = [at |-> "registration", job |-> j]
          /\ current' = None
          /\ UNCHANGED <<active, call, queue, deletes>>
       \/ /\ j \notin known /\ ~MustLearn(j)
          /\ Done
          /\ UNCHANGED deletes
    /\ UNCHANGED <<requester, made, known, server, lost>>

(* deletes without an id *)
MutLearn ==
    /\ step.at = "registration" /\ ~Unregistered(step.job)
    /\ Deletes(step.job) /\ UNCHANGED <<active, call, queue, current>>
    /\ UNCHANGED <<requester, stopped, made, known, server, lost>>

(* The registration of the superseded job was answered, or has failed. *)
Learn ==
    /\ step.at = "registration" /\ ~Unregistered(step.job)
    /\ IF step.job \in known
       THEN Deletes(step.job) /\ UNCHANGED <<active, call, queue, current>>
       ELSE Done /\ UNCHANGED deletes
    /\ UNCHANGED <<requester, stopped, made, known, server, lost>>

(* cancelResolveJob is answered, or fails, or times out. *)
Answers(j) ==
    \/ j \notin deletes /\ UNCHANGED lost
    \/ Loses(j)

Deleted ==
    /\ Settled /\ step.at = "deletion"
    /\ Answers(step.job)
    /\ Done
    /\ UNCHANGED <<requester, stopped, made, known, deletes, server>>

-----------------------------------------------------------------------------
(* requestAsync and waitForResolveJob.                                     *)

(* sends although the call was superseded *)
MutRegister(c) ==
    /\ At(c, {"begun"}) /\ made < MaxJobs
    /\ made' = made + 1
    /\ call' = [call EXCEPT ![c] = Place("register", @.kind, @.left, made')]
    /\ server' = [server EXCEPT ![made'] = "sent"]
    /\ UNCHANGED <<requester, active, queue, step, current, stopped, known, deletes, lost>>

Register(c) ==
    /\ At(c, {"begun"}) /\ made < MaxJobs
    /\ IF c \in aborted
       THEN Leaves(c, "over") /\ UNCHANGED <<made, server>>
       ELSE /\ made' = made + 1
            /\ call' = [call EXCEPT ![c] = Place("register", @.kind, @.left, made')]
            /\ server' = [server EXCEPT ![made'] = "sent"]
            /\ UNCHANGED <<active, current>>
    /\ UNCHANGED <<requester, queue, step, stopped, known, deletes, lost>>

(* The answer has the job's id, or the result of a job that is done: the   *)
(* id of that one is not needed.                                           *)
Registered(c) ==
    LET j == call[c].job IN
    /\ Settled /\ At(c, {"register"}) /\ server[j] # "sent"
    /\ \/ /\ known' = known \cup {j}
          /\ IF c \in aborted THEN Leaves(c, "over")
             ELSE Goes(c, "poll") /\ UNCHANGED <<active, current>>
       \/ /\ server[j] = "over"
          /\ Leaves(c, IF c \in aborted THEN "over" ELSE "delivered")
          /\ UNCHANGED known
    /\ UNCHANGED <<requester, queue, step, stopped, made, backend>>

(* registrationTimeoutMs, or an error: the job may have been created. *)
RegisterFails(c) ==
    /\ Settled /\ At(c, {"register"})
    /\ \E transient \in BOOLEAN : Errs(c, transient)
    /\ Loses(call[c].job)
    /\ UNCHANGED <<requester, queue, step, stopped, made, known, deletes, server>>

Polls(c) == Settled /\ At(c, {"poll"}) /\ c \notin stopped

(* A poll is answered when the job is over, and tells how it ended.        *)
PollAnswer(c) ==
    /\ Polls(c) /\ server[call[c].job] = "over"
    /\ Leaves(c, "delivered") \/ \E transient \in BOOLEAN : Errs(c, transient)
    /\ UNCHANGED <<requester, queue, step, stopped, made, known, backend>>

(* An error that is no transport error: the job is not asked about again.  *)
PollRefused(c) ==
    /\ Polls(c)
    /\ Leaves(c, "over")
    /\ Loses(call[c].job)
    /\ UNCHANGED <<requester, queue, step, stopped, made, known, deletes, server>>

(* The deadline: the job is cancelled, then the call throws.               *)
Deadline(c) ==
    /\ Polls(c)
    /\ Goes(c, "giveup")
    /\ deletes' = deletes \cup {call[c].job}
    /\ UNCHANGED <<requester, active, coordinator, made, known, server, lost>>

GivesUp(c) ==
    /\ Settled /\ At(c, {"giveup"})
    /\ Answers(call[c].job)
    /\ Leaves(c, "over")
    /\ UNCHANGED <<requester, queue, step, stopped, made, known, deletes, server>>

-----------------------------------------------------------------------------
(* The server (resolve_jobs.rs): create, the task, cancel.                 *)

Created(j) ==
    /\ server[j] = "sent" /\ server' = [server EXCEPT ![j] = "live"]
    /\ UNCHANGED <<requester, active, call, coordinator, made, known, deletes, lost>>

Over(j) ==
    /\ server' = [server EXCEPT ![j] = "over"]
    /\ lost' = lost \ {j}
    /\ UNCHANGED <<requester, active, call, coordinator, made, known>>

Works(j) == server[j] = "live" /\ Over(j) /\ UNCHANGED deletes

(* In any order with what was sent before: requests share no connection. *)
DeleteArrives(j) == j \in deletes /\ deletes' = deletes \ {j} /\ Over(j)

Init ==
    /\ asked = 0 /\ newest = None /\ active = None /\ aborted = {} /\ disposed = FALSE
    /\ call = [c \in Call |-> Place("none", "job", 0, None)]
    /\ queue = <<>> /\ step = Start /\ current = None /\ stopped = {}
    /\ made = 0 /\ known = {} /\ deletes = {} /\ lost = {}
    /\ server = [j \in Job |-> "none"]

(* What goes on without an event, and what happens to a call in the end.   *)
Continues == Skip \/ Take \/ Learn \/ Deleted
Proceeds(c) ==
    \/ Admit(c) \/ Wakes(c) \/ DirectAnswer(c) \/ Stops(c) \/ Register(c)
    \/ Registered(c) \/ RegisterFails(c)
    \/ PollAnswer(c) \/ PollRefused(c) \/ Deadline(c) \/ GivesUp(c)

Next ==
    \/ \E kind \in {"job", "short"} : Request(kind)
    \/ CancelActive \/ Dispose
    \/ Continues
    \/ \E c \in Call : Proceeds(c)
    \/ \E j \in Job : Created(j) \/ Works(j) \/ DeleteArrives(j)

Spec == Init /\ [][Next]_vars

(* Promises continue, and every wait has a timeout: 5 s for a registration,*)
(* 3 s for a DELETE, the deadline of a poll.  The server need do nothing.  *)
FairSpec == Spec /\ WF_vars(Continues) /\ \A c \in Call : WF_vars(Proceeds(c))

-----------------------------------------------------------------------------
Places == {"none", "cancelling", "admitted", "begin", "begun", "register", "poll", "giveup",
           "direct", "sleep", "delivered", "over"}

(* Where a call and a transition are decides what is known of their jobs.  *)
TypeOK ==
    /\ asked \in 0..MaxCalls /\ {newest, active, current} \subseteq Call \cup {None}
    /\ aborted \cup stopped \subseteq Call /\ disposed \in BOOLEAN
    /\ call \in [Call -> [at : Places, kind : {"job", "short"}, left : Nat,
                          job : Job \cup {None}]]
    /\ \A c \in Call : /\ At(c, {"register", "poll", "giveup"}) => call[c].job \in 1..made
                       /\ At(c, {"poll", "giveup"}) => call[c].job \in known
    /\ queue \in Seq([by : Call \cup {None}, begins : BOOLEAN])
    /\ step \in [at : {"start", "registration", "deletion"}, job : Job \cup {None}]
    /\ made \in Nat /\ known \cup lost \subseteq 1..made /\ deletes \subseteq known
    /\ server \in [Job -> {"none", "sent", "live", "over"}]

(* "C does not enter the backend until the best-effort cancellation        *)
(* request for superseded B has returned" (resolve-job.js): the server     *)
(* works on one job of the page at a time, but for those whose             *)
(* registration, poll or cancellation the page got no good answer to.      *)
OneJobAtATime == Cardinality(Pending \ lost) <= 1

(* A result reaches the page only from the newest call, whatever comes     *)
(* late: registrations, polls, retries, transitions.                       *)
NewestIsDelivered ==
    [][\A c \in Call : ~At(c, {"delivered"}) /\ call'[c].at = "delivered" => newest = c]_vars

(* A page that goes leaves nothing behind: no job, also none whose id is   *)
(* on its way, and no call that waits for a transition, a timer or an      *)
(* answer.                                                                 *)
NothingLeftBehind ==
    disposed ~> /\ Pending \subseteq lost
                /\ \A c \in Call : At(c, {"none", "delivered", "over"})
=============================================================================
