-------------------------- MODULE CheckpointQueue --------------------------
(***************************************************************************)
(* The player's queue of checkpoints and deletions (checkpoint-save.js):   *)
(* one pair of requests at a time, retries with a budget, the newest       *)
(* snapshot of each title kept until it is acknowledged, a flush when the  *)
(* page is left, and accounts that come and go in other tabs.              *)
(*                                                                         *)
(* A snapshot is its title and its version; versions grow (UserState has   *)
(* the clock).  The server is external: a table per endpoint that keeps    *)
(* the newest version (LwwRegister).  Requests may be lost, late, repeated *)
(* and reordered, their answers too.  What the script runs between two     *)
(* awaits is one step.                                                     *)
(***************************************************************************)
EXTENDS Naturals

CONSTANTS
    Title,          \* source identities
    NoTitle,
    MaxRetries,     \* the length of retryDelays
    MaxSaves,       \* bound: snapshots
    MaxGeneration   \* bound: flushes

ASSUME QueueAssumption ==
    /\ NoTitle \notin Title
    /\ MaxRetries \in Nat /\ MaxSaves \in Nat /\ MaxGeneration \in Nat

Path == {"progress", "continue"}

VARIABLES
    owns,       \* the account of the page is the one it was opened with
    disposed,
    queued,     \* [Title -> version], 0: none
    unsynced,   \* [Title -> version], 0: none
    active,     \* the snapshot in flight, the request of the pair, its generation
    retryTimer, \* is set
    attempt,    \* retryAttempt
    generation,
    flushing,   \* flushed snapshots, with the requests not yet acknowledged
    sent,       \* every request ever sent
    server,     \* [Path -> [Title -> version of the row or tombstone]]
    made,       \* the last version
    newest      \* history: [Title -> its last snapshot, unless discarded or rejected]

vars == <<owns, disposed, queued, unsynced, active, retryTimer, attempt, generation,
          flushing, sent, server, made, newest>>
maps == <<queued, unsynced, newest>>

Version == 1..MaxSaves
Nothing == [t \in Title |-> 0]
NoActive == [title |-> NoTitle, version |-> 0, path |-> "none", generation |-> 0]
Snapshot(t, v, path, g) == [title |-> t, version |-> v, path |-> path, generation |-> g]

With(map, t, v) == [map EXCEPT ![t] = v]
Without(map, t, v) == [map EXCEPT ![t] = IF @ = v THEN 0 ELSE @]

(* queued.clear(); unsynced.clear() *)
Discard == queued' = Nothing /\ unsynced' = Nothing /\ newest' = Nothing

Keep(q, u, n) == queued' = q /\ unsynced' = u /\ newest' = n

Request(t, v, paths) == {[title |-> t, version |-> v, path |-> p] : p \in paths}

(* request: both fetch calls go through it. *)
Send(requests) == sent' = sent \cup requests

-----------------------------------------------------------------------------
(* drain, called when no pair is in flight and no retry waits: q, u and n  *)
(* are the maps it finds.  A map gives its oldest key first; the order of  *)
(* titles is left open.                                                    *)
Drain(q, u, n) ==
    \/ /\ ~owns
       /\ Discard
       /\ active' = NoActive
       /\ UNCHANGED sent
    \/ /\ owns /\ q = Nothing
       /\ Keep(q, u, n)
       /\ active' = NoActive
       /\ UNCHANGED sent
    \/ /\ owns
       /\ \E t \in Title :
            /\ q[t] # 0
            /\ Keep(With(q, t, 0), u, n)
            /\ active' = Snapshot(t, q[t], "progress", generation)
            /\ Send(Request(t, q[t], {"progress"}))

(* A call of drain while it may not run does nothing. *)
TryDrain(q, u, n, waits) ==
    IF active # NoActive \/ waits
    THEN Keep(q, u, n) /\ UNCHANGED <<active, sent>>
    ELSE Drain(q, u, n)

Enqueue(t) ==
    LET v == made + 1 IN
    /\ ~disposed /\ made < MaxSaves
    /\ \/ ~owns /\ Discard /\ UNCHANGED <<active, sent, made>>
       \/ /\ owns
          /\ made' = v
          /\ TryDrain(With(queued, t, v), With(unsynced, t, v), With(newest, t, v), retryTimer)
    /\ UNCHANGED <<owns, disposed, retryTimer, attempt, generation, flushing, server>>

-----------------------------------------------------------------------------
(* The pair in flight. *)

(* finally: the next snapshot, unless the queue is disposed of. *)
Finish(q, u, n) ==
    IF disposed THEN Keep(q, u, n) /\ active' = NoActive /\ UNCHANGED sent
    ELSE Drain(q, u, n)

Answers(path) == active.path = path /\ server[path][active.title] >= active.version

(* sends the second request whoever the page belongs to *)
MutFirstAcknowledged ==
    /\ Answers("progress")
    /\ active' = [active EXCEPT !.path = "continue"]
    /\ Send(Request(active.title, active.version, {"continue"}))
    /\ UNCHANGED <<owns, disposed, maps, retryTimer, attempt, generation, flushing, server, made>>

(* The loop checks before the second request. *)
FirstAcknowledged ==
    /\ Answers("progress")
    /\ \/ /\ disposed \/ ~owns
          /\ Discard /\ active' = NoActive /\ UNCHANGED sent
       \/ /\ ~disposed /\ owns /\ generation # active.generation
          /\ Finish(queued, unsynced, newest)
       \/ /\ ~disposed /\ owns /\ generation = active.generation
          /\ active' = Snapshot(active.title, active.version, "continue", generation)
          /\ Send(Request(active.title, active.version, {"continue"}))
          /\ UNCHANGED maps
    /\ UNCHANGED <<owns, disposed, retryTimer, attempt, generation, flushing, server, made>>

(* whatever is unsynced *)
MutAcknowledged(u, t, v) == With(u, t, 0)

(* Only the snapshot that was acknowledged is forgotten. *)
Acknowledged(u, t, v) == Without(u, t, v)

PairAcknowledged ==
    /\ Answers("continue")
    /\ attempt' = 0
    /\ Finish(queued, Acknowledged(unsynced, active.title, active.version), newest)
    /\ UNCHANGED <<owns, disposed, retryTimer, generation, flushing, server, made>>

(* A newer snapshot of the title stays. *)
Requeued ==
    IF queued[active.title] = 0 THEN With(queued, active.title, active.version) ELSE queued

Current == ~disposed /\ owns /\ generation = active.generation

(* An error that may pass: no answer in time, 408, 429, 5xx. *)
Fail ==
    /\ active # NoActive
    /\ \/ /\ Current /\ attempt < MaxRetries
          /\ Keep(Requeued, unsynced, newest)
          /\ retryTimer' = TRUE /\ attempt' = attempt + 1
          /\ active' = NoActive /\ UNCHANGED sent
       \/ /\ Current /\ attempt = MaxRetries
          /\ attempt' = 0
          /\ Finish(queued, unsynced, newest) /\ UNCHANGED retryTimer
       \/ /\ ~Current
          /\ Finish(queued, unsynced, newest) /\ UNCHANGED <<retryTimer, attempt>>
    /\ UNCHANGED <<owns, disposed, generation, flushing, server, made>>

(* The server does not want it. *)
Reject ==
    LET t == active.title
        v == active.version IN
    /\ active # NoActive
    /\ \/ /\ Current
          /\ attempt' = 0
          /\ Finish(queued, Without(unsynced, t, v),
                    IF unsynced[t] = v THEN Without(newest, t, v) ELSE newest)
       \/ /\ ~Current
          /\ Finish(queued, unsynced, newest) /\ UNCHANGED attempt
    /\ UNCHANGED <<owns, disposed, retryTimer, generation, flushing, server, made>>

TimerFires ==
    /\ retryTimer
    /\ retryTimer' = FALSE
    /\ Drain(queued, unsynced, newest)
    /\ UNCHANGED <<owns, disposed, attempt, generation, flushing, server, made>>

-----------------------------------------------------------------------------
(* Leaving the page, and coming back online.                               *)

Flushed ==
    {[title |-> t, version |-> unsynced[t], left |-> Path, generation |-> generation + 1] :
        t \in {u \in Title : unsynced[u] # 0}}

(* flushForExit sends both requests of every snapshot at once. *)
Dispatch ==
    /\ generation < MaxGeneration
    /\ generation' = generation + 1
    /\ retryTimer' = FALSE
    /\ IF owns
       THEN /\ flushing' = flushing \cup Flushed
            /\ Send(UNION {Request(f.title, f.version, Path) : f \in Flushed})
       ELSE UNCHANGED <<flushing, sent>>

FlushForExit ==
    /\ Dispatch
    /\ IF owns THEN queued' = Nothing /\ UNCHANGED <<unsynced, newest>> ELSE Discard
    /\ UNCHANGED <<owns, disposed, active, attempt, server, made>>

(* The player is closed: flushForExit, then dispose. *)
Dispose ==
    /\ ~disposed
    /\ Dispatch
    /\ disposed' = TRUE
    /\ Discard
    /\ UNCHANGED <<owns, active, attempt, server, made>>

FlushAcknowledged(f, p) ==
    /\ f \in flushing /\ p \in f.left
    /\ server[p][f.title] >= f.version
    /\ IF f.left = {p}
       THEN /\ flushing' = flushing \ {f}
            /\ unsynced' = Acknowledged(unsynced, f.title, f.version)
       ELSE /\ flushing' = (flushing \ {f}) \cup
                   {[title |-> f.title, version |-> f.version, left |-> f.left \ {p},
                     generation |-> f.generation]}
            /\ UNCHANGED unsynced
    /\ UNCHANGED <<owns, disposed, queued, active, retryTimer, attempt, generation,
                   sent, server, made, newest>>

(* Promise.all fails with its first request. *)
FlushFails(f) ==
    /\ f \in flushing
    /\ flushing' = flushing \ {f}
    /\ UNCHANGED <<owns, disposed, maps, active, retryTimer, attempt, generation,
                   sent, server, made>>

IsActive(t, v) == active.title = t /\ active.version = v

(* the timer goes on *)
MutRetryTimer == UNCHANGED retryTimer
ClearRetry == retryTimer' = FALSE

(* what is not queued any more is not tried again *)
MutPending == queued
Pending ==
    [t \in Title |-> IF unsynced[t] # 0 /\ ~IsActive(t, unsynced[t]) THEN unsynced[t]
                     ELSE queued[t]]

(* retryPending, on the window's event "online". *)
RetryPending ==
    /\ ~disposed
    /\ \/ ~owns /\ Discard /\ UNCHANGED <<active, sent, retryTimer, attempt>>
       \/ /\ owns
          /\ ClearRetry /\ attempt' = 0
          /\ TryDrain(Pending, unsynced, newest, FALSE)
    /\ UNCHANGED <<owns, disposed, generation, flushing, server, made>>

-----------------------------------------------------------------------------
(* The environment. *)

(* Another tab signs out, or in again. *)
OwnerChanges ==
    /\ owns' = ~owns
    /\ UNCHANGED <<disposed, maps, active, retryTimer, attempt, generation, flushing,
                   sent, server, made>>

(* A request reaches the server, at any time and in any order. *)
Apply(m) ==
    /\ m \in sent
    /\ server[m.path][m.title] < m.version
    /\ server' = [server EXCEPT ![m.path] = With(server[m.path], m.title, m.version)]
    /\ UNCHANGED <<owns, disposed, maps, active, retryTimer, attempt, generation, flushing,
                   sent, made>>

Init ==
    /\ owns = TRUE /\ disposed = FALSE
    /\ queued = Nothing /\ unsynced = Nothing /\ newest = Nothing
    /\ active = NoActive
    /\ retryTimer = FALSE /\ attempt = 0 /\ generation = 0
    /\ flushing = {} /\ sent = {}
    /\ server = [p \in Path |-> Nothing]
    /\ made = 0

Answered == FirstAcknowledged \/ PairAcknowledged \/ Fail \/ Reject

Next ==
    \/ \E t \in Title : Enqueue(t)
    \/ Answered
    \/ TimerFires
    \/ FlushForExit
    \/ Dispose
    \/ \E f \in flushing : (\E p \in Path : FlushAcknowledged(f, p)) \/ FlushFails(f)
    \/ RetryPending
    \/ OwnerChanges
    \/ \E m \in sent : Apply(m)

Spec == Init /\ [][Next]_vars

(* Timers fire, and a request has an answer or is aborted after 8 s.  Of   *)
(* the environment: requests arrive in the end, a server that is tried     *)
(* again and again answers at last, and the browser comes online again.    *)
FairSpec ==
    /\ Spec
    /\ WF_vars(TimerFires) /\ WF_vars(Answered)
    /\ WF_vars(\E m \in sent : Apply(m))
    /\ SF_vars(FirstAcknowledged) /\ SF_vars(PairAcknowledged)
    /\ WF_vars(RetryPending)

-----------------------------------------------------------------------------
(* A retry waits only while nothing is in flight. *)
TypeOK ==
    /\ owns \in BOOLEAN /\ disposed \in BOOLEAN /\ retryTimer \in BOOLEAN
    /\ {queued, unsynced, newest} \subseteq [Title -> 0..made]
    /\ active \in {NoActive} \cup
         [title : Title, version : 1..made, path : Path, generation : 0..generation]
    /\ attempt \in 0..MaxRetries /\ generation \in 0..MaxGeneration
    /\ flushing \subseteq [title : Title, version : 1..made, left : (SUBSET Path) \ {{}},
                           generation : 1..generation]
    /\ sent \subseteq [title : Title, version : 1..made, path : Path]
    /\ server \in [Path -> [Title -> 0..made]]
    /\ made \in 0..MaxSaves
    /\ retryTimer => active = NoActive

(* "Keep unsaved final positions/deletes even after automatic retries      *)
(* stop" (checkpoint-save.js): the newest snapshot of a title is known to  *)
(* the page until both tables hold it, it was rejected, or the account     *)
(* changed - whatever timers, flushes and answers of older ones do - and a *)
(* retry never takes its place in the queue ("Preserve a newer seek,       *)
(* metadata update, or delete already enqueued").                          *)
NothingForgotten ==
    \A t \in Title : newest[t] # 0 =>
        /\ unsynced[t] = newest[t] \/ \A p \in Path : server[p][t] >= newest[t]
        /\ queued[t] \in {0, newest[t]}

(* "Account changes stop the second request and pending writes"            *)
(* (playback-persistence-test.mjs): nothing is ever sent on behalf of the  *)
(* next account.                                                           *)
OnlyOwnerSends == [][sent' # sent => owns]_vars

(* A snapshot reaches both tables, unless it is rejected, replaced or      *)
(* discarded, though retries stop and requests fail, as long as the        *)
(* browser comes online again (retryPending).                              *)
SavedInTheEnd ==
    \A t \in Title, v \in Version :
        newest[t] = v ~> (newest[t] # v \/ \A p \in Path : server[p][t] >= v)
=============================================================================
