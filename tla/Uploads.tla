------------------------------ MODULE Uploads ------------------------------
(***************************************************************************)
(* Chunked and direct uploads (upload.rs): sessions under a lifecycle      *)
(* lock, a temporary file that must agree with the count of received       *)
(* bytes, the sweep of stale sessions that every request and the           *)
(* maintenance task run, the claim by which a finish takes the file, and   *)
(* handlers that are dropped at any await.                                 *)
(*                                                                         *)
(* A chunk is one unit.  Writes and truncations are operations of tokio's  *)
(* blocking pool: a handler awaits its own, but one whose handler is       *)
(* dropped at that await still lands, after the lock is free.  The client  *)
(* sends a chunk until it is answered, then the next, then finish; it may  *)
(* give a request up before the server notices.                            *)
(***************************************************************************)
EXTENDS Naturals, Sequences, FiniteSets

CONSTANTS
    Upload,     \* uploads: a session id, or a direct request
    Handler,
    NoOne,      \* no handler
    Chunks,     \* chunks of an upload
    MaxUpload   \* max_upload_bytes

ASSUME UploadAssumption ==
    /\ Chunks \in Nat \ {0} /\ MaxUpload \in Nat /\ MaxUpload >= Chunks
    /\ NoOne \notin Handler /\ "janitor" \notin Handler

VARIABLES
    open,       \* sessions
    declared,   \* uploads whose fileSize was sent
    received,   \* received_bytes
    stale,      \* not active for UPLOAD_SESSION_STALE_MS
    lock,       \* lifecycle_lock
    data,       \* [Upload -> the chunks in its file]
    place,      \* [Upload -> where the file is]
    writes,     \* write operations that have not landed
    cuts,       \* set_len operations that have not landed
    proc,       \* [Process -> where it is]
    client,     \* [Upload -> the next chunk and the handler that is waited for]
    library,    \* uploads with an entry in library.json
    counted,    \* history: the chunks that were counted
    claimed,    \* history: the file when finish claimed it
    torn        \* history: sessions whose file a set_len changed when its
                \* handler was gone

session == <<open, declared, received, stale, lock>>
disk == <<data, place, writes, cuts>>
history == <<counted, claimed, torn>>
vars == <<session, disk, proc, client, library, history>>

Process == Handler \cup {"janitor"}
Start == 0                  \* what a request asks for: a session,
Finish == Chunks + 1        \* chunk number n, or the end
GivenUp == Chunks + 2

Idle == [at |-> "idle", upload |-> "none", chunk |-> 0, base |-> 0, todo |-> {}]
Goes(h, at) == proc' = [proc EXCEPT ![h] =
    [at |-> at, upload |-> @.upload, chunk |-> @.chunk, base |-> @.base, todo |-> @.todo]]
Ends(h) == proc' = [proc EXCEPT ![h] = Idle]
U(h) == proc[h].upload

(* The client of h hears of success, of an error, or of nothing. *)
Hears(h, next) == client' =
    IF client[U(h)].waits = h
    THEN [client EXCEPT ![U(h)] = [next |-> next, waits |-> NoOne]] ELSE client
Succeeds(h) == Ends(h) /\ Hears(h, proc[h].chunk + 1)
Fails(h) == Ends(h) /\ Hears(h, GivenUp)
Breaks(h) == Ends(h) /\ Hears(h, client[U(h)].next)

(* What lands late is lost with the file. *)
Lost(u) ==
    /\ writes' = {w \in writes : w.upload # u}
    /\ cuts' = {c \in cuts : c.upload # u}
Unlink(u) ==
    /\ place' = [place EXCEPT ![u] = "removed"]
    /\ data' = [data EXCEPT ![u] = <<>>]
    /\ Lost(u)

(* forgets the declared size, and one too many *)
MutLimit(u) == MaxUpload + 1
Limit(u) == IF u \in declared THEN Chunks ELSE MaxUpload

-----------------------------------------------------------------------------
(* sweep_sessions, by the maintenance task and at the head of each request *)

(* forgets sessions without a chunk *)
MutStaleIds == {u \in open \cap stale : received[u] > 0}
StaleIds == open \cap stale

JanitorStarts ==
    /\ proc["janitor"].at = "idle"
    /\ proc' = [proc EXCEPT !["janitor"] =
           [at |-> "sweep", upload |-> "none", chunk |-> 0, base |-> 0, todo |-> StaleIds]]
    /\ UNCHANGED <<session, disk, client, library, history>>

JanitorEnds ==
    /\ proc["janitor"].at = "sweep" /\ proc["janitor"].todo = {}
    /\ Ends("janitor")
    /\ UNCHANGED <<session, disk, client, library, history>>

Done(p, u) == proc' = [proc EXCEPT ![p] =
    [at |-> @.at, upload |-> @.upload, chunk |-> @.chunk, base |-> @.base, todo |-> @.todo \ {u}]]

(* does not wait for the lock *)
MutSweep(p, u) ==
    /\ proc[p].at = "sweep" /\ u \in proc[p].todo
    /\ Done(p, u)
    /\ open' = open \ {u}
    /\ Unlink(u)
    /\ UNCHANGED <<declared, received, stale, lock, client, library, history>>

(* The lock, then another look: an append may have refreshed the session.  *)
Sweep(p, u) ==
    /\ proc[p].at = "sweep" /\ u \in proc[p].todo
    /\ lock[u] = NoOne
    /\ Done(p, u)
    /\ IF u \in open \cap stale
       THEN open' = open \ {u} /\ Unlink(u)
       ELSE UNCHANGED <<open, disk>>
    /\ UNCHANGED <<declared, received, stale, lock, client, library, history>>

Landed(h) == \A o \in writes \cup cuts : o.by # h

(* A handler's number is free when its last operation has landed. *)
Ask(h, u) ==
    /\ proc[h] = Idle /\ Landed(h)
    /\ client[u].waits = NoOne /\ client[u].next <= Finish
    /\ proc' = [proc EXCEPT ![h] = [at |-> "sweep", upload |-> u,
           chunk |-> client[u].next, base |-> 0, todo |-> StaleIds]]
    /\ client' = [client EXCEPT ![u] = [next |-> @.next, waits |-> h]]
    /\ UNCHANGED <<session, disk, library, history>>

Asks(h, chunks) == proc[h].at = "sweep" /\ proc[h].todo = {} /\ proc[h].chunk \in chunks

StartSession(h) ==
    /\ Asks(h, {Start})
    /\ open' = open \cup {U(h)}
    /\ declared' \in {declared, declared \cup {U(h)}}
    /\ Succeeds(h)
    /\ UNCHANGED <<received, stale, lock, disk, library, history>>

-----------------------------------------------------------------------------
(* append_chunk *)

NotFound(h) ==
    /\ Asks(h, 1..Finish) /\ U(h) \notin open
    /\ Fails(h)
    /\ UNCHANGED <<session, disk, library, history>>

(* A file that disagrees with the count, or whose length cannot be read,   *)
(* ends the session; directories that cannot be made do not.               *)
AppendLock(h) ==
    LET u == U(h) IN
    /\ Asks(h, 1..Chunks) /\ u \in open
    /\ lock[u] = NoOne
    /\ \/ /\ Len(data[u]) = received[u]
          /\ lock' = [lock EXCEPT ![u] = h]
          /\ Goes(h, "open")
          /\ UNCHANGED <<open, disk, client>>
       \/ open' = open \ {u} /\ Unlink(u) /\ Fails(h) /\ UNCHANGED lock
       \/ Fails(h) /\ UNCHANGED <<open, lock, disk>>
    /\ UNCHANGED <<declared, received, stale, library, history>>

Unlock(h) == lock' = [lock EXCEPT ![U(h)] = NoOne]

(* The length now is what a roll-back returns to.  The file may fail to    *)
(* open.                                                                   *)
AppendOpen(h) ==
    LET u == U(h) IN
    /\ proc[h].at = "open"
    /\ place' = [place EXCEPT ![u] = "temp"]
    /\ \/ /\ Len(data[u]) <= Limit(u)
          /\ proc' = [proc EXCEPT ![h] = [at |-> "body", upload |-> u,
                 chunk |-> @.chunk, base |-> Len(data[u]), todo |-> {}]]
          /\ UNCHANGED <<client, lock>>
       \/ Fails(h) /\ Unlock(h)
    /\ UNCHANGED <<open, declared, received, stale, data, writes, cuts, library, history>>

(* to nothing *)
MutRolledBack(h) == 0
RolledBack(h) == proc[h].base

(* rollback_partial_chunk: set_len waits for the write in flight, and the  *)
(* handler, with the lock, for set_len.  A write that fails is never there. *)
RollBack(h) ==
    /\ writes' = {w \in writes : w.by # h}
    /\ cuts' = cuts \cup {[upload |-> U(h), to |-> RolledBack(h), by |-> h]}
    /\ Goes(h, "undo")
    /\ UNCHANGED <<data, place, lock, client>>

(* A body is written, found too long, or empty. *)
Body(h) ==
    LET u == U(h) IN
    /\ proc[h].at = "body"
    /\ \/ /\ proc[h].base + 1 <= Limit(u)
          /\ writes' = writes \cup {[upload |-> u, chunk |-> proc[h].chunk, by |-> h]}
          /\ Goes(h, "flush")
          /\ UNCHANGED <<data, place, cuts, lock, client>>
       \/ proc[h].base + 1 > Limit(u) /\ RollBack(h)
       \/ Fails(h) /\ Unlock(h) /\ UNCHANGED disk
    /\ UNCHANGED <<open, declared, received, stale, library, history>>

(* The stream, the write or the flush fails. *)
BodyFails(h) ==
    /\ proc[h].at \in {"body", "flush"}
    /\ RollBack(h)
    /\ UNCHANGED <<open, declared, received, stale, library, history>>

(* The client hears of the error, or its connection is gone. *)
RolledBackEnds(h) ==
    /\ proc[h].at = "undo" /\ Landed(h)
    /\ Fails(h) \/ Breaks(h)
    /\ Unlock(h)
    /\ UNCHANGED <<open, declared, received, stale, disk, library, history>>

Lands(w) ==
    /\ w \in writes
    /\ writes' = writes \ {w}
    /\ data' = [data EXCEPT ![w.upload] = Append(@, w.chunk)]
    /\ UNCHANGED <<session, place, cuts, proc, client, library, history>>

(* A file that is shorter is made longer, with zeros. *)
SetLen(s, n) == [i \in 1..n |-> IF i <= Len(s) THEN s[i] ELSE 0]

(* The error of set_len is ignored. *)
CutLands(c) ==
    /\ c \in cuts
    /\ cuts' = cuts \ {c}
    /\ data' \in {data, [data EXCEPT ![c.upload] = SetLen(@, c.to)]}
    /\ torn' = IF data' = data \/ proc[c.by].at = "undo" \/ c.upload \notin open
               THEN torn ELSE torn \cup {c.upload}
    /\ UNCHANGED <<session, place, writes, proc, client, library, counted, claimed>>

Counted(h) ==
    LET u == U(h) IN
    /\ proc[h].at = "flush" /\ Landed(h)
    /\ received' = [received EXCEPT ![u] = @ + 1]
    /\ counted' = [counted EXCEPT ![u] = Append(@, proc[h].chunk)]
    /\ stale' = stale \ {u}
    /\ Unlock(h)
    /\ Succeeds(h)
    /\ UNCHANGED <<open, declared, disk, library, claimed, torn>>

-----------------------------------------------------------------------------
(* finish_session *)

(* the count is not compared *)
MutComplete(u) ==
    /\ Len(data[u]) > 0 /\ Len(data[u]) <= MaxUpload
    /\ u \in declared => Len(data[u]) = Chunks
Complete(u) ==
    /\ Len(data[u]) > 0 /\ Len(data[u]) <= MaxUpload
    /\ Len(data[u]) = received[u]
    /\ u \in declared => Len(data[u]) = Chunks

(* Its removal from the map claims the session; the lock is free at once.  *)
(* A file that is not complete, or whose length cannot be read, goes.      *)
Claim(h) ==
    LET u == U(h) IN
    /\ Asks(h, {Finish}) /\ u \in open
    /\ lock[u] = NoOne
    /\ open' = open \ {u}
    /\ \/ /\ Complete(u)
          /\ claimed' = [claimed EXCEPT ![u] = data[u]]
          /\ Goes(h, "process")
          /\ UNCHANGED <<disk, client>>
       \/ Unlink(u) /\ Fails(h) /\ UNCHANGED claimed
    /\ UNCHANGED <<declared, received, stale, lock, library, counted, torn>>

(* handle_direct_upload: a stream that ends early leaves its file behind.  *)
Direct(h, u) ==
    /\ proc[h] = Idle
    /\ client[u].waits = NoOne /\ client[u].next = Start
    /\ proc' = [proc EXCEPT ![h] =
           [at |-> "multipart", upload |-> u, chunk |-> Finish, base |-> 0, todo |-> {}]]
    /\ client' = [client EXCEPT ![u] = [next |-> GivenUp, waits |-> h]]
    /\ place' = [place EXCEPT ![u] = "temp"]
    /\ UNCHANGED <<session, data, writes, cuts, library, history>>

Multipart(h) ==
    LET u == U(h) IN
    /\ proc[h].at = "multipart"
    /\ \/ /\ Len(data[u]) < Chunks
          /\ data' = [data EXCEPT ![u] = Append(@, Len(@) + 1)]
          /\ UNCHANGED <<place, writes, cuts, proc, client>>
       \/ Len(data[u]) > 0 /\ Goes(h, "process") /\ UNCHANGED <<disk, client>>
       \/ Len(data[u]) = 0 /\ Unlink(u) /\ Fails(h)
       \/ Fails(h) /\ UNCHANGED disk
    /\ UNCHANGED <<session, library, history>>

(* process_uploaded_media_into_library: an .mp4 file is renamed, and what  *)
(* lands late with it; an .mkv file is converted and removed.              *)
Move(h) ==
    /\ proc[h].at = "process"
    /\ \/ /\ place' = [place EXCEPT ![U(h)] = "videos"]
          /\ UNCHANGED <<writes, cuts>> \/ Lost(U(h))
          /\ Goes(h, "publish")
          /\ UNCHANGED <<data, client>>
       \/ Unlink(U(h)) /\ Fails(h)
    /\ UNCHANGED <<session, library, history>>

Publish(h) ==
    /\ proc[h].at = "publish"
    /\ \/ library' = library \cup {U(h)} /\ Succeeds(h)
       \/ Fails(h) /\ UNCHANGED library
    /\ UNCHANGED <<session, disk, history>>

-----------------------------------------------------------------------------
(* The client gives a request up; a session it was not told of is lost.    *)
Abandon(u) ==
    /\ client[u].waits # NoOne
    /\ client' = [client EXCEPT ![u] =
           [next |-> IF @.next = Start THEN GivenUp ELSE @.next, waits |-> NoOne]]
    /\ UNCHANGED <<session, disk, proc, library, history>>

(* The server notices, and drops the handler at an await. *)
HangUp(h) ==
    /\ proc[h] # Idle /\ client[U(h)].waits # h
    /\ lock' = [u \in Upload |-> IF lock[u] = h THEN NoOne ELSE lock[u]]
    /\ Ends(h)
    /\ UNCHANGED <<open, declared, received, stale, disk, client, library, history>>

(* The process stops: sessions are in memory only, files stay. *)
Restart ==
    /\ open' = {} /\ lock' = [u \in Upload |-> NoOne]
    /\ proc' = [p \in Process |-> Idle]
    /\ writes' = {} /\ cuts' = {}
    /\ client' = [u \in Upload |-> [next |-> client[u].next, waits |-> NoOne]]
    /\ UNCHANGED <<declared, received, stale, data, place, library, history>>

Age(u) ==
    /\ u \in open
    /\ stale' = stale \cup {u}
    /\ UNCHANGED <<open, declared, received, lock, disk, proc, client, library, history>>

Init ==
    /\ open = {} /\ declared = {} /\ stale = {} /\ library = {}
    /\ writes = {} /\ cuts = {} /\ torn = {}
    /\ received = [u \in Upload |-> 0]
    /\ lock = [u \in Upload |-> NoOne]
    /\ data = [u \in Upload |-> <<>>] /\ place = [u \in Upload |-> "none"]
    /\ proc = [p \in Process |-> Idle]
    /\ client = [u \in Upload |-> [next |-> Start, waits |-> NoOne]]
    /\ counted = [u \in Upload |-> <<>>] /\ claimed = [u \in Upload |-> <<>>]

Serve(h) ==
    \/ StartSession(h) \/ NotFound(h) \/ AppendLock(h) \/ AppendOpen(h) \/ Counted(h)
    \/ RolledBackEnds(h) \/ Claim(h) \/ Move(h) \/ Publish(h)

Next ==
    \/ JanitorStarts \/ JanitorEnds
    \/ \E p \in Process, u \in Upload : Sweep(p, u)
    \/ \E h \in Handler, u \in Upload : Ask(h, u) \/ Direct(h, u)
    \/ \E h \in Handler : Serve(h) \/ Body(h) \/ BodyFails(h) \/ Multipart(h) \/ HangUp(h)
    \/ \E w \in writes : Lands(w)
    \/ \E c \in cuts : CutLands(c)
    \/ \E u \in Upload : Abandon(u) \/ Age(u)
    \/ Restart

Spec == Init /\ [][Next]_vars

(* What the server does by itself goes on: the maintenance task ticks, a   *)
(* mutex is fair, operations land.  A body comes when the client sends it. *)
ServerSpec ==
    /\ Spec
    /\ WF_vars(JanitorStarts) /\ WF_vars(JanitorEnds)
    /\ \A u \in Upload : SF_vars(Sweep("janitor", u))
    /\ \A h \in Handler : WF_vars(Serve(h))
    /\ \A h \in Handler :
         /\ WF_vars(\E w \in writes : w.by = h /\ Lands(w))
         /\ WF_vars(\E c \in cuts : c.by = h /\ CutLands(c))

(* The client sends its chunk to the end, or the server notices it does not *)
FairSpec == ServerSpec /\ \A h \in Handler : WF_vars(Body(h))

-----------------------------------------------------------------------------
TypeOK ==
    /\ open \subseteq Upload /\ declared \subseteq Upload /\ stale \subseteq Upload
    /\ library \subseteq Upload
    /\ received \in [Upload -> Nat] /\ \A u \in Upload \ torn : received[u] <= MaxUpload
    /\ lock \in [Upload -> Handler \cup {NoOne}]
    /\ data \in [Upload -> Seq(0..Chunks)]
    /\ place \in [Upload -> {"none", "temp", "videos", "removed"}]
    /\ writes \subseteq [upload : Upload, chunk : 1..Chunks, by : Handler]
    /\ cuts \subseteq [upload : Upload, to : Nat, by : Handler] /\ torn \subseteq Upload
    /\ proc \in [Process -> [at : {"idle", "sweep", "open", "body", "flush", "undo",
                                   "multipart", "process", "publish"},
                             upload : Upload \cup {"none"}, chunk : 0..Finish,
                             base : Nat, todo : SUBSET Upload]]
    /\ client \in [Upload -> [next : 0..GivenUp, waits : Handler \cup {NoOne}]]
    /\ counted \in [Upload -> Seq(1..Chunks)] /\ claimed \in [Upload -> Seq(0..Chunks)]

(* The lifecycle lock: a chunk is written, and rolled back, by one handler *)
(* at a time, to a session that neither a finish nor a sweep has taken     *)
(* (append_chunk).                                                         *)
WriterOwnsSession ==
    \A h \in Handler :
        proc[h].at \in {"open", "body", "flush", "undo"} => U(h) \in open /\ lock[U(h)] = h

(* What the client was told is received is in the file as long as there is *)
(* a session, whatever is retried, rolled back or lands late, until a      *)
(* roll-back that its handler did not live to await changes the file       *)
(* (rollback_partial_chunk).                                               *)
Acked(u) ==
    \A c \in 1..(client[u].next - 1) :
        client[u].next <= Finish => \E i \in 1..Len(data[u]) : data[u][i] = c
AckedIsOnDisk == \A u \in open \ torn : Acked(u)

(* Two lengths are enough: a file that finish claims holds exactly the     *)
(* chunks that were counted, and the whole upload when its size was        *)
(* declared, unless such a roll-back changed it.  (An operation that lands *)
(* later still reaches a renamed file.)                                    *)
ClaimWhole(u) ==
    claimed[u] # <<>> =>
        /\ claimed[u] = counted[u]
        /\ u \in declared => claimed[u] = [i \in 1..Chunks |-> i]
ClaimIsWhole == \A u \in Upload \ torn : ClaimWhole(u)

(* Neither holds of a file that such a roll-back has changed.              *)
AckedIsOnDiskAlways == \A u \in open : Acked(u)
ClaimIsWholeAlways == \A u \in Upload : ClaimWhole(u)

(* A session without activity for six hours goes, when the bodies of its   *)
(* chunks end.                                                             *)
StaleSessionGoes == \A u \in Upload : (u \in open \cap stale) ~> (u \notin open \cap stale)

(* "Runtime sweeps stale DB/cache/upload/streaming state every minute"     *)
(* (README.md): the maintenance task is not held up by a client.           *)
SweepEnds == (proc["janitor"].at = "sweep") ~> (proc["janitor"].at = "idle")
=============================================================================
