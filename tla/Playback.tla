----------------------------- MODULE Playback -----------------------------
(***************************************************************************)
(* The playback sessions of one title and one user: what a resolve found   *)
(* is stored under the title, language and quality, is served again while  *)
(* it looks healthy, and is checked against the CDN when it is due.  The   *)
(* check is claimed by compare-and-set on next_validation_at, which holds  *)
(* a deadline (positive) or the end of the claimant's lease (negative).    *)
(* Requests, checks that outlive them, reports of the player, deletions    *)
(* and restarts interleave between any two statements of SQLite.           *)
(***************************************************************************)
EXTENDS Integers, FiniteSets

CONSTANTS
    Key,        \* session keys of the title
    AutoOf,     \* the "auto" language key a key replaces
    Source,     \* URL, hash, file and credential scope of a stream
    Request,    \* resolve requests
    Wants,      \* the key each request's language and quality make
    Pinned,     \* requests that ask for one source
    Reporter,   \* POST /api/session/progress requests
    Says,       \* what each may say of its source: that it failed, that it
                \* plays, or nothing, which keeps the health of the session
    Lease,      \* PLAYBACK_SESSION_VALIDATION_LEASE_MS
    Interval,   \* PLAYBACK_SESSION_VALIDATE_INTERVAL_MS
    NoSource, NoOne,
    MaxTime,    \* bound: the clock
    MaxChecks,  \* bound: checks in flight at once
    MaxLeft     \* bound: latest sessions that pass a request's filters

ASSUME PlaybackAssumption ==
    /\ AutoOf \in [Key -> Key] /\ Wants \in [Request -> Key]
    /\ Says \in [Reporter -> SUBSET {"failed", "plays", "kept"}]
    /\ Lease \in Nat \ {0} /\ Interval \in Nat /\ Lease <= Interval
    /\ NoSource \notin Source /\ NoOne \notin Request

VARIABLES
    row,      \* playback_sessions
    now,
    request,  \* [Request -> what it tries next]
    checks,   \* spawned validations
    report,   \* [Reporter -> where the handler is]
    failed,   \* history: sources reported, and since then neither stored
              \* again nor said to play
    kept      \* history: those of them that a report put back which said
              \* nothing of the source

history == <<failed, kept>>
vars == <<row, now, request, checks, report, history>>

\* AutoOf[k] = k where the key is the "auto" one
NoRow == [src |-> NoSource, healthy |-> FALSE, due |-> 0]
Stored(s, due) == [src |-> s, healthy |-> TRUE, due |-> due]
MutExists(k) == TRUE
Exists(k) == row[k].src # NoSource
\* health_state alone: next_validation_at stays
Health(k, healthy) == [src |-> row[k].src, healthy |-> healthy, due |-> row[k].due]
Sick(k) == Health(k, FALSE)

Session == [key: Key, src: Source]
Snapshot(k) == [key |-> k, src |-> row[k].src, due |-> row[k].due]

\* left: candidates not tried yet; looked: the latest sessions were listed
Place(at, looked, left, session) ==
    [at |-> at, looked |-> looked, left |-> left, session |-> session]
NoSession == [key |-> NoOne, src |-> NoSource]
Gone == Place("idle", FALSE, {}, NoSession)
Go(r, at, left, session) ==
    request' = [request EXCEPT ![r] =
                    Place(at, request[r].looked, left, session)]
\* what the response is built from, and stored with it under the request's key
Build(r, s) == Place("build", FALSE, {}, [key |-> Wants[r], src |-> s])

\* late (history): since the claim the row was stored, claimed, refreshed or
\* deleted by another
Check(k, s, token, r) ==
    [key |-> k, src |-> s, token |-> token, by |-> r, late |-> FALSE]
MadeLate(keys, cs) ==
    {IF c.key \in keys
     THEN [key |-> c.key, src |-> c.src, token |-> c.token, by |-> c.by, late |-> TRUE]
     ELSE c : c \in cs}
Unheard(r, cs) ==
    {IF c.by = r
     THEN [key |-> c.key, src |-> c.src, token |-> c.token, by |-> NoOne, late |-> c.late]
     ELSE c : c \in cs}

Idle == [at |-> "idle", key |-> NoOne, src |-> NoSource, says |-> "nothing"]

Init ==
    /\ row = [k \in Key |-> NoRow]
    /\ now = 1
    /\ request = [r \in Request |-> Gone]
    /\ checks = {}
    /\ report = [p \in Reporter |-> Idle]
    /\ failed = {} /\ kept = {}
---------------------------------------------------------------------------
IsDue(s) == s.due < 0 \/ (s.due > 0 /\ s.due <= now)

Same(s) == [key |-> s.key, src |-> s.src]

\* What becomes of a session that was read: another film's filename, reuse
\* after a check that is due, or reuse at once.
After(r, s, looked, left) ==
    {Place("mismatch", looked, left, Same(s)),
     IF IsDue(s) THEN Place("claim", looked, left, Same(s)) ELSE Build(r, s.src)}

\* A resolve request looks its own keys up; the first row there decides.  The
\* request's filters may reject the session.
LookUp(r, asked) ==
    LET first == IF Exists(asked) THEN asked ELSE Wants[r]
    IN  /\ request[r].at = "idle"
        /\ \/ request' = [request EXCEPT ![r] = Place("try", FALSE, {}, NoSession)]
           \/ /\ row[first].healthy
              /\ \E next \in After(r, Snapshot(first), FALSE, {}) :
                    request' = [request EXCEPT ![r] = next]
        /\ UNCHANGED <<row, now, checks, report, history>>

\* Nothing of its own is left: the latest healthy sessions of the title that
\* pass the request's filters.
ListLatest(r) ==
    /\ request[r].at = "try" /\ ~request[r].looked /\ r \notin Pinned
    /\ \E left \in SUBSET {Snapshot(k) : k \in {q \in Key : row[q].healthy}} :
          /\ Cardinality(left) <= MaxLeft
          /\ request' = [request EXCEPT ![r] = Place("try", TRUE, left, NoSession)]
    /\ UNCHANGED <<row, now, checks, report, history>>

Consider(r, s) ==
    /\ request[r].at = "try" /\ s \in request[r].left
    /\ \E next \in After(r, s, TRUE, request[r].left \ {s}) :
          request' = [request EXCEPT ![r] = next]
    /\ UNCHANGED <<row, now, checks, report, history>>

\* invalidate_playback_session writes by the key alone
Mismatch(r) ==
    LET k == request[r].session.key
    IN  /\ request[r].at = "mismatch"
        /\ row' = [row EXCEPT ![k] = Sick(k)]
        /\ Go(r, "try", request[r].left, NoSession)
        /\ UNCHANGED <<now, checks, report, history>>
---------------------------------------------------------------------------
Matches(s) == row[s.key].healthy /\ row[s.key].src = s.src
IsFresh(k) == row[k].due = 0 \/ row[k].due > now
MutIsLeased(k) == FALSE
IsLeased(k) == row[k].due < 0 /\ -row[k].due > now
Claimable(s) == Matches(s) /\ ~IsFresh(s.key) /\ ~IsLeased(s.key)

Token == -(now + Lease)

\* try_claim_playback_session_validation in one immediate transaction
Unavailable(r) ==
    /\ request[r].at = "claim" /\ ~Matches(request[r].session)
    /\ Go(r, "try", request[r].left, NoSession)
    /\ UNCHANGED <<row, now, checks, report, history>>

\* newer state owns the row: the snapshot is served and not stored again
ServeStale(r) ==
    LET s == request[r].session
    IN  /\ request[r].at = "claim" /\ Matches(s) /\ (IsFresh(s.key) \/ IsLeased(s.key))
        /\ request' = [request EXCEPT ![r] = Gone]
        /\ UNCHANGED <<row, now, checks, report, history>>

Claim(r) ==
    LET s == request[r].session
    IN  /\ request[r].at = "claim" /\ Claimable(s)
        /\ Cardinality(checks) < MaxChecks
        /\ row' = [row EXCEPT ![s.key] = Stored(row[s.key].src, Token)]
        /\ checks' = MadeLate({s.key}, checks) \cup {Check(s.key, s.src, Token, r)}
        /\ Go(r, "grace", request[r].left, s)
        /\ UNCHANGED <<now, report, history>>

\* the request is dropped while SQLite commits its claim: nobody checks
ClaimLost(r) ==
    LET s == request[r].session
    IN  /\ request[r].at = "claim" /\ Claimable(s)
        /\ row' = [row EXCEPT ![s.key] = Stored(row[s.key].src, Token)]
        /\ checks' = MadeLate({s.key}, checks)
        /\ request' = [request EXCEPT ![r] = Gone]
        /\ UNCHANGED <<now, report, history>>

MutCurrent(c) == row[c.key].healthy /\ row[c.key].src = c.src
\* WHERE of both conditional updates
Current(c) ==
    /\ row[c.key].healthy /\ row[c.key].src = c.src
    /\ row[c.key].due = c.token

\* The HEAD request (external) fails definitively or not; refresh or
\* invalidate if current; the request hears of it if it still waits.
Verdict(c, bad) ==
    /\ row' = IF Current(c)
              THEN [row EXCEPT ![c.key] = IF bad THEN Sick(c.key)
                                                 ELSE Stored(c.src, now + Interval)]
              ELSE row
    /\ checks' = IF Current(c) /\ ~bad THEN MadeLate({c.key}, checks \ {c}) ELSE checks \ {c}
    /\ IF c.by = NoOne
       THEN UNCHANGED request
       ELSE IF Current(c) /\ ~bad
            THEN request' = [request EXCEPT ![c.by] = Build(c.by, c.src)]
            ELSE Go(c.by, "try", request[c.by].left, NoSession)
    /\ UNCHANGED <<now, report, history>>

GraceEnds(r) ==
    /\ request[r].at = "grace"
    /\ request' = [request EXCEPT ![r] = Gone]
    /\ checks' = Unheard(r, checks)
    /\ UNCHANGED <<row, now, report, history>>
---------------------------------------------------------------------------
\* a full resolve; none of the candidates may work
Resolve(r, s) ==
    /\ request[r].at = "try" /\ request[r].left = {}
    /\ request' = [request EXCEPT ![r] = Build(r, s)]
    /\ UNCHANGED <<row, now, checks, report, history>>

HangUp(r) ==
    /\ request[r].at # "idle"
    /\ request' = [request EXCEPT ![r] = Gone]
    /\ checks' = Unheard(r, checks)
    /\ UNCHANGED <<row, now, report, history>>

\* build_resolved_response stores what it serves under the request's key,
\* whatever happened to that row, and deletes the "auto" row
Persist(r) ==
    LET k == Wants[r]
        s == request[r].session.src
    IN  /\ request[r].at = "build"
        /\ row' = [q \in Key |-> IF q = k THEN Stored(s, now + Interval)
                                 ELSE IF q = AutoOf[k] THEN NoRow ELSE row[q]]
        /\ checks' = MadeLate({k, AutoOf[k]}, checks)
        /\ failed' = failed \ {s} /\ kept' = kept \ {s}
        /\ request' = [request EXCEPT ![r] = Gone]
        /\ UNCHANGED <<now, report>>
---------------------------------------------------------------------------
\* session_progress_handler: a report says that the source failed or that it
\* plays; without healthState it keeps the health of the session it read.
ReportRead(p, k, says) ==
    /\ report[p].at = "idle" /\ Exists(k)
    /\ says = "kept" => row[k].healthy
    /\ report' = [report EXCEPT ![p] =
           [at |-> "write", key |-> k, says |-> says,
            src |-> IF says = "failed" THEN row[k].src ELSE NoSource]]
    /\ UNCHANGED <<row, now, request, checks, history>>

\* update_playback_session_progress writes the health by the key alone,
\* whatever happened to the row, and its own read may miss a deletion.
ReportWrite(p) ==
    LET k == report[p].key
        s == row[k].src
        fails == report[p].says = "failed"
        Hash == [at |-> "hash", key |-> NoOne, src |-> report[p].src, says |-> "failed"]
    IN  /\ report[p].at = "write"
        /\ row' = [row EXCEPT ![k] = IF Exists(k) THEN Health(k, ~fails) ELSE @]
        /\ \/ fails /\ report' = [report EXCEPT ![p] = Hash]
           \/ ~(fails /\ Exists(k)) /\ report' = [report EXCEPT ![p] = Idle]
        /\ failed' = IF report[p].says = "plays" THEN failed \ {s} ELSE failed
        /\ kept' = CASE fails -> kept
                     [] report[p].says = "plays" -> kept \ {s}
                     [] OTHER -> kept \cup ({s} \cap failed)
        /\ UNCHANGED <<now, request, checks>>

MutCopies(s) == {}
Copies(s) == {k \in Key : row[k].src = s}

ReportHash(p) ==
    LET s == report[p].src
    IN  /\ report[p].at = "hash"
        /\ row' = [k \in Key |-> IF k \in Copies(s) THEN Sick(k) ELSE row[k]]
        /\ failed' = failed \cup {s} /\ kept' = kept \ {s}
        /\ report' = [report EXCEPT ![p] = Idle]
        /\ UNCHANGED <<now, request, checks>>
---------------------------------------------------------------------------
\* cleared preferences, the 30 day sweep and the trim delete rows
Delete(keys) ==
    /\ row' = [k \in Key |-> IF k \in keys THEN NoRow ELSE row[k]]
    /\ checks' = MadeLate(keys, checks)
    /\ UNCHANGED <<now, request, report, history>>
Evict(k) == Exists(k) /\ Delete({k})
Clear == (\E k \in Key : Exists(k)) /\ Delete(Key)

Restart ==
    /\ request' = [r \in Request |-> Gone]
    /\ checks' = {}
    /\ report' = [p \in Reporter |-> Idle]
    /\ UNCHANGED <<row, now, history>>

Tick ==
    /\ now < MaxTime /\ now' = now + 1
    /\ UNCHANGED <<row, request, checks, report, history>>

Resolving(r) ==
    \/ \E asked \in Key : LookUp(r, asked)
    \/ ListLatest(r) \/ HangUp(r)
    \/ (\E s \in request[r].left : Consider(r, s)) \/ Mismatch(r)
    \/ Unavailable(r) \/ ServeStale(r) \/ Claim(r) \/ ClaimLost(r) \/ GraceEnds(r)
    \/ \E s \in Source : Resolve(r, s)
    \/ Persist(r)

Checking == \E c \in checks, bad \in BOOLEAN : Verdict(c, bad)

Reporting(p) ==
    \/ \E k \in Key, says \in Says[p] : ReportRead(p, k, says)
    \/ ReportWrite(p) \/ ReportHash(p)

Next ==
    \/ \E r \in Request : Resolving(r)
    \/ Checking
    \/ \E p \in Reporter : Reporting(p)
    \/ (\E k \in Key : Evict(k)) \/ Clear \/ Restart \/ Tick

Spec == Init /\ [][Next]_vars
---------------------------------------------------------------------------
Row == [src: Source \cup {NoSource}, healthy: BOOLEAN, due: Int]
RequestState ==
    [at: {"idle", "try", "mismatch", "claim", "grace", "build"},
     looked: BOOLEAN, left: SUBSET [key: Key, src: Source, due: Int],
     session: Session \cup {NoSession}]
CheckState ==
    [key: Key, src: Source, token: Int, by: Request \cup {NoOne}, late: BOOLEAN]
ReportState ==
    [at: {"idle", "write", "hash"}, key: Key \cup {NoOne}, src: Source \cup {NoSource},
     says: {"nothing", "failed", "plays", "kept"}]

TypeOK ==
    /\ row \in [Key -> Row]
    /\ now \in Nat \ {0}
    /\ request \in [Request -> RequestState]
    /\ checks \in SUBSET CheckState
    /\ report \in [Reporter -> ReportState]
    /\ failed \in SUBSET Source /\ kept \in SUBSET failed

\* A check whose session was claimed, checked or stored again or deleted since
\* finds its conditional update matches no row, also when a report has put an
\* invalid session back with the next_validation_at it had: its verdict is
\* dropped (refresh and invalidate ..._if_current).
LateVerdictHarmless == \A c \in checks : c.late => ~Current(c)

\* "differently-shaped resolve requests that converge on the same session
\* cannot start a HEAD storm": two checks of one key never run within their
\* leases, even if the session was stored again or deleted in between.
NoHeadStorm ==
    \A c, d \in checks : c.key = d.key /\ c # d => -c.token <= now \/ -d.token <= now

\* A source a player reported is in no healthy session of the title, under
\* whatever key a reuse copied it to, until a resolve stores it again or a
\* player says that it plays; but a report that says nothing of its source may
\* put it back (session_progress_handler).
ReportedSourceIsOut == \A k \in Key : row[k].healthy => row[k].src \notin failed \ kept

\* Such a report does.
ReportedSourceIsOutAlways == \A k \in Key : row[k].healthy => row[k].src \notin failed
===========================================================================
