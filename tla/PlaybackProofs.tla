--------------------------- MODULE PlaybackProofs ---------------------------
(***************************************************************************)
(* Proofs about Playback for any number of keys, sources, requests,        *)
(* reporters and checks, and any clock: a check that is late changes       *)
(* nothing, checks of a key do not overlap within their leases, and a      *)
(* reported source is in no healthy session unless a report put it back.   *)
(***************************************************************************)
EXTENDS Playback, TLAPS

-----------------------------------------------------------------------------
(* The inductive invariant.                                                *)

(* A row, healthy or not, has a deadline or a lease. *)
GoodRow == {q \in Row : /\ q.healthy => q.src \in Source
                        /\ q.src \in Source => q.due # 0}

(* A request that is about to claim, invalidate or store has a session. *)
Ready == {q \in RequestState : q.at \in {"mismatch", "claim", "build"} => q.session \in Session}

GoodReport == {q \in ReportState :
                 /\ q.at = "write" => q.key \in Key
                 /\ q.at = "hash" => q.says = "failed"
                 /\ q.says = "failed" => q.src \in Source}

GoodCheck == {c \in CheckState : c.token < 0}

TypeInv ==
    /\ row \in [Key -> GoodRow]
    /\ now \in Nat \ {0}
    /\ request \in [Request -> Ready]
    /\ checks \in SUBSET GoodCheck
    /\ report \in [Reporter -> GoodReport]
    /\ failed \in SUBSET Source /\ kept \in SUBSET failed

(* Where the row of a check stands, healthy or not, as a report may put it *)
(* back: its deadline is no earlier than the end of the check's lease, and *)
(* a lease in it is the check's own or begins after the check's has ended. *)
Outlived(c, q) ==
    /\ q.due > 0 => -c.token <= q.due
    /\ q.due < 0 => \/ -c.token + Lease <= -q.due
                    \/ c.token = q.due /\ ~c.late

LeaseInv ==
    \A c \in checks : -c.token <= now + Lease /\ Outlived(c, row[c.key])

(* NoHeadStorm of a set of checks. *)
NoStorm(cs) ==
    \A c, d \in cs : c.key = d.key /\ c # d => -c.token <= now \/ -d.token <= now

-----------------------------------------------------------------------------
(* Members of the sets that MadeLate and Unheard make keep all but their   *)
(* mark: a row that is written marks the checks of its key.                *)
LEMMA MadeLateMembers ==
    ASSUME NEW keys, NEW cs \in SUBSET GoodCheck
    PROVE  /\ MadeLate(keys, cs) \in SUBSET GoodCheck
           /\ \A c \in MadeLate(keys, cs) : \E d \in cs :
                /\ c.key = d.key /\ c.token = d.token
                /\ d.key \notin keys => c = d
<1> DEFINE late(d) == IF d.key \in keys
        THEN [key |-> d.key, src |-> d.src, token |-> d.token, by |-> d.by, late |-> TRUE] ELSE d
<1>1. \A d \in cs : late(d) \in GoodCheck /\ late(d).key = d.key /\ late(d).token = d.token
  BY DEF GoodCheck, CheckState
<1>2. MadeLate(keys, cs) = {late(d) : d \in cs} /\ \A d \in cs : d.key \notin keys => late(d) = d
  BY DEF MadeLate
<1> HIDE DEF late
<1> QED BY <1>1, <1>2

LEMMA UnheardMembers ==
    ASSUME NEW r, NEW cs \in SUBSET GoodCheck
    PROVE  /\ Unheard(r, cs) \in SUBSET GoodCheck
           /\ \A c \in Unheard(r, cs) : \E d \in cs :
                c.key = d.key /\ c.token = d.token /\ c.late = d.late
<1> DEFINE deaf(d) == IF d.by = r
        THEN [key |-> d.key, src |-> d.src, token |-> d.token, by |-> NoOne, late |-> d.late] ELSE d
<1>1. \A d \in cs : /\ deaf(d) \in GoodCheck
                    /\ deaf(d).key = d.key /\ deaf(d).token = d.token /\ deaf(d).late = d.late
  BY DEF GoodCheck, CheckState
<1>2. Unheard(r, cs) = {deaf(d) : d \in cs}
  BY DEF Unheard
<1> HIDE DEF deaf
<1> QED BY <1>1, <1>2

(* Two checks that differ after either were two before: neither starts a   *)
(* check.                                                                  *)
LEMMA MadeLateStorm ==
    ASSUME NEW keys, NEW cs \in SUBSET GoodCheck, NoStorm(cs)
    PROVE  NoStorm(MadeLate(keys, cs))
<1> DEFINE late(d) == IF d.key \in keys
        THEN [key |-> d.key, src |-> d.src, token |-> d.token, by |-> d.by, late |-> TRUE] ELSE d
<1> SUFFICES ASSUME NEW c \in MadeLate(keys, cs), NEW e \in MadeLate(keys, cs),
                    c.key = e.key, c # e
             PROVE  -c.token <= now \/ -e.token <= now
  BY DEF NoStorm
<1>1. PICK d \in cs : c = late(d)
  BY DEF MadeLate
<1>2. PICK f \in cs : e = late(f)
  BY DEF MadeLate
<1>3. /\ c.key = d.key /\ c.token = d.token /\ e.key = f.key /\ e.token = f.token
  BY <1>1, <1>2
<1>4. d # f
  BY <1>1, <1>2
<1> HIDE DEF late
<1> QED BY <1>3, <1>4 DEF NoStorm

LEMMA UnheardStorm ==
    ASSUME NEW r, NEW cs \in SUBSET GoodCheck, NoStorm(cs)
    PROVE  NoStorm(Unheard(r, cs))
<1> DEFINE deaf(d) == IF d.by = r
        THEN [key |-> d.key, src |-> d.src, token |-> d.token, by |-> NoOne, late |-> d.late] ELSE d
<1> SUFFICES ASSUME NEW c \in Unheard(r, cs), NEW e \in Unheard(r, cs),
                    c.key = e.key, c # e
             PROVE  -c.token <= now \/ -e.token <= now
  BY DEF NoStorm
<1>1. PICK d \in cs : c = deaf(d)
  BY DEF Unheard
<1>2. PICK f \in cs : e = deaf(f)
  BY DEF Unheard
<1>3. /\ c.key = d.key /\ c.token = d.token /\ e.key = f.key /\ e.token = f.token
  BY <1>1, <1>2
<1>4. d # f
  BY <1>1, <1>2
<1> HIDE DEF deaf
<1> QED BY <1>3, <1>4 DEF NoStorm

-----------------------------------------------------------------------------
(* Records that actions write have their types.                            *)
LEMMA RowTypes ==
    ASSUME TypeInv
    PROVE  /\ NoRow \in GoodRow
           /\ \A k \in Key : Sick(k) \in GoodRow
           /\ \A k \in Key : Exists(k) => Health(k, TRUE) \in GoodRow
           /\ \A s \in Source : \A due \in Int : due # 0 => Stored(s, due) \in GoodRow
BY PlaybackAssumption DEF TypeInv, GoodRow, Row, NoRow, Sick, Health, Stored, Exists, PlaybackAssumption

LEMMA PlaceTypes ==
    ASSUME PlaybackAssumption
    PROVE  /\ Gone \in Ready
           /\ \A r \in Request, s \in Source : Build(r, s) \in Ready
           /\ \A at \in {"idle", "try", "mismatch", "claim", "grace", "build"} :
              \A looked \in BOOLEAN, left \in SUBSET [key : Key, src : Source, due : Int] :
              \A session \in Session \cup {NoSession} :
                 (at \in {"mismatch", "claim", "build"} => session \in Session)
                 => Place(at, looked, left, session) \in Ready
BY DEF PlaybackAssumption, Gone, Build, Place, Ready, RequestState, Session

LEMMA Request1 ==
    ASSUME TypeInv, NEW r \in Request
    PROVE  /\ request[r].looked \in BOOLEAN
           /\ request[r].left \in SUBSET [key : Key, src : Source, due : Int]
           /\ request[r].at \in {"mismatch", "claim", "build"} => request[r].session \in Session
BY DEF TypeInv, Ready, RequestState

LEMMA AfterTypes ==
    ASSUME PlaybackAssumption, NEW r \in Request, NEW s \in [key : Key, src : Source, due : Int],
           NEW looked \in BOOLEAN, NEW left \in SUBSET [key : Key, src : Source, due : Int]
    PROVE  After(r, s, looked, left) \subseteq Ready
<1>1. Same(s) \in Session /\ s.src \in Source
  BY DEF Same, Session
<1> QED BY <1>1, PlaceTypes DEF After

-----------------------------------------------------------------------------
(* TypeInv is inductive.                                                   *)

(* What one request reads and decides (try_reuse_playback_session,         *)
(* try_reuse_latest_healthy_playback_session) changes nothing else.        *)
LEMMA ReadsType ==
    ASSUME PlaybackAssumption, TypeInv, NEW r \in Request,
           \/ \E asked \in Key : LookUp(r, asked)
           \/ ListLatest(r)
           \/ \E s \in request[r].left : Consider(r, s)
           \/ Unavailable(r) \/ ServeStale(r)
           \/ \E s \in Source : Resolve(r, s)
    PROVE  TypeInv' /\ UNCHANGED <<row, now, checks, report, history>>
<1>1. /\ UNCHANGED <<row, now, checks, report, history>>
      /\ \E q \in Ready : request' = [request EXCEPT ![r] = q]
  <2>1. CASE \E asked \in Key : LookUp(r, asked)
    <3>1. PICK asked \in Key : LookUp(r, asked)
      BY <2>1
    <3> DEFINE first == IF Exists(asked) THEN asked ELSE Wants[r]
    <3>2. first \in Key
      BY DEF PlaybackAssumption
    <3>3. row[first].healthy => Snapshot(first) \in [key : Key, src : Source, due : Int]
      BY <3>2 DEF TypeInv, GoodRow, Row, Snapshot
    <3>4. /\ UNCHANGED <<row, now, checks, report, history>>
          /\ \/ request' = [request EXCEPT ![r] = Place("try", FALSE, {}, NoSession)]
             \/ /\ row[first].healthy
                /\ \E next \in After(r, Snapshot(first), FALSE, {}) :
                      request' = [request EXCEPT ![r] = next]
      BY <3>1 DEF LookUp
    <3> HIDE DEF first
    <3>5. Place("try", FALSE, {}, NoSession) \in Ready
      BY PlaceTypes
    <3>6. row[first].healthy => After(r, Snapshot(first), FALSE, {}) \subseteq Ready
      BY <3>3, AfterTypes
    <3> QED BY <3>4, <3>5, <3>6
  <2>2. CASE ListLatest(r)
    <3> DEFINE all == {Snapshot(k) : k \in {q \in Key : row[q].healthy}}
    <3>1. all \subseteq [key : Key, src : Source, due : Int]
      BY DEF TypeInv, GoodRow, Row, Snapshot
    <3>2. \E left \in SUBSET all : request' = [request EXCEPT ![r] = Place("try", TRUE, left, NoSession)]
      BY <2>2 DEF ListLatest
    <3>3. UNCHANGED <<row, now, checks, report, history>>
      BY <2>2 DEF ListLatest
    <3> HIDE DEF all
    <3>4. \A left \in SUBSET all : Place("try", TRUE, left, NoSession) \in Ready
      BY <3>1, PlaceTypes
    <3> QED BY <3>2, <3>3, <3>4
  <2>3. CASE \E s \in request[r].left : Consider(r, s)
    <3>1. PICK s \in request[r].left : Consider(r, s)
      BY <2>3
    <3>2. /\ s \in [key : Key, src : Source, due : Int]
          /\ request[r].left \ {s} \in SUBSET [key : Key, src : Source, due : Int]
      BY Request1
    <3>3. After(r, s, TRUE, request[r].left \ {s}) \subseteq Ready
      BY <3>2, AfterTypes
    <3> QED BY <3>1, <3>3 DEF Consider
  <2>4. CASE Unavailable(r)
    BY <2>4, Request1, PlaceTypes DEF Unavailable, Go
  <2>5. CASE ServeStale(r)
    BY <2>5, PlaceTypes DEF ServeStale
  <2>6. CASE \E s \in Source : Resolve(r, s)
    BY <2>6, PlaceTypes DEF Resolve
  <2> QED BY <2>1, <2>2, <2>3, <2>4, <2>5, <2>6
<1> QED BY <1>1 DEF history, TypeInv

(* The steps of a request that write, and its end. *)
LEMMA WritesType ==
    ASSUME PlaybackAssumption, TypeInv, NEW r \in Request,
           Mismatch(r) \/ Claim(r) \/ ClaimLost(r) \/ GraceEnds(r) \/ HangUp(r) \/ Persist(r)
    PROVE  TypeInv'
<1>1. Token \in Int /\ Token < 0 /\ now + Interval \in Int /\ now + Interval > 0
  BY DEF TypeInv, Token, PlaybackAssumption
<1>2. CASE Mismatch(r)
  <2>1. request[r].session.key \in Key
    BY <1>2, Request1 DEF Mismatch, Session
  <2>2. row' \in [Key -> GoodRow]
    BY <1>2, <2>1, RowTypes DEF Mismatch, TypeInv
  <2>3. request' \in [Request -> Ready]
    BY <1>2, Request1, PlaceTypes DEF Mismatch, Go, TypeInv
  <2>4. checks' \in SUBSET GoodCheck
    BY <1>2, MadeLateMembers DEF Mismatch, TypeInv
  <2> QED BY <1>2, <2>2, <2>3, <2>4 DEF history, Mismatch, TypeInv
<1>3. CASE Claim(r) \/ ClaimLost(r)
  <2> DEFINE s == request[r].session
  <2>1. s \in Session /\ s.key \in Key /\ s.src \in Source
    BY <1>3, Request1 DEF Claim, ClaimLost, Session
  <2>2. row[s.key].src \in Source
    BY <1>3, <2>1 DEF Claim, ClaimLost, Claimable, Matches
  <2>3. row' = [row EXCEPT ![s.key] = Stored(row[s.key].src, Token)]
    BY <1>3 DEF Claim, ClaimLost
  <2>4. UNCHANGED <<now, report, history>>
    BY <1>3 DEF Claim, ClaimLost
  <2>5. \/ request' = [request EXCEPT ![r] = Place("grace", request[r].looked, request[r].left, s)]
        \/ request' = [request EXCEPT ![r] = Gone]
    BY <1>3 DEF Claim, ClaimLost, Go
  <2>6. \/ checks' = MadeLate({s.key}, checks) \cup {Check(s.key, s.src, Token, r)}
        \/ checks' = MadeLate({s.key}, checks)
    BY <1>3 DEF Claim, ClaimLost
  <2>7. Check(s.key, s.src, Token, r) \in GoodCheck
    BY <1>1, <2>1 DEF Check, GoodCheck, CheckState
  <2> HIDE DEF s
  <2>8. row' \in [Key -> GoodRow]
    <3>1. Token # 0
      BY <1>1
    <3>2. Stored(row[s.key].src, Token) \in GoodRow
      BY <1>1, <2>2, <3>1, RowTypes
    <3> QED BY <2>3, <3>2 DEF TypeInv
  <2>9. request' \in [Request -> Ready]
    BY <2>1, <2>5, Request1, PlaceTypes DEF TypeInv
  <2>10. checks' \in SUBSET GoodCheck
    BY <2>6, <2>7, MadeLateMembers DEF TypeInv
  <2> QED BY <2>4, <2>8, <2>9, <2>10 DEF history, TypeInv
<1>4. CASE GraceEnds(r) \/ HangUp(r)
  <2>1. /\ request' = [request EXCEPT ![r] = Gone] /\ checks' = Unheard(r, checks)
        /\ UNCHANGED <<row, now, report, history>>
    BY <1>4 DEF GraceEnds, HangUp
  <2>2. checks' \in SUBSET GoodCheck
    BY <2>1, UnheardMembers DEF TypeInv
  <2> QED BY <2>1, <2>2, PlaceTypes DEF history, TypeInv
<1>5. CASE Persist(r)
  <2>1. request[r].session.src \in Source
    BY <1>5, Request1 DEF Persist, Session
  <2>2. row' \in [Key -> GoodRow]
    <3>1. Stored(request[r].session.src, now + Interval) \in GoodRow /\ NoRow \in GoodRow
      BY <1>1, <2>1, RowTypes
    <3> QED BY <1>5, <3>1 DEF Persist, TypeInv
  <2>3. checks' \in SUBSET GoodCheck
    BY <1>5, MadeLateMembers DEF Persist, TypeInv
  <2> QED BY <1>5, <2>2, <2>3, PlaceTypes DEF Persist, TypeInv
<1> QED BY <1>2, <1>3, <1>4, <1>5

(* Verdicts, reports, deletions, restarts and the clock. *)
LEMMA OthersType ==
    ASSUME PlaybackAssumption, TypeInv,
           \/ Checking \/ \E p \in Reporter : Reporting(p)
           \/ (\E k \in Key : Evict(k)) \/ Clear \/ Restart \/ Tick \/ UNCHANGED vars
    PROVE  TypeInv'
<1>1. ASSUME NEW c \in checks, NEW bad \in BOOLEAN, Verdict(c, bad) PROVE TypeInv'
  <2>1. /\ c \in GoodCheck /\ c.key \in Key /\ c.src \in Source
        /\ c.by # NoOne => c.by \in Request
        /\ now + Interval \in Int /\ now + Interval # 0
    BY DEF TypeInv, GoodCheck, CheckState, PlaybackAssumption
  <2>2. row' \in [Key -> GoodRow]
    BY <1>1, <2>1, RowTypes DEF Verdict, TypeInv
  <2>3. checks' \in SUBSET GoodCheck
    <3>1. checks \ {c} \in SUBSET GoodCheck
      BY DEF TypeInv
    <3>2. MadeLate({c.key}, checks \ {c}) \in SUBSET GoodCheck
      BY <3>1, MadeLateMembers
    <3> QED BY <1>1, <3>1, <3>2 DEF Verdict
  <2>4. request' \in [Request -> Ready]
    <3>1. CASE c.by = NoOne
      BY <1>1, <3>1 DEF Verdict, TypeInv
    <3>2. CASE c.by # NoOne
      <4>1. Build(c.by, c.src) \in Ready
        BY <2>1, <3>2, PlaceTypes
      <4>2. Place("try", request[c.by].looked, request[c.by].left, NoSession) \in Ready
        BY <2>1, <3>2, Request1, PlaceTypes
      <4> QED BY <1>1, <3>2, <4>1, <4>2 DEF Verdict, Go, TypeInv
    <3> QED BY <3>1, <3>2
  <2> QED BY <1>1, <2>2, <2>3, <2>4 DEF history, Verdict, TypeInv
<1>2. ASSUME NEW p \in Reporter, NEW k \in Key, NEW says \in Says[p], ReportRead(p, k, says)
      PROVE  TypeInv'
  <2>1. says \in {"failed", "plays", "kept"}
    BY DEF PlaybackAssumption
  <2>2. row[k].src \in Source
    BY <1>2 DEF ReportRead, Exists, TypeInv, GoodRow, Row
  <2>3. [at |-> "write", key |-> k, says |-> says,
         src |-> IF says = "failed" THEN row[k].src ELSE NoSource] \in GoodReport
    BY <2>1, <2>2 DEF GoodReport, ReportState
  <2> QED BY <1>2, <2>3 DEF ReportRead, history, TypeInv
<1>3. ASSUME NEW p \in Reporter, ReportWrite(p) PROVE TypeInv'
  <2> DEFINE k == report[p].key
             hash == [at |-> "hash", key |-> NoOne, src |-> report[p].src, says |-> "failed"]
  <2>1. k \in Key
    BY <1>3 DEF ReportWrite, TypeInv, GoodReport
  <2>2. Idle \in GoodReport /\ (report[p].says = "failed" => hash \in GoodReport)
    BY DEF TypeInv, GoodReport, ReportState, Idle
  <2>3. report' \in [Reporter -> GoodReport]
    BY <1>3, <2>2 DEF ReportWrite, TypeInv
  <2>4. row' \in [Key -> GoodRow]
    <3>1. \A healthy \in BOOLEAN : Exists(k) => Health(k, healthy) \in GoodRow
      BY <2>1, RowTypes DEF Sick
    <3>2. row' = [row EXCEPT ![k] = IF Exists(k) THEN Health(k, report[p].says # "failed")
                                    ELSE row[k]]
      BY <1>3 DEF ReportWrite
    <3> HIDE DEF k
    <3> QED BY <2>1, <3>1, <3>2 DEF TypeInv
  <2>5. failed' \in SUBSET Source /\ kept' \in SUBSET failed'
    BY <1>3 DEF ReportWrite, TypeInv
  <2> QED BY <1>3, <2>3, <2>4, <2>5 DEF ReportWrite, TypeInv
<1>4. ASSUME NEW p \in Reporter, ReportHash(p) PROVE TypeInv'
  <2>1. report[p].src \in Source /\ Idle \in GoodReport
    BY <1>4 DEF ReportHash, TypeInv, GoodReport, ReportState, Idle
  <2>2. row' \in [Key -> GoodRow] /\ report' \in [Reporter -> GoodReport]
    BY <1>4, <2>1, RowTypes DEF ReportHash, TypeInv
  <2> QED BY <1>4, <2>1, <2>2 DEF ReportHash, TypeInv
<1>5. ASSUME NEW keys, Delete(keys) PROVE TypeInv'
  <2>1. row' \in [Key -> GoodRow]
    BY <1>5, RowTypes DEF Delete, TypeInv
  <2>2. checks' \in SUBSET GoodCheck
    BY <1>5, MadeLateMembers DEF Delete, TypeInv
  <2> QED BY <1>5, <2>1, <2>2 DEF history, Delete, TypeInv
<1>6. CASE Restart
  <2>1. Idle \in GoodReport
    BY DEF GoodReport, ReportState, Idle
  <2> QED BY <1>6, <2>1, PlaceTypes DEF history, Restart, TypeInv
<1>7. CASE Tick
  BY <1>7 DEF history, Tick, TypeInv
<1>8. CASE UNCHANGED vars
  BY <1>8 DEF history, vars, TypeInv
<1> QED
  BY <1>1, <1>2, <1>3, <1>4, <1>5, <1>6, <1>7, <1>8 DEF Checking, Reporting, Evict, Clear

LEMMA TypeStep ==
    ASSUME PlaybackAssumption, TypeInv, [Next]_vars
    PROVE  TypeInv'
BY ReadsType, WritesType, OthersType DEF Next, Resolving

LEMMA TypeInit ==
    ASSUME PlaybackAssumption, Init
    PROVE  TypeInv
<1>1. NoRow \in GoodRow /\ Idle \in GoodReport
  BY DEF GoodRow, Row, NoRow, GoodReport, ReportState, Idle
<1> QED BY <1>1, PlaceTypes DEF Init, TypeInv

-----------------------------------------------------------------------------
(* What a step but a claim and the clock does to rows and checks: rows of  *)
(* the given keys go or get a deadline, and their checks may be marked; no *)
(* check begins.                                                           *)
Deadlines(keys) ==
    \A k \in Key : IF k \in keys THEN row'[k].due \in {0, now + Interval}
                                 ELSE row'[k].due = row[k].due
Rewrites(keys) ==
    /\ now' = now /\ Deadlines(keys)
    /\ \A c \in checks' : \E d \in checks :
          c.key = d.key /\ c.token = d.token /\ (d.key \notin keys => c.late = d.late)

LEMMA LeaseKept ==
    ASSUME PlaybackAssumption, TypeInv, LeaseInv, NEW keys, Rewrites(keys)
    PROVE  LeaseInv'
<1> SUFFICES ASSUME NEW c \in checks'
             PROVE  -c.token <= now + Lease /\ Outlived(c, row'[c.key])
  BY DEF LeaseInv, Rewrites
<1>1. PICK d \in checks :
        c.key = d.key /\ c.token = d.token /\ (d.key \notin keys => c.late = d.late)
  BY DEF Rewrites
<1>2. /\ d.key \in Key /\ d.token \in Int
      /\ -d.token <= now + Lease /\ Outlived(d, row[d.key])
  BY DEF LeaseInv, TypeInv, GoodCheck, CheckState
<1>3. CASE d.key \in keys
  BY <1>1, <1>2, <1>3 DEF Rewrites, Deadlines, Outlived, PlaybackAssumption, TypeInv
<1>4. CASE d.key \notin keys
  BY <1>1, <1>2, <1>4 DEF Rewrites, Deadlines, Outlived
<1> QED BY <1>3, <1>4

(* The checks that a write marks are those of its keys. *)
LEMMA MarkedRewrites ==
    ASSUME TypeInv, NEW keys, NEW cs \in SUBSET checks, checks' = MadeLate(keys, cs), now' = now,
           Deadlines(keys)
    PROVE  Rewrites(keys)
BY MadeLateMembers DEF Rewrites, TypeInv

LEMMA UnmarkedRewrites ==
    ASSUME now' = now, \A k \in Key : row'[k].due = row[k].due, checks' \subseteq checks
    PROVE  Rewrites({})
BY DEF Rewrites, Deadlines

LEMMA FewerStorm ==
    ASSUME NoHeadStorm, NEW cs \in SUBSET checks
    PROVE  NoStorm(cs)
BY DEF NoHeadStorm, NoStorm

Safe == LeaseInv /\ NoHeadStorm /\ ReportedSourceIsOut

LEMMA RewritesSafe ==
    ASSUME PlaybackAssumption, TypeInv, Safe, NEW keys, Rewrites(keys), NoStorm(checks'),
           ReportedSourceIsOut'
    PROVE  Safe'
<1>1. LeaseInv'
  BY LeaseKept DEF Safe
<1>2. NoHeadStorm'
  BY DEF Rewrites, NoHeadStorm, NoStorm
<1> QED BY <1>1, <1>2 DEF Safe

(* A row whose source changes to nothing new reports nothing new. *)
LEMMA ReportedKept ==
    ASSUME ReportedSourceIsOut, failed' = failed, kept' = kept,
           \A k \in Key : row'[k].healthy => row[k].healthy /\ row'[k].src = row[k].src
    PROVE  ReportedSourceIsOut'
BY DEF ReportedSourceIsOut

LEMMA StillSafe ==
    ASSUME PlaybackAssumption, TypeInv, Safe, UNCHANGED <<row, now, history>>, checks' \subseteq checks
    PROVE  Safe'
<1>1. Rewrites({})
  BY UnmarkedRewrites
<1>2. NoStorm(checks')
  BY FewerStorm DEF Safe
<1>3. ReportedSourceIsOut'
  BY DEF history, Safe, ReportedSourceIsOut
<1> QED BY <1>1, <1>2, <1>3, RewritesSafe

(* Health alone changes: a mismatch, a bad verdict, a report. *)
LEMMA HealthSafe ==
    ASSUME PlaybackAssumption, TypeInv, Safe, ReportedSourceIsOut',
           now' = now, checks' \subseteq checks, \A k \in Key : row'[k].due = row[k].due
    PROVE  Safe'
<1>1. Rewrites({})
  BY UnmarkedRewrites
<1>2. NoStorm(checks')
  BY FewerStorm DEF Safe
<1> QED BY <1>1, <1>2, RewritesSafe

LEMMA SickSafe ==
    ASSUME PlaybackAssumption, TypeInv, Safe, NEW k \in Key, row' = [row EXCEPT ![k] = Sick(k)],
           now' = now, failed' = failed, kept' = kept, checks' \subseteq checks
    PROVE  Safe'
<1>1. \A q \in Key : /\ row'[q].due = row[q].due
                     /\ row'[q].healthy => row[q].healthy /\ row'[q].src = row[q].src
  BY DEF Sick, Health, TypeInv
<1>2. ReportedSourceIsOut'
  BY <1>1, ReportedKept DEF Safe
<1> QED BY <1>1, <1>2, HealthSafe

(* Rows that are deleted: cleared preferences, the sweep. *)
LEMMA DeleteSafe ==
    ASSUME PlaybackAssumption, TypeInv, Safe, NEW keys, Delete(keys)
    PROVE  Safe'
<1>1. /\ now' = now /\ failed' = failed /\ kept' = kept /\ checks' = MadeLate(keys, checks)
      /\ \A k \in Key : row'[k] = IF k \in keys THEN NoRow ELSE row[k]
  BY DEF Delete, history
<1>2. Rewrites(keys)
  BY <1>1, MarkedRewrites DEF Deadlines, NoRow
<1>3. NoStorm(checks')
  BY <1>1, MadeLateStorm, FewerStorm DEF Safe, TypeInv
<1>4. ReportedSourceIsOut'
  BY <1>1, ReportedKept DEF Safe, NoRow
<1> QED BY <1>2, <1>3, <1>4, RewritesSafe

(* A claim: the leases of earlier checks of the key have ended, or its row *)
(* was not claimable (try_claim_playback_session_validation).              *)
LEMMA ClaimSafe ==
    ASSUME PlaybackAssumption, TypeInv, TypeInv', Safe, NEW r \in Request,
           Claim(r) \/ ClaimLost(r)
    PROVE  Safe'
<1> DEFINE s == request[r].session
           old == MadeLate({s.key}, checks)
           new == Check(s.key, s.src, Token, r)
<1>1. s \in Session /\ s.key \in Key /\ s.src \in Source
  BY Request1 DEF Claim, ClaimLost, Session
<1>2. /\ row[s.key].healthy
      /\ row[s.key].due < 0 => -row[s.key].due <= now
      /\ row[s.key].due >= 0 => row[s.key].due > 0 /\ row[s.key].due <= now
  BY <1>1 DEF Claim, ClaimLost, Claimable, Matches, IsFresh, IsLeased, TypeInv, GoodRow, Row
<1>3. /\ row' = [row EXCEPT ![s.key] = Stored(row[s.key].src, Token)]
      /\ now' = now /\ failed' = failed /\ kept' = kept /\ checks' \subseteq old \cup {new}
  BY DEF Claim, ClaimLost, history
<1>4. /\ Token = -(now + Lease) /\ now \in Int /\ Lease \in Int /\ Lease > 0
      /\ Token < 0 /\ Token \in Int
  BY DEF Token, TypeInv, PlaybackAssumption
<1>5. /\ row'[s.key].healthy /\ row'[s.key].due = Token /\ row'[s.key].src = row[s.key].src
      /\ \A k \in Key : k # s.key => row'[k] = row[k]
  BY <1>1, <1>3 DEF Stored, TypeInv
<1>6. new.key = s.key /\ new.token = Token /\ new.late = FALSE
  BY DEF Check
<1>7. \A c \in old : \E d \in checks :
        c.key = d.key /\ c.token = d.token /\ (d.key \notin {s.key} => c = d)
  BY MadeLateMembers DEF TypeInv
<1>8. \A d \in checks : /\ d.key \in Key /\ d.token \in Int /\ d.token < 0
                        /\ -d.token <= now + Lease /\ Outlived(d, row[d.key])
  BY DEF Safe, LeaseInv, TypeInv, GoodCheck, CheckState
<1>9. \A k \in Key : row[k].due \in Int
  BY DEF TypeInv, GoodRow, Row
<1> HIDE DEF s, old, new
<1>10. \A d \in checks : d.key = s.key => -d.token <= now
  <2> SUFFICES ASSUME NEW d \in checks, d.key = s.key
               PROVE  -d.token <= now
    OBVIOUS
  <2>1. d.token \in Int /\ Outlived(d, row[s.key]) /\ row[s.key].due \in Int
    BY <1>1, <1>8, <1>9
  <2> QED BY <1>2, <1>4, <2>1 DEF Outlived
<1>11. \A c \in old : c.key = s.key => c.token \in Int /\ -c.token <= now
  BY <1>7, <1>8, <1>10
<1>12. LeaseInv'
  <2> SUFFICES ASSUME NEW c \in checks'
               PROVE  -c.token <= now + Lease /\ Outlived(c, row'[c.key])
    BY <1>3 DEF LeaseInv
  <2>1. CASE c = new
    BY <1>4, <1>5, <1>6, <2>1 DEF Outlived
  <2>2. CASE c \in old /\ c.key = s.key
    <3>1. c.token \in Int /\ -c.token <= now
      BY <1>11, <2>2
    <3> QED BY <1>4, <1>5, <2>2, <3>1 DEF Outlived
  <2>3. CASE c \in old /\ c.key # s.key
    BY <1>5, <1>7, <1>8, <2>3
  <2> QED BY <1>3, <2>1, <2>2, <2>3
<1>13. NoHeadStorm'
  <2>1. NoStorm(old)
    BY MadeLateStorm, FewerStorm DEF Safe, TypeInv, old
  <2> SUFFICES ASSUME NEW c \in checks', NEW d \in checks', c.key = d.key, c # d
               PROVE  -c.token <= now \/ -d.token <= now
    BY <1>3 DEF NoHeadStorm
  <2>2. CASE c \in old /\ d \in old
    BY <2>1, <2>2 DEF NoStorm
  <2>3. CASE c = new \/ d = new
    BY <1>3, <1>6, <1>11, <2>3
  <2> QED BY <1>3, <2>2, <2>3
<1>14. ReportedSourceIsOut'
  <2>1. \A k \in Key : row'[k].healthy => row[k].healthy /\ row'[k].src = row[k].src
    BY <1>2, <1>5
  <2> QED BY <1>3, <2>1, ReportedKept DEF Safe
<1> QED BY <1>12, <1>13, <1>14 DEF Safe

(* build_resolved_response stores a source that works. *)
LEMMA PersistSafe ==
    ASSUME PlaybackAssumption, TypeInv, Safe, NEW r \in Request, Persist(r)
    PROVE  Safe'
<1> DEFINE keys == {Wants[r], AutoOf[Wants[r]]}
<1>1. now' = now /\ checks' = MadeLate(keys, checks)
  BY DEF Persist
<1>2. Deadlines(keys)
  BY DEF Persist, Stored, NoRow, Deadlines
<1> HIDE DEF keys
<1>3. Rewrites(keys)
  BY <1>1, <1>2, MarkedRewrites
<1>4. NoStorm(checks')
  BY <1>1, MadeLateStorm, FewerStorm DEF Safe, TypeInv
<1>5. ReportedSourceIsOut'
  BY DEF Persist, Stored, NoRow, Safe, ReportedSourceIsOut
<1> QED BY <1>3, <1>4, <1>5, RewritesSafe

(* refresh and invalidate ..._if_current. *)
LEMMA VerdictSafe ==
    ASSUME PlaybackAssumption, TypeInv, Safe, NEW c \in checks, NEW bad \in BOOLEAN, Verdict(c, bad)
    PROVE  Safe'
<1>0. c.key \in Key /\ now' = now /\ failed' = failed /\ kept' = kept
  BY DEF Verdict, history, TypeInv, GoodCheck, CheckState
<1>1. CASE ~Current(c)
  BY <1>0, <1>1, StillSafe DEF Verdict
<1>2. CASE Current(c) /\ bad
  BY <1>0, <1>2, SickSafe DEF Verdict
<1>3. CASE Current(c) /\ ~bad
  <2>1. row[c.key].healthy /\ row[c.key].src = c.src
    BY <1>3 DEF Current
  <2>2. /\ checks' = MadeLate({c.key}, checks \ {c})
        /\ row' = [row EXCEPT ![c.key] = Stored(c.src, now + Interval)]
    BY <1>3 DEF Verdict
  <2>3. Deadlines({c.key})
    BY <1>0, <2>2 DEF Deadlines, Stored, TypeInv
  <2>4. Rewrites({c.key})
    BY <1>0, <2>2, <2>3, MarkedRewrites
  <2>5. NoStorm(checks')
    BY <2>2, MadeLateStorm, FewerStorm DEF Safe, TypeInv
  <2>6. ReportedSourceIsOut'
    <3>1. \A k \in Key : row'[k].healthy => row[k].healthy /\ row'[k].src = row[k].src
      BY <1>0, <2>1, <2>2 DEF Stored, TypeInv
    <3> QED BY <1>0, <3>1, ReportedKept DEF Safe
  <2> QED BY <2>4, <2>5, <2>6, RewritesSafe
<1> QED BY <1>1, <1>2, <1>3

(* session_progress_handler: a report of a failure makes every copy of the *)
(* source unhealthy; another makes a row healthy whose source is then said *)
(* to play or counted as kept.                                             *)
LEMMA ReportSafe ==
    ASSUME PlaybackAssumption, TypeInv, Safe, NEW p \in Reporter, Reporting(p)
    PROVE  Safe'
<1>1. ASSUME NEW k \in Key, NEW says \in Says[p], ReportRead(p, k, says)
      PROVE  Safe'
  BY <1>1, StillSafe DEF ReportRead, history
<1>2. CASE ReportWrite(p)
  <2> DEFINE k == report[p].key
             healthy == report[p].says # "failed"
  <2>1. k \in Key /\ report[p].says \in {"nothing", "failed", "plays", "kept"}
    BY <1>2 DEF ReportWrite, TypeInv, GoodReport, ReportState
  <2>2. /\ now' = now /\ checks' = checks
        /\ row' = [row EXCEPT ![k] = IF Exists(k) THEN Health(k, healthy) ELSE row[k]]
    BY <1>2 DEF ReportWrite
  <2>3. /\ failed' \ kept' \subseteq failed \ kept
        /\ healthy => row[k].src \notin failed' \ kept'
    BY <1>2, <2>1 DEF ReportWrite
  <2> HIDE DEF k, healthy
  <2>4. /\ \A q \in Key : row'[q].due = row[q].due /\ row'[q].src = row[q].src
        /\ \A q \in Key : row'[q].healthy => row[q].healthy \/ (q = k /\ healthy)
    BY <2>1, <2>2 DEF Health, TypeInv
  <2>5. ReportedSourceIsOut'
    BY <2>3, <2>4 DEF Safe, ReportedSourceIsOut
  <2> QED BY <2>2, <2>4, <2>5, HealthSafe
<1>3. CASE ReportHash(p)
  <2> DEFINE s == report[p].src
  <2>1. /\ now' = now /\ failed' = failed \cup {s} /\ kept' = kept \ {s} /\ checks' = checks
        /\ row' = [k \in Key |-> IF k \in Copies(s) THEN Sick(k) ELSE row[k]]
    BY <1>3 DEF ReportHash
  <2> HIDE DEF s
  <2>2. \A k \in Key : /\ row'[k].due = row[k].due /\ row'[k].src = row[k].src
                       /\ row'[k].healthy => row[k].healthy /\ k \notin Copies(s)
    BY <2>1 DEF Sick, Health
  <2>3. ReportedSourceIsOut'
    BY <2>1, <2>2 DEF Safe, ReportedSourceIsOut, Copies
  <2> QED BY <2>1, <2>2, <2>3, HealthSafe
<1> QED BY <1>1, <1>2, <1>3 DEF Reporting

LEMMA SafeStep ==
    ASSUME PlaybackAssumption, TypeInv, TypeInv', Safe, [Next]_vars
    PROVE  Safe'
<1>1. ASSUME NEW r \in Request, Resolving(r) PROVE Safe'
  <2>1. CASE \/ \E asked \in Key : LookUp(r, asked)
             \/ ListLatest(r)
             \/ \E s \in request[r].left : Consider(r, s)
             \/ Unavailable(r) \/ ServeStale(r)
             \/ \E s \in Source : Resolve(r, s)
    BY <2>1, ReadsType, StillSafe
  <2>2. CASE Mismatch(r)
    <3>1. request[r].session.key \in Key
      BY <2>2, Request1 DEF Mismatch, Session
    <3> QED BY <2>2, <3>1, SickSafe DEF Mismatch, history
  <2>3. CASE Claim(r) \/ ClaimLost(r)
    BY <2>3, ClaimSafe
  <2>4. CASE GraceEnds(r) \/ HangUp(r)
    <3>1. UNCHANGED <<row, now, history>> /\ checks' = Unheard(r, checks)
      BY <2>4 DEF GraceEnds, HangUp
    <3>2. Rewrites({})
      BY <3>1, UnheardMembers DEF Rewrites, Deadlines, TypeInv
    <3>3. NoStorm(checks')
      BY <3>1, UnheardStorm, FewerStorm DEF Safe, TypeInv
    <3>4. ReportedSourceIsOut'
      BY <3>1 DEF history, Safe, ReportedSourceIsOut
    <3> QED BY <3>2, <3>3, <3>4, RewritesSafe
  <2>5. CASE Persist(r)
    BY <2>5, PersistSafe
  <2> QED BY <1>1, <2>1, <2>2, <2>3, <2>4, <2>5 DEF Resolving
<1>2. CASE Checking
  BY <1>2, VerdictSafe DEF Checking
<1>3. CASE \E p \in Reporter : Reporting(p)
  BY <1>3, ReportSafe
<1>4. ASSUME NEW keys, Delete(keys) PROVE Safe'
  BY <1>4, DeleteSafe
<1>5. CASE Restart
  BY <1>5, StillSafe DEF Restart
<1>6. CASE Tick
  <2>1. now' = now + 1 /\ UNCHANGED <<row, checks, history>> /\ now \in Int /\ Lease \in Int
    BY <1>6 DEF Tick, TypeInv, PlaybackAssumption
  <2>2. \A c \in checks : c.token \in Int
    BY DEF TypeInv, GoodCheck, CheckState
  <2>3. LeaseInv'
    BY <2>1, <2>2 DEF Safe, LeaseInv, Outlived
  <2>4. NoHeadStorm'
    BY <2>1, <2>2 DEF Safe, NoHeadStorm
  <2> QED BY <2>1, <2>3, <2>4 DEF history, Safe, ReportedSourceIsOut
<1>7. CASE UNCHANGED vars
  BY <1>7, StillSafe DEF vars
<1> QED BY <1>1, <1>2, <1>3, <1>4, <1>5, <1>6, <1>7 DEF Next, Evict, Clear

LEMMA SafeInit ==
    ASSUME PlaybackAssumption, Init
    PROVE  Safe
BY DEF Init, Safe, LeaseInv, NoHeadStorm, ReportedSourceIsOut

-----------------------------------------------------------------------------
LEMMA Inductive == Spec => [](TypeInv /\ Safe)
<1> USE PlaybackAssumption
<1>1. Init => TypeInv /\ Safe
  BY TypeInit, SafeInit
<1>2. TypeInv /\ Safe /\ [Next]_vars => (TypeInv /\ Safe)'
  BY TypeStep, SafeStep
<1> QED BY <1>1, <1>2, PTL DEF Spec

(* Rows, requests, checks and reports keep their types, for every number   *)
(* of keys and clients.                                                    *)
THEOREM TypeCorrect == Spec => []TypeOK
<1>1. TypeInv => TypeOK
  BY DEF TypeInv, TypeOK, GoodRow, Ready, GoodCheck, GoodReport
<1> QED BY <1>1, Inductive, PTL

(* A check whose session was claimed, checked, stored or deleted since     *)
(* changes nothing: its token is not that of any lease there, and an       *)
(* invalid session that a report puts back has the lease it had.           *)
THEOREM LateVerdicts == Spec => []LateVerdictHarmless
<1>1. TypeInv /\ Safe => LateVerdictHarmless
  <2> SUFFICES ASSUME TypeInv, LeaseInv, NEW c \in checks, c.late, Current(c)
               PROVE  FALSE
    BY DEF LateVerdictHarmless, Safe
  <2>1. c.token \in Int /\ c.token < 0 /\ Lease \in Int /\ Lease > 0
    BY PlaybackAssumption DEF TypeInv, GoodCheck, CheckState, PlaybackAssumption
  <2>2. Outlived(c, row[c.key]) /\ row[c.key].healthy /\ row[c.key].due = c.token
    BY DEF LeaseInv, Current
  <2> QED BY <2>1, <2>2 DEF Outlived
<1> QED BY <1>1, Inductive, PTL

(* Two checks of one session do not run within their leases, whoever       *)
(* claims, stores, deletes or gives up meanwhile.                          *)
THEOREM OneCheck == Spec => []NoHeadStorm
<1>1. Safe => NoHeadStorm
  BY DEF Safe
<1> QED BY <1>1, Inductive, PTL

(* No key serves a source that was reported, until a resolve stores it, a  *)
(* player says it plays, or a report that says nothing of its source puts  *)
(* it back.                                                                *)
THEOREM ReportedOut == Spec => []ReportedSourceIsOut
<1>1. Safe => ReportedSourceIsOut
  BY DEF Safe
<1> QED BY <1>1, Inductive, PTL
=============================================================================
