----------------------------- MODULE UserState -----------------------------
(***************************************************************************)
(* The durable playback state of one account: the tables of watch progress *)
(* and of continue-watching entries in users.sqlite, their tombstones, and *)
(* the requests that devices send to change them.                          *)
(*                                                                         *)
(* A device makes a mutation once, gives it a version from its persisted   *)
(* monotonic clock, and sends it to two endpoints.  The network may lose,  *)
(* delay, duplicate and reorder the requests, a client may replay them, so *)
(* every request that was ever made can arrive at either endpoint, in any  *)
(* order, any number of times, for up to Lifetime.                         *)
(*                                                                         *)
(* A row is a record whose ts is its updated_at, a tombstone is its        *)
(* deleted_at; ts 0 (never a version: the server replaces it) stands for   *)
(* "no row" and "no tombstone".                                            *)
(***************************************************************************)
EXTENDS Integers

CONSTANTS
    Device,             \* browsers and phones of the account
    Item,               \* source identities
    Pos,                \* resume positions
    Series, Tmdb,       \* series ids, TMDB ids of shows
    None,               \* no series, no TMDB id, no position
    SeriesInIdentity,   \* [Item -> series of "series:<id>:episode:<n>" or None]
    TmdbInIdentity,     \* [Item -> TMDB id of "tmdb:tv:<id>..." or None]
    TmdbOfSeries,       \* [Series -> TMDB id of "tmdb-tv-<id>" or None]
    Entry,              \* what devices save: [device, item, series, tmdb]
    Removal,            \* what devices remove: [device, item, series]
    Versioned,          \* the devices that send updatedAt
    Skew,               \* [Device -> how far its clock can be ahead of the server]
    FutureCap,          \* how far ahead of the server a version may be
    Retention,          \* how long tombstones are kept
    Lifetime,           \* how long after it was made a request can arrive
    MaxTime,            \* bound: the last instant explored
    MaxMade             \* bound: mutations made

Min2(a, b) == IF a <= b THEN a ELSE b

(* A mutation as the device made it, its nr-th of all and at the server's  *)
(* time madeAt; ts is 0 when the device leaves the version to the server.  *)
Snapshot == [op : {"put", "delete"}, device : Device, item : Item,
             series : Series \cup {None}, tmdb : Tmdb \cup {None},
             pos : Pos \cup {None}, ts : Nat, nr : Nat, madeAt : Nat \ {0}]

(* A mutation with the version the server gave it. *)
Mutation == [snap : Snapshot, ts : Nat \ {0}]

ASSUME SeriesAssumption ==
    /\ None \notin Item \cup Series \cup Tmdb \cup Pos
    /\ Item \cap Series = {} /\ (Item \cup Series) \cap Tmdb = {}
    /\ SeriesInIdentity \in [Item -> Series \cup {None}]
    /\ TmdbInIdentity \in [Item -> Tmdb \cup {None}]
    /\ TmdbOfSeries \in [Series -> Tmdb \cup {None}]

DerivedTmdb(series) == IF series = None THEN None ELSE TmdbOfSeries[series]

(* What the clients save of one title agrees with itself: an identity that *)
(* names a series or a TMDB id is saved with it, and a series named after  *)
(* a TMDB id is saved with that id                                         *)
(* (getCanonicalContinueWatchingMetadata and sourceIdentity in player.js). *)
Consistent(i, series, tmdb) ==
    /\ SeriesInIdentity[i] # None => series = SeriesInIdentity[i]
    /\ TmdbInIdentity[i] # None => tmdb = TmdbInIdentity[i]
    /\ DerivedTmdb(series) \in {None, tmdb}

ASSUME EntryAssumption ==
    /\ Entry \subseteq [device : Device, item : Item,
                        series : Series \cup {None}, tmdb : Tmdb \cup {None}]
    /\ Removal \subseteq [device : Device, item : Item,
                          series : Series \cup {None}]
    /\ \A e \in Entry : Consistent(e.item, e.series, e.tmdb)

ASSUME TimeAssumption ==
    /\ FutureCap \in Nat /\ Retention \in Nat \ {0} /\ Lifetime \in Nat
    /\ Skew \in [Device -> SUBSET Int]
    /\ Versioned \subseteq Device
    /\ MaxTime \in Nat \ {0} /\ MaxMade \in Nat

(* Tombstones outlive the requests they hold back (the 180 days of         *)
(* "covering long-offline clients"), also those of a device that is slow.  *)
ASSUME RetentionAssumption ==
    /\ Lifetime < Retention
    /\ \A d \in Device : \A k \in Skew[d] : Lifetime < Retention + k

VARIABLES
    now,            \* the server's clock
    clock,          \* [Device -> persisted high-water of its versions]
    made,           \* the number of mutations made so far
    sent,           \* these mutations
    progress,       \* user_watch_progress:     [Item -> row]
    progressTomb,   \* its tombstones:          [Item -> deleted_at]
    continue,       \* user_continue_watching:  [Item -> row]
    continueTomb,   \* its tombstones
    unfinished,     \* continue-watching DELETEs between their two transactions
    appliedP,       \* history: mutations the progress table has processed
    appliedC        \* history: mutations the continue table has processed

vars == <<now, clock, made, sent, progress, progressTomb, continue, continueTomb,
          unfinished, appliedP, appliedC>>

NoRow == [ts |-> 0, pos |-> None]
NoEntry == [ts |-> 0, pos |-> None, series |-> None, tmdb |-> None]

-----------------------------------------------------------------------------
(* The helpers of user_state.rs, on one table's rows or tombstones. *)

Blocked(tomb, i, ts) == tomb[i] >= ts

ClearObsolete(tomb, i, ts) ==
    [j \in Item |-> IF j = i /\ tomb[j] < ts THEN 0 ELSE tomb[j]]

RecordTombstones(tomb, S, ts) ==
    [j \in Item |-> IF j \in S /\ tomb[j] < ts THEN ts ELSE tomb[j]]

(* Mut...: the definition after it with a bug, for checking the properties. *)
(* no WHERE *)
MutUpsertRow(rows, i, row) == [rows EXCEPT ![i] = row]

(* INSERT ... ON CONFLICT DO UPDATE ... WHERE excluded.updated_at >= ... *)
UpsertRow(rows, i, row) ==
    [j \in Item |-> IF j = i /\ row.ts >= rows[j].ts THEN row ELSE rows[j]]

RemoveRows(rows, S, none) == [j \in Item |-> IF j \in S THEN none ELSE rows[j]]

Present(rows) == {i \in Item : rows[i].ts # 0}
UpTo(rows, ts) == {i \in Present(rows) : rows[i].ts <= ts}

(* Identities that name the series, or the show with TMDB id tmdb. *)
IdentityOf(i, series, tmdb) ==
    \/ series # None /\ SeriesInIdentity[i] = series
    \/ tmdb # None /\ TmdbInIdentity[i] = tmdb

(* The progress rows a series-wide deletion is about. *)
ProgressOfSeries(series) ==
    {i \in Present(progress) : IdentityOf(i, series, DerivedTmdb(series))}

(* The continue-watching rows of a show.  The queries compare series ids   *)
(* as strings: without a series id they take every row that has none.      *)
EntriesOf(series, tmdb) ==
    {i \in Present(continue) :
        \/ continue[i].series = series
        \/ IdentityOf(i, series, tmdb)
        \/ tmdb # None /\ continue[i].tmdb = tmdb}

(* the second DELETE forgotten *)
MutEntriesOfTmdb(tmdb) == {}

(* Those the DELETE keyed by TMDB id takes: it does not look at series_id. *)
EntriesOfTmdb(tmdb) ==
    {i \in Present(continue) :
        tmdb # None /\ (continue[i].tmdb = tmdb \/ TmdbInIdentity[i] = tmdb)}

-----------------------------------------------------------------------------
(* Devices. *)

(* wall clock only *)
MutNextVersion(d, wall) == wall

(* nextUserStateMutationTimestamp: the wall clock, which may be set back   *)
(* between two mutations, but always later than the last version.          *)
NextVersion(d, wall) == IF wall >= clock[d] + 1 THEN wall ELSE clock[d] + 1

VersionOf(d, k) == IF d \in Versioned THEN NextVersion(d, now + k) ELSE 0

Make(d, k, snapshot) ==
    /\ made < MaxMade
    /\ made' = made + 1
    /\ clock' = [clock EXCEPT ![d] = IF d \in Versioned THEN VersionOf(d, k) ELSE @]
    /\ sent' = sent \cup {snapshot}
    /\ UNCHANGED <<now, progress, progressTomb, continue, continueTomb,
                   unfinished, appliedP, appliedC>>

(* k: how far the device's clock is ahead at this moment *)
SaveCheckpoint(e, p, k) ==
    Make(e.device, k,
         [op |-> "put", device |-> e.device, item |-> e.item,
          series |-> e.series, tmdb |-> e.tmdb, pos |-> p,
          ts |-> VersionOf(e.device, k), nr |-> made, madeAt |-> now])

RemoveTitle(r, k) ==
    Make(r.device, k,
         [op |-> "delete", device |-> r.device, item |-> r.item,
          series |-> r.series, tmdb |-> None, pos |-> None,
          ts |-> VersionOf(r.device, k), nr |-> made, madeAt |-> now])

-----------------------------------------------------------------------------
(* The server's handlers. *)

(* the sign of the cap *)
MutNormalized(s, at) == IF s.ts = 0 THEN at ELSE Min2(s.ts, at - FutureCap)

(* normalize_user_updated_at.  The handler reads the clock, at instant at, *)
(* before it waits for a connection and the writer lock.                   *)
Normalized(s, at) == IF s.ts = 0 THEN at ELSE Min2(s.ts, at + FutureCap)

(* The series a DELETE is about: the one it names, or its identity's. *)
RemovedSeries(s) ==
    IF s.series # None THEN s.series ELSE SeriesInIdentity[s.item]

(* A client replays a request only with its version: without one it is     *)
(* sent once.                                                              *)
Arrives(s, applied) ==
    /\ s \in sent
    /\ now <= s.madeAt + Lifetime
    /\ s.device \notin Versioned => \A m \in applied : m.snap # s

PutProgress(s, at) ==
    LET ts == Normalized(s, at)
        i == s.item IN
    /\ Arrives(s, appliedP)
    /\ s.op = "put"
    /\ IF Blocked(progressTomb, i, ts)
       THEN UNCHANGED <<progress, progressTomb>>
       ELSE /\ progressTomb' = ClearObsolete(progressTomb, i, ts)
            /\ progress' = UpsertRow(progress, i, [ts |-> ts, pos |-> s.pos])
    /\ appliedP' = appliedP \cup {[snap |-> s, ts |-> ts]}
    /\ UNCHANGED <<now, clock, made, sent, continue, continueTomb, unfinished, appliedC>>

(* rows go whatever their version *)
MutRemoveProgress(m) ==
    LET series == RemovedSeries(m.snap)
        S == IF series = None THEN {m.snap.item} ELSE ProgressOfSeries(series) IN
    /\ progressTomb' = RecordTombstones(progressTomb, S, m.ts)
    /\ progress' = RemoveRows(progress, S, NoRow)
    /\ appliedP' = appliedP \cup {m}

(* no tombstone *)
MutRemoveProgressOnly(m) ==
    /\ progress' = RemoveRows(progress, {m.snap.item} \cap UpTo(progress, m.ts), NoRow)
    /\ appliedP' = appliedP \cup {m}
    /\ UNCHANGED progressTomb

(* delete_user_watch_progress and its series-wide form, one transaction. *)
RemoveProgress(m) ==
    LET series == RemovedSeries(m.snap)
        S == IF series = None
             THEN {m.snap.item}
             ELSE ProgressOfSeries(series) \cap UpTo(progress, m.ts) IN
    /\ progressTomb' = RecordTombstones(progressTomb, S, m.ts)
    /\ progress' = RemoveRows(progress, S \cap UpTo(progress, m.ts), NoRow)
    /\ appliedP' = appliedP \cup {m}

DeleteProgress(s, at) ==
    /\ Arrives(s, appliedP)
    /\ s.op = "delete"
    /\ RemoveProgress([snap |-> s, ts |-> Normalized(s, at)])
    /\ UNCHANGED <<now, clock, made, sent, continue, continueTomb, unfinished, appliedC>>

(* upsert_user_continue_watching: one transaction that keeps a single row  *)
(* for a show, the newest.                                                 *)
CanonicalTmdb(s) == IF s.tmdb # None THEN s.tmdb ELSE DerivedTmdb(s.series)

MutNewerInShow(s, ts) == \E j \in EntriesOf(s.series, CanonicalTmdb(s)) : continue[j].ts < ts
MutNeverNewer(s, ts) == FALSE

NewerInShow(s, ts) ==
    /\ s.series # None \/ CanonicalTmdb(s) # None
    /\ \E j \in EntriesOf(s.series, CanonicalTmdb(s)) : continue[j].ts > ts

SeriesSiblings(s) ==
    IF s.series = None THEN {}
    ELSE EntriesOf(s.series, DerivedTmdb(s.series)) \ {s.item}

(* tombstone_continue_series is called with the series id "tmdb-tv-<id>". *)
TombstonedByTmdb(s) ==
    IF s.tmdb = None THEN {}
    ELSE {i \in Present(continue) \ {s.item} :
            \/ continue[i].series # None /\ TmdbOfSeries[continue[i].series] = s.tmdb
            \/ SeriesInIdentity[i] # None /\ TmdbOfSeries[SeriesInIdentity[i]] = s.tmdb
            \/ i \in EntriesOfTmdb(s.tmdb)}

PutContinue(s, at) ==
    LET ts == Normalized(s, at)
        i == s.item
        bySeries == SeriesSiblings(s)
        (* the second pass sees the table without the rows of the first *)
        byTmdb == TombstonedByTmdb(s) \ bySeries
        gone == bySeries \cup (EntriesOfTmdb(s.tmdb) \ {i})
        row == [ts |-> ts, pos |-> s.pos, series |-> s.series, tmdb |-> s.tmdb] IN
    /\ Arrives(s, appliedC)
    /\ s.op = "put"
    /\ IF NewerInShow(s, ts) \/ Blocked(continueTomb, i, ts)
       THEN UNCHANGED <<continue, continueTomb>>
       ELSE /\ continueTomb' =
                 RecordTombstones(ClearObsolete(continueTomb, i, ts),
                                  (bySeries \cup byTmdb) \cap UpTo(continue, ts), ts)
            /\ continue' = UpsertRow(RemoveRows(continue, gone, NoEntry), i, row)
    /\ appliedC' = appliedC \cup {[snap |-> s, ts |-> ts]}
    /\ UNCHANGED <<now, clock, made, sent, progress, progressTomb, unfinished, appliedP>>

(* DELETE continue-watching: its own table first, then, in a transaction   *)
(* of its own, the progress table.                                         *)
DeleteContinue(s, at) ==
    LET m == [snap |-> s, ts |-> Normalized(s, at)]
        series == RemovedSeries(s)
        S == IF series = None
             THEN {s.item}
             ELSE EntriesOf(series, DerivedTmdb(series)) \cap UpTo(continue, m.ts) IN
    /\ Arrives(s, appliedC)
    /\ s.op = "delete"
    /\ continueTomb' = RecordTombstones(continueTomb, S, m.ts)
    /\ continue' = RemoveRows(continue, S \cap UpTo(continue, m.ts), NoEntry)
    /\ unfinished' = unfinished \cup {m}
    /\ appliedC' = appliedC \cup {m}
    /\ UNCHANGED <<now, clock, made, sent, progress, progressTomb, appliedP>>

FinishDelete(m) ==
    /\ m \in unfinished
    /\ unfinished' = unfinished \ {m}
    /\ RemoveProgress(m)
    /\ UNCHANGED <<now, clock, made, sent, continue, continueTomb, appliedC>>

(* The process stops, or the client hangs up and the handler is dropped. *)
Restart ==
    /\ unfinished # {}
    /\ unfinished' = {}
    /\ UNCHANGED <<now, clock, made, sent, progress, progressTomb, continue,
                   continueTomb, appliedP, appliedC>>

(* sweep_users_db, for the tombstones *)
Expired(tomb) == {i \in Item : tomb[i] # 0 /\ tomb[i] <= now - Retention}

SweepTombstones ==
    /\ progressTomb' = [i \in Item |-> IF i \in Expired(progressTomb) THEN 0
                                       ELSE progressTomb[i]]
    /\ continueTomb' = [i \in Item |-> IF i \in Expired(continueTomb) THEN 0
                                       ELSE continueTomb[i]]
    /\ UNCHANGED <<now, clock, made, sent, progress, continue, unfinished,
                   appliedP, appliedC>>

Tick ==
    /\ now < MaxTime
    /\ now' = now + 1
    /\ UNCHANGED <<clock, made, sent, progress, progressTomb, continue, continueTomb,
                   unfinished, appliedP, appliedC>>

-----------------------------------------------------------------------------
Init ==
    /\ now = 1
    /\ clock = [d \in Device |-> 0]
    /\ made = 0
    /\ sent = {}
    /\ progress = [i \in Item |-> NoRow]
    /\ progressTomb = [i \in Item |-> 0]
    /\ continue = [i \in Item |-> NoEntry]
    /\ continueTomb = [i \in Item |-> 0]
    /\ unfinished = {}
    /\ appliedP = {}
    /\ appliedC = {}

Next ==
    \/ \E e \in Entry, p \in Pos : \E k \in Skew[e.device] : SaveCheckpoint(e, p, k)
    \/ \E r \in Removal : \E k \in Skew[r.device] : RemoveTitle(r, k)
    \/ \E s \in sent : \E at \in s.madeAt..now :
         \/ PutProgress(s, at)
         \/ DeleteProgress(s, at)
         \/ PutContinue(s, at)
         \/ DeleteContinue(s, at)
    \/ \E m \in unfinished : FinishDelete(m)
    \/ Restart
    \/ SweepTombstones
    \/ Tick

Spec == Init /\ [][Next]_vars

-----------------------------------------------------------------------------
Row == [ts : Nat, pos : Pos \cup {None}]
EntryRow == [ts : Nat, pos : Pos \cup {None},
             series : Series \cup {None}, tmdb : Tmdb \cup {None}]

(* The state has the shape of the code's tables and requests. *)
TypeOK ==
    /\ now \in 1..MaxTime
    /\ clock \in [Device -> Nat]
    /\ made \in Nat
    /\ sent \subseteq Snapshot
    /\ progress \in [Item -> Row]
    /\ progressTomb \in [Item -> Nat]
    /\ continue \in [Item -> EntryRow]
    /\ continueTomb \in [Item -> Nat]
    /\ unfinished \subseteq Mutation
    /\ appliedP \subseteq Mutation
    /\ appliedC \subseteq Mutation

(* A row and a tombstone of the same item coexist only while the row is    *)
(* newer: no request deletes a row it does not outdate, and a tombstone    *)
(* written for an item takes its row away.                                 *)
NewerThan(rows, tomb) == \A i \in Present(rows) : rows[i].ts > tomb[i]

RowNewerThanTombstone ==
    NewerThan(progress, progressTomb) /\ NewerThan(continue, continueTomb)

Puts(applied, i) == {m \in applied : m.snap.op = "put" /\ m.snap.item = i}

(* Deletions of the item itself, and of a series its identity belongs to.  *)
ItemDeletes(applied, i) ==
    {m \in applied : /\ m.snap.op = "delete"
                     /\ RemovedSeries(m.snap) = None /\ m.snap.item = i}
SeriesDeletes(applied, i) ==
    {m \in applied : /\ m.snap.op = "delete"
                     /\ RemovedSeries(m.snap) # None
                     /\ IdentityOf(i, RemovedSeries(m.snap),
                                   DerivedTmdb(RemovedSeries(m.snap)))}

(* Row i of a table is what the mutations the table has processed say,     *)
(* whatever their order and however often they came.                       *)
HoldsNewest(row, i, applied) ==
    LET puts == Puts(applied, i) IN
    /\ row.ts # 0 =>
         /\ \E m \in puts : m.ts = row.ts /\ m.snap.pos = row.pos
         /\ \A m \in puts : m.ts <= row.ts
         /\ \A m \in ItemDeletes(applied, i) : m.ts < row.ts
    /\ row.ts = 0 =>
         \A p \in puts : \E m \in ItemDeletes(applied, i) \cup SeriesDeletes(applied, i) :
                            m.ts >= p.ts

(* Last-write-wins for watch progress: the row is the newest checkpoint    *)
(* processed and newer than every deletion of the item; without a row a    *)
(* deletion at least as new was processed. Sweeping tombstones and         *)
(* restarting between two transactions do not change that.                 *)
ProgressHoldsNewest ==
    \A i \in Item : HoldsNewest(progress[i], i, appliedP)

(* A title that is not a show. *)
Standalone(i) ==
    /\ SeriesInIdentity[i] = None /\ TmdbInIdentity[i] = None
    /\ \A e \in Entry : e.item = i => e.series = None /\ e.tmdb = None

(* The two tables are written by separate requests and transactions.  An   *)
(* entry of continue watching, too, is the newest mutation processed (of a *)
(* title that is no show), and once both tables have processed the same    *)
(* mutations they agree whether and when it was last watched.              *)
TablesAgree ==
    \A i \in Item : Standalone(i) =>
        /\ HoldsNewest(continue[i], i, appliedC)
        /\ appliedP = appliedC => progress[i].ts = continue[i].ts

(* Items a deletion is about: one, or those of the series. *)
Covers(s) ==
    LET series == RemovedSeries(s) IN
    IF series = None THEN {s.item}
    ELSE {i \in Item : IdentityOf(i, series, DerivedTmdb(series))}

(* "An offline request older than that tombstone is acknowledged but       *)
(* cannot resurrect the row" (docs/architecture-security.md): a title that *)
(* its only device removed after every checkpoint it made stays removed    *)
(* once the server has processed the removal.                              *)
DeletesStay ==
    \A m \in appliedP : m.snap.op = "delete" =>
        \A i \in Covers(m.snap) :
            (\A s \in sent : s.op = "put" /\ s.item = i =>
                                s.device = m.snap.device /\ s.nr < m.snap.nr)
            => progress[i].ts = 0

(* What ties an entry to a show: its names. *)
Names(i, series, tmdb) ==
    ({i, series, SeriesInIdentity[i], tmdb, TmdbInIdentity[i]}
       \cup {DerivedTmdb(series), DerivedTmdb(SeriesInIdentity[i])}) \ {None}

RowNames(i) == Names(i, continue[i].series, continue[i].tmdb)

(* One entry per show, whichever clients saved its episodes and in         *)
(* whatever order their requests came (upsert_user_continue_watching).     *)
OneEntryPerShow ==
    \A i, j \in Present(continue) : i # j => RowNames(i) \cap RowNames(j) = {}

(* Names of the whole show a removal is about: those of every entry that   *)
(* shares a name with it.                                                  *)
RemovedNames(s) ==
    LET own == Names(s.item, s.series, None)
        entryNames == {Names(e.item, e.series, e.tmdb) : e \in Entry} IN
    own \cup UNION {n \in entryNames : n \cap own # {}}

(* A checkpoint the server has acknowledged is not lost: its show has an   *)
(* entry at least as new, or something of the show was removed since.      *)
SavesAreKept ==
    \A m \in appliedC : m.snap.op = "put" =>
        LET names == Names(m.snap.item, m.snap.series, m.snap.tmdb) IN
        \/ \E i \in Present(continue) :
             continue[i].ts >= m.ts /\ RowNames(i) \cap names # {}
        \/ \E r \in appliedC :
             /\ r.snap.op = "delete" /\ r.ts >= m.ts
             /\ RemovedNames(r.snap) \cap names # {}

-----------------------------------------------------------------------------
(* Each table implements a register of the newest mutation of each item.   *)

Version == 1..(MaxTime + FutureCap)

LiveValue == [kind : {"live"}, ts : Version, pos : Pos]

AsRegister(rows, tomb) ==
    [i \in Item |->
        IF rows[i].ts # 0
        THEN [kind |-> "live", ts |-> rows[i].ts, pos |-> rows[i].pos]
        ELSE IF tomb[i] # 0 THEN [kind |-> "deleted", ts |-> tomb[i]]
        ELSE [kind |-> "unknown", ts |-> 0]]

ProgressRegister ==
    INSTANCE LwwRegister WITH Value <- LiveValue, Time <- Version,
                              reg <- AsRegister(progress, progressTomb)
ContinueRegister ==
    INSTANCE LwwRegister WITH Value <- LiveValue, Time <- Version,
                              reg <- AsRegister(continue, continueTomb)

(* Every transaction on the progress table is a step of the register: no   *)
(* older mutation ever replaces a newer one or undoes a deletion.          *)
ProgressImplementsRegister == ProgressRegister!Spec

(* So is every transaction on the continue-watching table, the             *)
(* canonicalization of shows included.                                     *)
ContinueImplementsRegister == ContinueRegister!Spec
=============================================================================
