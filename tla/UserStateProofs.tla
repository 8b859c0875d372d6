-------------------------- MODULE UserStateProofs --------------------------
(***************************************************************************)
(* Proofs about UserState for any number of devices, titles, series and    *)
(* mutations, any retention and any bound on time.                         *)
(***************************************************************************)
EXTENDS UserState, TLAPS

-----------------------------------------------------------------------------
(* What the helpers return. *)

(* The server's version of a request is positive, whatever clock the       *)
(* device has (normalize_user_updated_at).                                 *)
LEMMA NormalizedType ==
    ASSUME NEW s \in Snapshot, NEW at \in s.madeAt..now, now \in Nat
    PROVE  /\ Normalized(s, at) \in Nat \ {0}
           /\ at \in Nat
BY TimeAssumption, SMT DEF Normalized, Min2, Snapshot

(* A request names a series or none (the DELETE handlers' series_id). *)
LEMMA RemovedSeriesType ==
    ASSUME NEW s \in Snapshot
    PROVE  RemovedSeries(s) \in Series \cup {None}
BY SeriesAssumption DEF RemovedSeries, Snapshot

(* clear_obsolete_tombstone leaves tombstones natural numbers. *)
LEMMA ClearType ==
    ASSUME NEW tomb \in [Item -> Nat], NEW i, NEW ts \in Nat
    PROVE  ClearObsolete(tomb, i, ts) \in [Item -> Nat]
BY DEF ClearObsolete

(* So does record_tombstone. *)
LEMMA RecordType ==
    ASSUME NEW tomb \in [Item -> Nat], NEW S, NEW ts \in Nat
    PROVE  RecordTombstones(tomb, S, ts) \in [Item -> Nat]
BY DEF RecordTombstones

(* Rows of either table stay rows under an upsert (upsert_watch_progress). *)
LEMMA UpsertType ==
    ASSUME NEW R, NEW rows \in [Item -> R], NEW i, NEW row \in R
    PROVE  UpsertRow(rows, i, row) \in [Item -> R]
BY DEF UpsertRow

(* They do when some are removed (delete_item). *)
LEMMA RemoveType ==
    ASSUME NEW R, NEW rows \in [Item -> R], NEW S, NEW none \in R
    PROVE  RemoveRows(rows, S, none) \in [Item -> R]
BY DEF RemoveRows

(* "No row" is written as a row, in both tables (SELECT ... optional).     *)
LEMMA NoRowType == NoRow \in Row /\ NoEntry \in EntryRow
BY DEF NoRow, NoEntry, Row, EntryRow

-----------------------------------------------------------------------------
(* Type correctness. *)

(* The version a device gives is a natural number, and its clock follows   *)
(* it (replay-safe-state.js).                                              *)
LEMMA VersionType ==
    ASSUME TypeOK, NEW d \in Device, NEW k \in Skew[d]
    PROVE  /\ VersionOf(d, k) \in Nat
           /\ d \in Versioned => VersionOf(d, k) >= now + k /\ VersionOf(d, k) > 0
BY TimeAssumption DEF VersionOf, NextVersion, TypeOK

(* A device's step adds one well-formed mutation (replaySafeMutationBody). *)
LEMMA MakeType ==
    ASSUME TypeOK, NEW d \in Device, NEW k \in Skew[d], NEW snapshot \in Snapshot,
           Make(d, k, snapshot)
    PROVE  TypeOK'
BY VersionType DEF Make, TypeOK

(* A deletion keeps the progress table well-formed                         *)
(* (delete_user_watch_progress_for_series).                                *)
LEMMA RemoveProgressType ==
    ASSUME TypeOK, NEW m \in Mutation, RemoveProgress(m)
    PROVE  /\ progressTomb' \in [Item -> Nat]
           /\ progress' \in [Item -> Row]
           /\ appliedP' \subseteq Mutation
BY RecordType, RemoveType, NoRowType DEF RemoveProgress, TypeOK, Mutation

(* Tables, requests and handlers keep their types in every behaviour of    *)
(* user_state.rs and its clients.                                          *)
THEOREM TypeCorrect == Spec => []TypeOK
<1>1. Init => TypeOK
  BY TimeAssumption DEF Init, TypeOK, NoRow, NoEntry, Row, EntryRow
<1>2. TypeOK /\ [Next]_vars => TypeOK'
  <2> SUFFICES ASSUME TypeOK, [Next]_vars PROVE TypeOK'
    OBVIOUS
  <2>1. ASSUME NEW e \in Entry, NEW p \in Pos, NEW k \in Skew[e.device],
             SaveCheckpoint(e, p, k) PROVE TypeOK'
    <3>1. /\ e.device \in Device /\ e.item \in Item
          /\ e.series \in Series \cup {None} /\ e.tmdb \in Tmdb \cup {None}
      BY EntryAssumption
    <3>2. [op |-> "put", device |-> e.device, item |-> e.item, series |-> e.series,
           tmdb |-> e.tmdb, pos |-> p, ts |-> VersionOf(e.device, k), nr |-> made, madeAt |-> now] \in Snapshot
      BY <3>1, VersionType DEF Snapshot, TypeOK
    <3> QED BY <2>1, <3>1, <3>2, MakeType DEF SaveCheckpoint
  <2>2. ASSUME NEW r \in Removal, NEW k \in Skew[r.device], RemoveTitle(r, k) PROVE TypeOK'
    <3>1. r.device \in Device /\ r.item \in Item /\ r.series \in Series \cup {None}
      BY EntryAssumption
    <3>2. [op |-> "delete", device |-> r.device, item |-> r.item, series |-> r.series,
           tmdb |-> None, pos |-> None, ts |-> VersionOf(r.device, k), nr |-> made, madeAt |-> now] \in Snapshot
      BY <3>1, VersionType DEF Snapshot, TypeOK
    <3> QED BY <2>2, <3>1, <3>2, MakeType DEF RemoveTitle
  <2>3. ASSUME NEW s \in sent, NEW at \in s.madeAt..now, PutProgress(s, at) PROVE TypeOK'
    <3>1. s \in Snapshot /\ Normalized(s, at) \in Nat \ {0}
      BY NormalizedType DEF TypeOK
    <3>2. [ts |-> Normalized(s, at), pos |-> s.pos] \in Row
      BY <3>1 DEF Row, Snapshot
    <3>3. [snap |-> s, ts |-> Normalized(s, at)] \in Mutation
      BY <3>1 DEF Mutation
    <3>4. progress' \in [Item -> Row]
      <4>1. UpsertRow(progress, s.item, [ts |-> Normalized(s, at), pos |-> s.pos])
              \in [Item -> Row]
        BY <3>2, UpsertType DEF TypeOK
      <4> QED BY <2>3, <4>1 DEF PutProgress, TypeOK
    <3>5. progressTomb' \in [Item -> Nat]
      BY <2>3, <3>1, ClearType DEF PutProgress, TypeOK
    <3> QED BY <2>3, <3>3, <3>4, <3>5 DEF PutProgress, TypeOK
  <2>4. ASSUME NEW s \in sent, NEW at \in s.madeAt..now, DeleteProgress(s, at) PROVE TypeOK'
    <3>1. [snap |-> s, ts |-> Normalized(s, at)] \in Mutation
      BY NormalizedType DEF TypeOK, Mutation
    <3> QED BY <2>4, <3>1, RemoveProgressType DEF DeleteProgress, TypeOK
  <2>5. ASSUME NEW s \in sent, NEW at \in s.madeAt..now, PutContinue(s, at) PROVE TypeOK'
    <3> DEFINE ts == Normalized(s, at)
               row == [ts |-> ts, pos |-> s.pos, series |-> s.series, tmdb |-> s.tmdb]
               gone == SeriesSiblings(s) \cup (EntriesOfTmdb(s.tmdb) \ {s.item})
               tombed == (SeriesSiblings(s) \cup (TombstonedByTmdb(s) \ SeriesSiblings(s)))
                            \cap UpTo(continue, ts)
    <3>1. s \in Snapshot /\ ts \in Nat \ {0}
      BY NormalizedType DEF TypeOK
    <3>2. row \in EntryRow /\ [snap |-> s, ts |-> ts] \in Mutation
      BY <3>1 DEF EntryRow, Snapshot, Mutation
    <3>3. UpsertRow(RemoveRows(continue, gone, NoEntry), s.item, row) \in [Item -> EntryRow]
      BY <3>2, UpsertType, RemoveType, NoRowType DEF TypeOK
    <3>4. RecordTombstones(ClearObsolete(continueTomb, s.item, ts), tombed, ts)
            \in [Item -> Nat]
      BY <3>1, ClearType, RecordType DEF TypeOK
    <3>5. continue' \in [Item -> EntryRow] /\ continueTomb' \in [Item -> Nat]
      BY <2>5, <3>3, <3>4 DEF PutContinue, TypeOK
    <3>6. appliedC' \subseteq Mutation
      BY <2>5, <3>2 DEF PutContinue, TypeOK
    <3> QED BY <2>5, <3>5, <3>6 DEF PutContinue, TypeOK
  <2>6. ASSUME NEW s \in sent, NEW at \in s.madeAt..now, DeleteContinue(s, at) PROVE TypeOK'
    <3>1. [snap |-> s, ts |-> Normalized(s, at)] \in Mutation /\ Normalized(s, at) \in Nat
      BY NormalizedType DEF TypeOK, Mutation
    <3>2. continueTomb' \in [Item -> Nat]
      BY <2>6, <3>1, RecordType DEF DeleteContinue, TypeOK
    <3>3. continue' \in [Item -> EntryRow]
      BY <2>6, RemoveType, NoRowType DEF DeleteContinue, TypeOK
    <3> QED BY <2>6, <3>1, <3>2, <3>3 DEF DeleteContinue, TypeOK
  <2>7. ASSUME NEW m \in unfinished, FinishDelete(m) PROVE TypeOK'
    BY <2>7, RemoveProgressType DEF FinishDelete, TypeOK
  <2>8. CASE Restart
    BY <2>8 DEF Restart, TypeOK
  <2>9. CASE SweepTombstones
    BY <2>9 DEF SweepTombstones, TypeOK
  <2>10. CASE Tick
    BY <2>10, TimeAssumption DEF Tick, TypeOK
  <2>11. CASE UNCHANGED vars
    BY <2>11 DEF vars, TypeOK
  <2> QED
    BY <2>1, <2>2, <2>3, <2>4, <2>5, <2>6, <2>7, <2>8, <2>9, <2>10, <2>11 DEF Next
<1> QED BY <1>1, <1>2, PTL DEF Spec

-----------------------------------------------------------------------------
(* The server never gives a version beyond its cap on the future           *)
(* (normalize_user_updated_at).                                            *)
LEMMA VersionBound ==
    ASSUME TypeOK, NEW s \in sent, NEW at \in s.madeAt..now
    PROVE  Normalized(s, at) \in Version
BY NormalizedType, TimeAssumption DEF TypeOK, Normalized, Min2, Version, Snapshot

(* The requests under way. *)

(* A version is not older than the device's clock was when it was given,   *)
(* and only deletions have a second transaction to run.                    *)
RequestInv ==
    /\ \A s \in sent : s.ts # 0 => \E k \in Skew[s.device] : s.ts >= s.madeAt + k
    /\ \A s \in sent :
         s.op = "put" => s.pos \in Pos /\ Consistent(s.item, s.series, s.tmdb)
    /\ \A m \in unfinished : m.snap.op = "delete" /\ m.ts \in Version

(* Every request a client has made carries a version no older than its     *)
(* device's clock, and names that agree (nextUserStateMutationTimestamp).  *)
THEOREM RequestsCorrect == Spec => []RequestInv
<1>1. Init => RequestInv
  BY DEF Init, RequestInv
<1>2. TypeOK /\ RequestInv /\ [Next]_vars => RequestInv'
  <2> SUFFICES ASSUME TypeOK, RequestInv, [Next]_vars PROVE RequestInv'
    OBVIOUS
  <2>1. ASSUME NEW e \in Entry, NEW p \in Pos, NEW k \in Skew[e.device],
               SaveCheckpoint(e, p, k)
        PROVE  RequestInv'
    <3>1. e.device \in Device /\ Consistent(e.item, e.series, e.tmdb)
      BY EntryAssumption
    <3>2. VersionOf(e.device, k) # 0 => VersionOf(e.device, k) >= now + k
      BY <3>1, VersionType DEF VersionOf
    <3> QED BY <2>1, <3>1, <3>2 DEF SaveCheckpoint, Make, RequestInv
  <2>2. ASSUME NEW r \in Removal, NEW k \in Skew[r.device], RemoveTitle(r, k)
        PROVE  RequestInv'
    <3>1. r.device \in Device
      BY EntryAssumption
    <3>2. VersionOf(r.device, k) # 0 => VersionOf(r.device, k) >= now + k
      BY <3>1, VersionType DEF VersionOf
    <3> QED BY <2>2, <3>1, <3>2 DEF RemoveTitle, Make, RequestInv
  <2>3. ASSUME NEW s \in sent, NEW at \in s.madeAt..now,
               PutProgress(s, at) \/ DeleteProgress(s, at) \/ PutContinue(s, at)
        PROVE  RequestInv'
    BY <2>3 DEF PutProgress, DeleteProgress, PutContinue, RequestInv
  <2>4. ASSUME NEW s \in sent, NEW at \in s.madeAt..now, DeleteContinue(s, at)
        PROVE  RequestInv'
    BY <2>4, VersionBound DEF DeleteContinue, RequestInv
  <2>5. ASSUME NEW m \in unfinished, FinishDelete(m) PROVE RequestInv'
    BY <2>5 DEF FinishDelete, RequestInv
  <2>6. CASE Restart \/ SweepTombstones \/ Tick \/ UNCHANGED vars
    BY <2>6 DEF Restart, SweepTombstones, Tick, vars, RequestInv
  <2> QED BY <2>1, <2>2, <2>3, <2>4, <2>5, <2>6 DEF Next
<1> QED BY <1>1, <1>2, TypeCorrect, PTL DEF Spec

(* What arrives is younger than any tombstone that was swept, so no        *)
(* request meets a table that has already forgotten a later deletion.      *)
LEMMA ArrivesBeforeForgotten ==
    ASSUME TypeOK, RequestInv, NEW s \in sent, NEW at \in s.madeAt..now,
           NEW applied, Arrives(s, applied)
    PROVE  now < Normalized(s, at) + Retention
<1>1. /\ s \in Snapshot /\ now \in Nat /\ at \in Nat /\ s.madeAt <= at
      /\ s.ts \in Nat /\ s.madeAt \in Nat /\ s.device \in Device
      /\ Lifetime \in Nat /\ Retention \in Nat /\ FutureCap \in Nat
  BY TimeAssumption DEF TypeOK, Snapshot
<1>2. now <= s.madeAt + Lifetime
  BY DEF Arrives
<1>3. now < at + Retention
  BY <1>1, <1>2, RetentionAssumption
<1>4. CASE s.ts = 0
  BY <1>3, <1>4 DEF Normalized
<1>5. CASE s.ts # 0
  <2>1. PICK k \in Skew[s.device] : s.ts >= s.madeAt + k
    BY <1>5 DEF RequestInv
  <2>2. k \in Int /\ Lifetime < Retention + k
    BY <1>1, RetentionAssumption, TimeAssumption
  <2>3. now < s.ts + Retention
    BY <1>1, <1>2, <2>1, <2>2
  <2> QED BY <1>1, <1>3, <1>5, <2>3 DEF Normalized, Min2
<1> QED BY <1>4, <1>5

-----------------------------------------------------------------------------
(* Watch progress: last write wins. *)

DeletesOf(applied, i) == ItemDeletes(applied, i) \cup SeriesDeletes(applied, i)

(* A deletion of item i at t still has its effect: there is a tombstone as *)
(* new, or a newer row, or no row and no younger request can come.         *)
InEffect(i, t) ==
    \/ progressTomb[i] >= t
    \/ progress[i].ts > t
    \/ progress[i].ts = 0 /\ now >= t + Retention

(* The row is a checkpoint that was processed. *)
RowInv(i) ==
    progress[i].ts # 0 =>
        \E m \in Puts(appliedP, i) : m.ts = progress[i].ts /\ m.snap.pos = progress[i].pos

(* A tombstone is a deletion that was processed. *)
TombInv(i) ==
    progressTomb[i] # 0 => \E d \in DeletesOf(appliedP, i) : d.ts = progressTomb[i]

(* No checkpoint is lost but to a newer one or to a deletion in effect. *)
PutsInv(i) ==
    \A m \in Puts(appliedP, i) :
        \/ m.ts <= progress[i].ts
        \/ \E d \in DeletesOf(appliedP, i) : d.ts >= m.ts /\ InEffect(i, d.ts)

(* Deletions of the item stay in effect. *)
DeletesInv(i) == \A d \in ItemDeletes(appliedP, i) : InEffect(i, d.ts)

ProgressInv ==
    /\ NewerThan(progress, progressTomb)
    /\ \A i \in Item : RowInv(i) /\ TombInv(i) /\ PutsInv(i) /\ DeletesInv(i)

(* A table in which row, tombstone and history agree in this way holds the *)
(* newest mutation of each item (upsert_watch_progress, delete_item).      *)
LEMMA ProgressInvSuffices == TypeOK /\ ProgressInv => ProgressHoldsNewest
<1> SUFFICES ASSUME TypeOK, ProgressInv, NEW i \in Item
             PROVE  HoldsNewest(progress[i], i, appliedP)
  BY DEF ProgressHoldsNewest
<1>1. /\ progress[i].ts \in Nat /\ progressTomb[i] \in Nat
      /\ \A m \in appliedP : m.ts \in Nat \ {0}
  BY DEF TypeOK, Row, Mutation
<1>2. Puts(appliedP, i) \subseteq appliedP /\ DeletesOf(appliedP, i) \subseteq appliedP
  BY DEF Puts, DeletesOf, ItemDeletes, SeriesDeletes
<1>3. progress[i].ts # 0 => progress[i].ts > progressTomb[i]
  BY DEF ProgressInv, NewerThan, Present
<1>4. RowInv(i) /\ PutsInv(i) /\ DeletesInv(i)
  BY DEF ProgressInv
<1>5. ASSUME progress[i].ts # 0, NEW t \in Nat, InEffect(i, t) PROVE t < progress[i].ts
  BY <1>1, <1>3, <1>5 DEF InEffect
<1>6. ASSUME progress[i].ts # 0, NEW m \in Puts(appliedP, i) PROVE m.ts <= progress[i].ts
  BY <1>1, <1>2, <1>4, <1>5, <1>6 DEF PutsInv
<1>7. ASSUME progress[i].ts # 0, NEW m \in ItemDeletes(appliedP, i)
      PROVE  m.ts < progress[i].ts
  BY <1>1, <1>2, <1>4, <1>5, <1>7 DEF DeletesInv, DeletesOf
<1>8. ASSUME progress[i].ts = 0, NEW m \in Puts(appliedP, i)
      PROVE  \E d \in DeletesOf(appliedP, i) : d.ts >= m.ts
  BY <1>1, <1>2, <1>4, <1>8 DEF PutsInv
<1> QED BY <1>4, <1>6, <1>7, <1>8 DEF HoldsNewest, RowInv, DeletesOf

(* A checkpoint that is processed keeps it: it is younger than every       *)
(* deletion already forgotten (upsert_watch_progress).                     *)
LEMMA PutKeepsProgressInv ==
    ASSUME TypeOK, RequestInv, ProgressInv, NEW s \in sent, NEW at \in s.madeAt..now,
           PutProgress(s, at)
    PROVE  ProgressInv'
<1> DEFINE ts == Normalized(s, at)
           new == [snap |-> s, ts |-> ts]
<1>1. /\ s \in Snapshot /\ ts \in Nat \ {0} /\ now \in Nat /\ Retention \in Nat
      /\ s.item \in Item /\ s.op = "put" /\ appliedP' = appliedP \cup {new}
      /\ now' = now
  BY NormalizedType, TimeAssumption DEF TypeOK, Snapshot, PutProgress
<1>2. now < ts + Retention
  BY ArrivesBeforeForgotten DEF PutProgress
<1>3. ASSUME NEW i \in Item
      PROVE  /\ progress[i].ts \in Nat /\ progressTomb[i] \in Nat
             /\ progress[i].ts # 0 => progress[i].ts > progressTomb[i]
  BY DEF TypeOK, Row, ProgressInv, NewerThan, Present
<1>4. ASSUME NEW i \in Item
      PROVE  /\ DeletesOf(appliedP', i) = DeletesOf(appliedP, i)
             /\ ItemDeletes(appliedP', i) = ItemDeletes(appliedP, i)
             /\ \A m \in Puts(appliedP', i) :
                  m \in Puts(appliedP, i) \/ (i = s.item /\ m = new)
             /\ Puts(appliedP, i) \subseteq Puts(appliedP', i)
  BY <1>1 DEF DeletesOf, ItemDeletes, SeriesDeletes, Puts
<1>4a. new.ts = ts /\ new.snap = s /\ new \in Puts(appliedP', s.item)
  BY <1>1 DEF Puts
<1>5. CASE Blocked(progressTomb, s.item, ts)
  <2>1. progress' = progress /\ progressTomb' = progressTomb
    BY <1>5 DEF PutProgress
  <2>2. PICK del \in DeletesOf(appliedP, s.item) : del.ts = progressTomb[s.item]
    BY <1>1, <1>3, <1>5 DEF ProgressInv, TombInv, Blocked
  <2>3. del.ts >= ts /\ InEffect(s.item, del.ts)
    BY <1>1, <1>3, <1>5, <2>2 DEF Blocked, InEffect
  <2>4. ASSUME NEW i \in Item PROVE RowInv(i)' /\ TombInv(i)' /\ PutsInv(i)' /\ DeletesInv(i)'
    <3>1. RowInv(i)'
      BY <1>4, <2>1 DEF RowInv, ProgressInv
    <3>2. TombInv(i)' /\ DeletesInv(i)'
      BY <1>1, <1>4, <2>1 DEF TombInv, DeletesInv, ProgressInv, InEffect
    <3>3. PutsInv(i)'
      <4>1. \A d \in DeletesOf(appliedP, i) : InEffect(i, d.ts)' <=> InEffect(i, d.ts)
        BY <1>1, <2>1 DEF InEffect
      <4>2. ASSUME NEW m \in Puts(appliedP', i), m \in Puts(appliedP, i)
            PROVE  \/ m.ts <= progress[i].ts
                   \/ \E d \in DeletesOf(appliedP, i) : d.ts >= m.ts /\ InEffect(i, d.ts)'
        BY <4>1, <4>2 DEF PutsInv, ProgressInv
      <4>3. ASSUME i = s.item
            PROVE  \E d \in DeletesOf(appliedP, i) : d.ts >= ts /\ InEffect(i, d.ts)'
        BY <2>2, <2>3, <4>1, <4>3
      <4> QED BY <1>4, <1>4a, <2>1, <4>2, <4>3 DEF PutsInv
    <3> QED BY <3>1, <3>2, <3>3
  <2> QED BY <2>1, <2>4 DEF ProgressInv, NewerThan, Present
<1>6. CASE ~Blocked(progressTomb, s.item, ts)
  <2> DEFINE row == [ts |-> ts, pos |-> s.pos]
  <2>1. /\ progressTomb' = ClearObsolete(progressTomb, s.item, ts)
        /\ progress' = UpsertRow(progress, s.item, row)
        /\ progressTomb[s.item] < ts
    BY <1>1, <1>3, <1>6 DEF PutProgress, Blocked
  <2>2. ASSUME NEW i \in Item, i # s.item
        PROVE  progress'[i] = progress[i] /\ progressTomb'[i] = progressTomb[i]
    BY <2>1, <2>2 DEF ClearObsolete, UpsertRow
  <2>3. progressTomb'[s.item] = 0
    BY <1>1, <2>1 DEF ClearObsolete
  <2>4. /\ progress'[s.item] = IF ts >= progress[s.item].ts THEN row ELSE progress[s.item]
        /\ progress'[s.item].ts \in Nat
        /\ progress'[s.item].ts >= ts /\ progress'[s.item].ts >= progress[s.item].ts
    BY <1>1, <1>3, <2>1 DEF UpsertRow
  <2>5. ASSUME NEW i \in Item, NEW t \in Nat, InEffect(i, t) PROVE InEffect(i, t)'
    BY <1>1, <1>2, <1>3, <2>1, <2>2, <2>3, <2>4, <2>5 DEF InEffect
  <2>6. \A m \in appliedP : m.ts \in Nat
    BY DEF TypeOK, Mutation
  <2>7. ASSUME NEW i \in Item PROVE RowInv(i)'
    <3>1. CASE progress'[i] = progress[i]
      BY <1>4, <3>1 DEF RowInv, ProgressInv
    <3>2. CASE i = s.item /\ progress'[i] = row
      BY <1>4a, <3>2 DEF RowInv
    <3> QED BY <2>2, <2>4, <3>1, <3>2
  <2>8. ASSUME NEW i \in Item PROVE TombInv(i)'
    BY <1>4, <2>2, <2>3 DEF TombInv, ProgressInv
  <2>9. ASSUME NEW i \in Item PROVE DeletesInv(i)'
    BY <1>4, <2>5, <2>6 DEF DeletesInv, ProgressInv, ItemDeletes
  <2>10. ASSUME NEW i \in Item PROVE PutsInv(i)'
    <3>1. DeletesOf(appliedP, i) \subseteq appliedP /\ Puts(appliedP, i) \subseteq appliedP
      BY DEF DeletesOf, ItemDeletes, SeriesDeletes, Puts
    <3>2. ASSUME NEW m \in Puts(appliedP, i)
          PROVE \/ m.ts <= progress'[i].ts
                \/ \E d \in DeletesOf(appliedP, i) : d.ts >= m.ts /\ InEffect(i, d.ts)'
      <4>1. CASE m.ts <= progress[i].ts
        BY <1>3, <2>2, <2>4, <2>6, <3>1, <4>1
      <4>2. CASE \E d \in DeletesOf(appliedP, i) : d.ts >= m.ts /\ InEffect(i, d.ts)
        BY <2>5, <2>6, <3>1, <4>2
      <4> QED BY <4>1, <4>2 DEF ProgressInv, PutsInv
    <3> QED BY <1>4, <1>4a, <2>4, <3>2 DEF PutsInv
  <2>11. NewerThan(progress, progressTomb)'
    BY <1>3, <2>2, <2>3, <2>4 DEF NewerThan, Present
  <2> QED BY <2>7, <2>8, <2>9, <2>10, <2>11 DEF ProgressInv
<1> QED BY <1>5, <1>6

(* A deletion that is processed keeps it, for one item and for a series:   *)
(* no row goes without a tombstone (delete_item and                        *)
(* delete_user_watch_progress_for_series).                                 *)
LEMMA RemoveKeepsProgressInv ==
    ASSUME TypeOK, ProgressInv, NEW m \in Mutation, m.snap.op = "delete",
           RemoveProgress(m), now' = now
    PROVE  ProgressInv'
<1> DEFINE series == RemovedSeries(m.snap)
           S == IF series = None THEN {m.snap.item}
                ELSE ProgressOfSeries(series) \cap UpTo(progress, m.ts)
<1>1. /\ progressTomb' = RecordTombstones(progressTomb, S, m.ts)
      /\ progress' = RemoveRows(progress, S \cap UpTo(progress, m.ts), NoRow)
      /\ appliedP' = appliedP \cup {m}
  BY DEF RemoveProgress
<1>2. m.ts \in Nat \ {0} /\ now \in Nat /\ Retention \in Nat
  BY TimeAssumption DEF Mutation, TypeOK
<1>3. ASSUME NEW i \in Item
      PROVE  /\ progress[i].ts \in Nat /\ progressTomb[i] \in Nat
             /\ progress[i].ts # 0 => progress[i].ts > progressTomb[i]
  BY DEF TypeOK, Row, ProgressInv, NewerThan, Present
<1>4. ASSUME NEW i \in Item
      PROVE  /\ Puts(appliedP', i) = Puts(appliedP, i)
             /\ \A d \in ItemDeletes(appliedP', i) :
                  d \in ItemDeletes(appliedP, i) \/ (d = m /\ i \in S)
             /\ DeletesOf(appliedP, i) \subseteq DeletesOf(appliedP', i)
             /\ i \in S => m \in DeletesOf(appliedP', i)
  <2>1. Puts(appliedP', i) = Puts(appliedP, i)
    BY <1>1 DEF Puts
  <2>2. \A d \in ItemDeletes(appliedP', i) :
          d \in ItemDeletes(appliedP, i) \/ (d = m /\ i \in S)
    BY <1>1 DEF ItemDeletes
  <2>3. DeletesOf(appliedP, i) \subseteq DeletesOf(appliedP', i)
    BY <1>1 DEF DeletesOf, ItemDeletes, SeriesDeletes
  <2>4. i \in S => m \in DeletesOf(appliedP', i)
    BY <1>1 DEF DeletesOf, ItemDeletes, SeriesDeletes, ProgressOfSeries
  <2> QED BY <2>1, <2>2, <2>3, <2>4
<1>5. ASSUME NEW i \in Item
      PROVE  /\ progressTomb'[i] = IF i \in S /\ progressTomb[i] < m.ts
                                   THEN m.ts ELSE progressTomb[i]
             /\ progress'[i] = IF i \in S /\ progress[i].ts # 0 /\ progress[i].ts <= m.ts
                               THEN NoRow ELSE progress[i]
  BY <1>1 DEF RecordTombstones, RemoveRows, UpTo, Present
<1>6. NoRow.ts = 0
  BY DEF NoRow
<1>7. ASSUME NEW i \in Item, NEW t \in Nat, InEffect(i, t) PROVE InEffect(i, t)'
  BY <1>2, <1>3, <1>5, <1>6, <1>7 DEF InEffect
<1>8. ASSUME NEW i \in Item, i \in S PROVE InEffect(i, m.ts)'
  BY <1>2, <1>3, <1>5, <1>8 DEF InEffect
<1>9. /\ \A d \in appliedP : d.ts \in Nat
      /\ \A i \in Item : /\ DeletesOf(appliedP, i) \subseteq appliedP
                        /\ Puts(appliedP, i) \subseteq appliedP
                        /\ ItemDeletes(appliedP, i) \subseteq appliedP
  BY DEF TypeOK, Mutation, DeletesOf, ItemDeletes, SeriesDeletes, Puts
<1>10. ASSUME NEW i \in Item PROVE RowInv(i)'
  <2>1. progress'[i].ts # 0 => progress'[i] = progress[i]
    BY <1>5, <1>6
  <2> QED BY <1>4, <2>1 DEF RowInv, ProgressInv
<1>11. ASSUME NEW i \in Item PROVE TombInv(i)'
  <2>1. CASE progressTomb'[i] = progressTomb[i]
    BY <1>4, <2>1 DEF TombInv, ProgressInv
  <2>2. CASE i \in S /\ progressTomb'[i] = m.ts
    BY <1>4, <2>2 DEF TombInv
  <2> QED BY <1>5, <2>1, <2>2
<1>12. ASSUME NEW i \in Item PROVE DeletesInv(i)'
  BY <1>4, <1>7, <1>8, <1>9 DEF DeletesInv, ProgressInv
<1>13. ASSUME NEW i \in Item PROVE PutsInv(i)'
  <2> SUFFICES ASSUME NEW p \in Puts(appliedP, i)
               PROVE  \/ p.ts <= progress'[i].ts
                      \/ \E d \in DeletesOf(appliedP', i) : d.ts >= p.ts /\ InEffect(i, d.ts)'
    BY <1>4 DEF PutsInv
  <2>1. CASE \E d \in DeletesOf(appliedP, i) : d.ts >= p.ts /\ InEffect(i, d.ts)
    BY <1>4, <1>7, <1>9, <2>1
  <2>2. CASE p.ts <= progress[i].ts /\ progress'[i] = progress[i]
    BY <2>2
  <2>3. CASE p.ts <= progress[i].ts /\ progress'[i] # progress[i]
    <3>1. i \in S /\ progress[i].ts <= m.ts
      BY <1>5, <2>3
    <3>2. p.ts <= m.ts
      BY <1>2, <1>3, <1>9, <2>3, <3>1
    <3> QED BY <1>4, <1>8, <3>1, <3>2
  <2> QED BY <2>1, <2>2, <2>3 DEF ProgressInv, PutsInv
<1>14. NewerThan(progress, progressTomb)'
  BY <1>2, <1>3, <1>5, <1>6 DEF NewerThan, Present
<1> QED BY <1>10, <1>11, <1>12, <1>13, <1>14 DEF ProgressInv

(* The hourly sweep and the passing of time keep it: a tombstone goes only *)
(* when no request it could hold back can arrive (sweep_users_db).         *)
LEMMA SweepKeepsProgressInv ==
    ASSUME TypeOK, ProgressInv, SweepTombstones \/ Tick
    PROVE  ProgressInv'
<1>1. now \in Nat /\ now' \in Nat /\ now' >= now /\ Retention \in Nat
  BY TimeAssumption DEF TypeOK, SweepTombstones, Tick
<1>2. ASSUME NEW i \in Item
      PROVE  /\ progress[i].ts \in Nat /\ progressTomb[i] \in Nat
             /\ progress[i].ts # 0 => progress[i].ts > progressTomb[i]
  BY DEF TypeOK, Row, ProgressInv, NewerThan, Present
<1>3. ASSUME NEW i \in Item
      PROVE  /\ progress'[i] = progress[i]
             /\ \/ progressTomb'[i] = progressTomb[i]
                \/ progressTomb'[i] = 0 /\ progressTomb[i] <= now - Retention
  BY DEF SweepTombstones, Tick, Expired
<1>4. appliedP' = appliedP
  BY DEF SweepTombstones, Tick
<1>5. ASSUME NEW i \in Item, NEW t \in Nat, InEffect(i, t) PROVE InEffect(i, t)'
  BY <1>1, <1>2, <1>3, <1>5 DEF InEffect
<1>6. /\ \A d \in appliedP : d.ts \in Nat
      /\ \A i \in Item : /\ DeletesOf(appliedP, i) \subseteq appliedP
                        /\ ItemDeletes(appliedP, i) \subseteq appliedP
  BY DEF TypeOK, Mutation, DeletesOf, ItemDeletes, SeriesDeletes
<1>7. ASSUME NEW i \in Item PROVE RowInv(i)' /\ TombInv(i)'
  BY <1>3, <1>4 DEF RowInv, TombInv, ProgressInv
<1>8. ASSUME NEW i \in Item PROVE DeletesInv(i)'
  BY <1>4, <1>5, <1>6 DEF DeletesInv, ProgressInv
<1>9. ASSUME NEW i \in Item PROVE PutsInv(i)'
  BY <1>3, <1>4, <1>5, <1>6 DEF PutsInv, ProgressInv
<1>10. NewerThan(progress, progressTomb)'
  BY <1>2, <1>3 DEF NewerThan, Present
<1> QED BY <1>7, <1>8, <1>9, <1>10 DEF ProgressInv

(* Clients, continue-watching requests and restarts leave the progress     *)
(* table and its history alone.                                            *)
LEMMA OthersKeepProgressInv ==
    ASSUME ProgressInv, UNCHANGED <<now, progress, progressTomb, appliedP>>
    PROVE  ProgressInv'
BY DEF ProgressInv, NewerThan, Present, RowInv, TombInv, PutsInv, DeletesInv, InEffect

(* Last-write-wins for watch progress, for every order, loss, delay and    *)
(* replay of requests, any number of devices, series-wide deletions,       *)
(* restarts and sweeps (user_state.rs).                                    *)
THEOREM ProgressCorrect == Spec => [](ProgressHoldsNewest /\ NewerThan(progress, progressTomb))
<1>1. Init => ProgressInv
  BY DEF Init, ProgressInv, NewerThan, Present, RowInv, TombInv, PutsInv, DeletesInv,
         NoRow, Puts, ItemDeletes
<1>2. TypeOK /\ RequestInv /\ ProgressInv /\ [Next]_vars => ProgressInv'
  <2> SUFFICES ASSUME TypeOK, RequestInv, ProgressInv, [Next]_vars PROVE ProgressInv'
    OBVIOUS
  <2>1. ASSUME NEW e \in Entry, NEW p \in Pos, NEW k \in Skew[e.device],
               SaveCheckpoint(e, p, k)
        PROVE  ProgressInv'
    BY <2>1, OthersKeepProgressInv DEF SaveCheckpoint, Make
  <2>2. ASSUME NEW r \in Removal, NEW k \in Skew[r.device], RemoveTitle(r, k)
        PROVE  ProgressInv'
    BY <2>2, OthersKeepProgressInv DEF RemoveTitle, Make
  <2>3. ASSUME NEW s \in sent, NEW at \in s.madeAt..now, PutProgress(s, at)
        PROVE  ProgressInv'
    BY <2>3, PutKeepsProgressInv
  <2>4. ASSUME NEW s \in sent, NEW at \in s.madeAt..now, DeleteProgress(s, at)
        PROVE  ProgressInv'
    <3>1. [snap |-> s, ts |-> Normalized(s, at)] \in Mutation
      BY NormalizedType DEF TypeOK, Mutation
    <3> QED BY <2>4, <3>1, RemoveKeepsProgressInv DEF DeleteProgress
  <2>5. ASSUME NEW s \in sent, NEW at \in s.madeAt..now,
               PutContinue(s, at) \/ DeleteContinue(s, at)
        PROVE  ProgressInv'
    BY <2>5, OthersKeepProgressInv DEF PutContinue, DeleteContinue
  <2>6. ASSUME NEW m \in unfinished, FinishDelete(m) PROVE ProgressInv'
    <3>1. m \in Mutation /\ m.snap.op = "delete" /\ now' = now
      BY <2>6 DEF FinishDelete, TypeOK, RequestInv
    <3> QED BY <2>6, <3>1, RemoveKeepsProgressInv DEF FinishDelete
  <2>7. CASE SweepTombstones \/ Tick
    BY <2>7, SweepKeepsProgressInv
  <2>8. CASE Restart \/ UNCHANGED vars
    BY <2>8, OthersKeepProgressInv DEF Restart, vars
  <2> QED BY <2>1, <2>2, <2>3, <2>4, <2>5, <2>6, <2>7, <2>8 DEF Next
<1>3. TypeOK /\ ProgressInv => ProgressHoldsNewest /\ NewerThan(progress, progressTomb)
  BY ProgressInvSuffices DEF ProgressInv
<1> QED BY <1>1, <1>2, <1>3, TypeCorrect, RequestsCorrect, PTL DEF Spec
-----------------------------------------------------------------------------
(* The progress table implements the register. *)

(* upsert_watch_progress writes a newer value or changes nothing. *)
LEMMA PutProgressRefines ==
    ASSUME TypeOK, RequestInv, NewerThan(progress, progressTomb),
           NEW s \in sent, NEW at \in s.madeAt..now, PutProgress(s, at)
    PROVE  [ProgressRegister!Next]_(AsRegister(progress, progressTomb))
<1> DEFINE ts == Normalized(s, at)
           v == [kind |-> "live", ts |-> ts, pos |-> s.pos]
           row == [ts |-> ts, pos |-> s.pos]
           reg == AsRegister(progress, progressTomb)
           new == AsRegister(progress', progressTomb')
<1>1. s.item \in Item /\ ts \in Nat \ {0} /\ v \in LiveValue /\ s.op = "put"
  <2>1. s \in Snapshot /\ ts \in Nat \ {0} /\ s.op = "put" /\ s.pos \in Pos /\ ts \in Version
    BY NormalizedType, VersionBound DEF TypeOK, RequestInv, PutProgress
  <2> QED BY <2>1 DEF Snapshot, LiveValue
<1>2. ASSUME NEW i \in Item
      PROVE  /\ progress[i].ts \in Nat /\ progressTomb[i] \in Nat
             /\ progress[i].ts # 0 => progress[i].ts > progressTomb[i]
  BY DEF TypeOK, Row, NewerThan, Present
<1>3. CASE Blocked(progressTomb, s.item, ts)
  BY <1>3 DEF PutProgress
<1>4. CASE ~Blocked(progressTomb, s.item, ts)
  <2>1. /\ progressTomb' = ClearObsolete(progressTomb, s.item, ts)
        /\ progress' = UpsertRow(progress, s.item, row)
        /\ progressTomb[s.item] < ts
    BY <1>1, <1>2, <1>4 DEF PutProgress, Blocked
  <2>2. ASSUME NEW i \in Item, i # s.item PROVE new[i] = reg[i]
    BY <2>1, <2>2 DEF AsRegister, ClearObsolete, UpsertRow
  <2>3. /\ progressTomb'[s.item] = 0
        /\ progress'[s.item] = IF ts >= progress[s.item].ts THEN row ELSE progress[s.item]
    BY <1>1, <2>1 DEF ClearObsolete, UpsertRow
  <2>4. CASE progress[s.item].ts > ts
    <3>1. progress'[s.item] = progress[s.item] /\ progress[s.item].ts # 0
      BY <1>1, <1>2, <2>3, <2>4
    <3>2. new[s.item] = reg[s.item]
      BY <1>1, <2>3, <3>1 DEF AsRegister
    <3>3. new = reg
      BY <2>2, <3>2 DEF AsRegister
    <3> QED BY <3>3 DEF AsRegister
  <2>5. CASE progress[s.item].ts <= ts
    <3>1. progress'[s.item] = row
      BY <1>1, <1>2, <2>3, <2>5
    <3>2. new[s.item] = v
      BY <1>1, <3>1 DEF AsRegister
    <3>3. ProgressRegister!Supersedes(v, reg[s.item])
      <4>1. CASE progress[s.item].ts # 0
        <5>1. reg[s.item] = [kind |-> "live", ts |-> progress[s.item].ts,
                             pos |-> progress[s.item].pos]
          BY <1>1, <4>1 DEF AsRegister
        <5> QED BY <1>1, <1>2, <2>5, <5>1 DEF ProgressRegister!Supersedes
      <4>2. CASE progress[s.item].ts = 0 /\ progressTomb[s.item] # 0
        <5>1. reg[s.item] = [kind |-> "deleted", ts |-> progressTomb[s.item]]
          BY <1>1, <4>2 DEF AsRegister
        <5> QED BY <1>1, <1>2, <2>1, <5>1 DEF ProgressRegister!Supersedes
      <4>3. CASE progress[s.item].ts = 0 /\ progressTomb[s.item] = 0
        <5>1. reg[s.item] = [kind |-> "unknown", ts |-> 0]
          BY <1>1, <4>3 DEF AsRegister
        <5> QED BY <5>1 DEF ProgressRegister!Supersedes
      <4> QED BY <4>1, <4>2, <4>3
    <3>4. new = [j \in Item |-> IF j = s.item THEN v
                                ELSE IF j \in {} THEN ProgressRegister!Deleted(v.ts) ELSE reg[j]]
      BY <2>2, <3>2 DEF AsRegister
    <3>5. ProgressRegister!Write(s.item, v, {})
      BY <3>3, <3>4 DEF ProgressRegister!Write, ProgressRegister!IsLive
    <3> QED BY <1>1, <3>5 DEF ProgressRegister!Next
  <2> QED BY <1>1, <1>2, <2>4, <2>5
<1> QED BY <1>3, <1>4

(* A deletion, of one item or of a series, erases what it is newer than    *)
(* (delete_item, delete_user_watch_progress_for_series).                   *)
LEMMA RemoveProgressRefines ==
    ASSUME TypeOK, NewerThan(progress, progressTomb), NEW m \in Mutation,
           m.ts \in Version, RemoveProgress(m)
    PROVE  [ProgressRegister!Next]_(AsRegister(progress, progressTomb))
<1> DEFINE series == RemovedSeries(m.snap)
           S == IF series = None THEN {m.snap.item}
                ELSE ProgressOfSeries(series) \cap UpTo(progress, m.ts)
           reg == AsRegister(progress, progressTomb)
           new == AsRegister(progress', progressTomb')
           erased == {i \in S \cap Item : progress[i].ts <= m.ts /\ progressTomb[i] <= m.ts}
<1>1. /\ progressTomb' = RecordTombstones(progressTomb, S, m.ts)
      /\ progress' = RemoveRows(progress, S \cap UpTo(progress, m.ts), NoRow)
  BY DEF RemoveProgress
<1>2. m.ts \in Nat \ {0}
  BY DEF Mutation
<1>3. ASSUME NEW i \in Item
      PROVE  /\ progress[i].ts \in Nat /\ progressTomb[i] \in Nat
             /\ progress[i].ts # 0 => progress[i].ts > progressTomb[i]
  BY DEF TypeOK, Row, NewerThan, Present
<1>4. ASSUME NEW i \in Item
      PROVE  /\ progressTomb'[i] = IF i \in S /\ progressTomb[i] < m.ts
                                   THEN m.ts ELSE progressTomb[i]
             /\ progress'[i] = IF i \in S /\ progress[i].ts # 0 /\ progress[i].ts <= m.ts
                               THEN NoRow ELSE progress[i]
  BY <1>1 DEF RecordTombstones, RemoveRows, UpTo, Present
<1>5. ASSUME NEW i \in erased
      PROVE  /\ new[i] = ProgressRegister!Deleted(m.ts)
             /\ ProgressRegister!Supersedes(ProgressRegister!Deleted(m.ts), reg[i])
  <2>1. i \in Item /\ i \in S /\ progress[i].ts <= m.ts /\ progressTomb[i] <= m.ts
    OBVIOUS
  <2>2. progress'[i].ts = 0 /\ progressTomb'[i] = m.ts
    BY <1>2, <1>3, <1>4, <2>1 DEF NoRow
  <2>3. new[i] = ProgressRegister!Deleted(m.ts)
    BY <1>2, <2>1, <2>2 DEF AsRegister, ProgressRegister!Deleted
  <2>4. reg[i].kind = "unknown" \/ reg[i].ts <= m.ts
    BY <2>1 DEF AsRegister
  <2>5. reg[i].ts \in Nat
    BY <1>3, <2>1 DEF AsRegister
  <2> QED
    BY <1>2, <2>3, <2>4, <2>5 DEF ProgressRegister!Supersedes, ProgressRegister!Deleted
<1>6. ASSUME NEW i \in Item, i \notin erased PROVE new[i] = reg[i]
  <2>1. CASE progress'[i] = progress[i] /\ progressTomb'[i] = progressTomb[i]
    BY <2>1 DEF AsRegister
  <2>2. CASE i \in S /\ progress[i].ts > m.ts
    <3>1. progress'[i] = progress[i] /\ progress[i].ts # 0
      BY <1>2, <1>3, <1>4, <2>2
    <3> QED BY <3>1 DEF AsRegister
  <2>3. CASE i \in S /\ progressTomb[i] > m.ts
    <3>1. progressTomb'[i] = progressTomb[i] /\ progress'[i] = progress[i]
      BY <1>2, <1>3, <1>4, <2>3
    <3> QED BY <3>1 DEF AsRegister
  <2> QED BY <1>2, <1>3, <1>4, <1>6, <2>1, <2>2, <2>3
<1>7. new = [j \in Item |-> IF j \in erased THEN ProgressRegister!Deleted(m.ts) ELSE reg[j]]
  BY <1>5, <1>6 DEF AsRegister
<1>8. ProgressRegister!Erase(erased, m.ts)
  BY <1>5, <1>7 DEF ProgressRegister!Erase
<1> QED BY <1>8 DEF ProgressRegister!Next

(* The sweep forgets deletions only (sweep_users_db). *)
LEMMA SweepProgressRefines ==
    ASSUME SweepTombstones
    PROVE  [ProgressRegister!Next]_(AsRegister(progress, progressTomb))
<1> DEFINE reg == AsRegister(progress, progressTomb)
           new == AsRegister(progress', progressTomb')
           gone == {i \in Expired(progressTomb) : progress[i].ts = 0}
<1>1. ASSUME NEW i \in Item
      PROVE  /\ progress'[i] = progress[i]
             /\ progressTomb'[i] = IF i \in Expired(progressTomb) THEN 0 ELSE progressTomb[i]
  BY DEF SweepTombstones
<1>2. ASSUME NEW i \in gone PROVE new[i] = ProgressRegister!Unknown /\ reg[i].kind # "live"
  BY <1>1 DEF AsRegister, Expired, ProgressRegister!Unknown
<1>3. ASSUME NEW i \in Item, i \notin gone PROVE new[i] = reg[i]
  BY <1>1, <1>3 DEF AsRegister
<1>4. new = [j \in Item |-> IF j \in gone THEN ProgressRegister!Unknown ELSE reg[j]]
  BY <1>2, <1>3 DEF AsRegister
<1>5. ProgressRegister!Forget(gone)
  BY <1>2, <1>4 DEF ProgressRegister!Forget, ProgressRegister!IsLive
<1>6. gone \in SUBSET Item
  BY DEF Expired
<1> QED BY <1>5, <1>6 DEF ProgressRegister!Next

(* The progress table implements the register: whatever the network does,  *)
(* a value is only ever replaced by a newer mutation.                      *)
THEOREM ProgressRefinesRegister == Spec => ProgressImplementsRegister
<1>1. Init => ProgressRegister!Init
  BY DEF Init, ProgressRegister!Init, AsRegister, ProgressRegister!Unknown, NoRow
<1>2. TypeOK /\ RequestInv /\ NewerThan(progress, progressTomb) /\ [Next]_vars
        => [ProgressRegister!Next]_(AsRegister(progress, progressTomb))
  <2> SUFFICES ASSUME TypeOK, RequestInv, NewerThan(progress, progressTomb), [Next]_vars
               PROVE  [ProgressRegister!Next]_(AsRegister(progress, progressTomb))
    OBVIOUS
  <2>1. ASSUME UNCHANGED <<progress, progressTomb>>
        PROVE  [ProgressRegister!Next]_(AsRegister(progress, progressTomb))
    BY <2>1
  <2>2. ASSUME NEW s \in sent, NEW at \in s.madeAt..now, PutProgress(s, at)
        PROVE  [ProgressRegister!Next]_(AsRegister(progress, progressTomb))
    BY <2>2, PutProgressRefines
  <2>3. ASSUME NEW s \in sent, NEW at \in s.madeAt..now, DeleteProgress(s, at)
        PROVE  [ProgressRegister!Next]_(AsRegister(progress, progressTomb))
    <3>1. [snap |-> s, ts |-> Normalized(s, at)] \in Mutation /\ Normalized(s, at) \in Version
      BY NormalizedType, VersionBound DEF TypeOK, Mutation
    <3> QED BY <2>3, <3>1, RemoveProgressRefines DEF DeleteProgress
  <2>4. ASSUME NEW m \in unfinished, FinishDelete(m)
        PROVE  [ProgressRegister!Next]_(AsRegister(progress, progressTomb))
    <3>1. m \in Mutation /\ m.ts \in Version
      BY DEF TypeOK, RequestInv
    <3> QED BY <2>4, <3>1, RemoveProgressRefines DEF FinishDelete
  <2>5. CASE SweepTombstones
    BY <2>5, SweepProgressRefines
  <2> QED
    BY <2>1, <2>2, <2>3, <2>4, <2>5
    DEF Next, vars, SaveCheckpoint, RemoveTitle, Make, PutContinue, DeleteContinue,
        Restart, Tick
<1> QED
  BY <1>1, <1>2, TypeCorrect, RequestsCorrect, ProgressCorrect, PTL
  DEF Spec, ProgressRegister!Spec, ProgressImplementsRegister

-----------------------------------------------------------------------------
(* Continue watching. *)

ContinueInv ==
    /\ NewerThan(continue, continueTomb)
    /\ \A i \in Present(continue) : Consistent(i, continue[i].series, continue[i].tmdb)

(* The rows a save takes with it, and those it writes tombstones for. *)
Gone(s) == SeriesSiblings(s) \cup (EntriesOfTmdb(s.tmdb) \ {s.item})
Tombed(s, ts) ==
    (SeriesSiblings(s) \cup (TombstonedByTmdb(s) \ SeriesSiblings(s))) \cap UpTo(continue, ts)

(* A save that is accepted takes only rows that are not newer, although    *)
(* its DELETEs have no such condition, and writes a tombstone for each of  *)
(* them and for no other row (upsert_user_continue_watching).              *)
LEMMA SaveTakesWhatItTombstones ==
    ASSUME TypeOK, ContinueInv, NEW s \in Snapshot, NEW ts \in Nat,
           Consistent(s.item, s.series, s.tmdb), ~NewerInShow(s, ts)
    PROVE  Gone(s) \subseteq UpTo(continue, ts) \ {s.item} /\ Tombed(s, ts) = Gone(s)
<1>1. \A i \in Item : continue[i].ts \in Nat
  BY DEF TypeOK, EntryRow
<1>2. ASSUME NEW j \in SeriesSiblings(s)
      PROVE  j \in EntriesOf(s.series, CanonicalTmdb(s)) /\ s.series # None
  BY DEF SeriesSiblings, EntriesOf, IdentityOf, CanonicalTmdb, Consistent
<1>3. ASSUME NEW j \in EntriesOfTmdb(s.tmdb)
      PROVE  j \in EntriesOf(s.series, CanonicalTmdb(s)) /\ CanonicalTmdb(s) # None
  BY DEF EntriesOfTmdb, EntriesOf, IdentityOf, CanonicalTmdb
<1>4. ASSUME NEW j \in Gone(s) PROVE j \in UpTo(continue, ts) \ {s.item}
  <2>1. j \in EntriesOf(s.series, CanonicalTmdb(s)) /\ ~(continue[j].ts > ts)
    BY <1>2, <1>3 DEF Gone, NewerInShow
  <2>2. j # s.item
    BY DEF Gone, SeriesSiblings
  <2>3. j \in Present(continue) /\ j \in Item
    BY <2>1 DEF EntriesOf, Present
  <2> QED BY <1>1, <2>1, <2>2, <2>3 DEF UpTo
<1>5. TombstonedByTmdb(s) = EntriesOfTmdb(s.tmdb) \ {s.item}
  <2>1. ASSUME NEW i \in Present(continue), s.tmdb # None,
               \/ continue[i].series # None /\ TmdbOfSeries[continue[i].series] = s.tmdb
               \/ SeriesInIdentity[i] # None /\ TmdbOfSeries[SeriesInIdentity[i]] = s.tmdb
        PROVE  i \in EntriesOfTmdb(s.tmdb)
    <3>1. Consistent(i, continue[i].series, continue[i].tmdb)
      BY DEF ContinueInv
    <3>2. DerivedTmdb(continue[i].series) = s.tmdb
      BY <2>1, <3>1 DEF Consistent, DerivedTmdb
    <3>3. s.tmdb \in {continue[i].tmdb, TmdbInIdentity[i]}
      BY <2>1, <3>1, <3>2 DEF Consistent
    <3> QED BY <2>1, <3>3 DEF EntriesOfTmdb
  <2>2. CASE s.tmdb = None
    BY <2>2 DEF TombstonedByTmdb, EntriesOfTmdb
  <2>3. CASE s.tmdb # None
    BY <2>1, <2>3 DEF TombstonedByTmdb, EntriesOfTmdb
  <2> QED BY <2>2, <2>3
<1> QED BY <1>4, <1>5 DEF Gone, Tombed

(* An accepted save, row by row (upsert_user_continue_watching). *)
LEMMA AcceptedSave ==
    ASSUME TypeOK, RequestInv, ContinueInv, NEW s \in sent, NEW at \in s.madeAt..now,
           PutContinue(s, at), ~NewerInShow(s, Normalized(s, at)),
           ~Blocked(continueTomb, s.item, Normalized(s, at))
    PROVE  LET ts == Normalized(s, at)
               row == [ts |-> ts, pos |-> s.pos, series |-> s.series, tmdb |-> s.tmdb] IN
           /\ Gone(s) \subseteq UpTo(continue, ts) \ {s.item}
           /\ \A j \in Item :
                /\ j \in Gone(s) => continue'[j] = NoEntry /\ continueTomb'[j] = ts
                /\ j \notin Gone(s) /\ j # s.item =>
                     continue'[j] = continue[j] /\ continueTomb'[j] = continueTomb[j]
           /\ continueTomb'[s.item] = 0
           /\ ts >= continue[s.item].ts => continue'[s.item] = row
           /\ ts < continue[s.item].ts => continue'[s.item] = continue[s.item]
<1> DEFINE ts == Normalized(s, at)
           row == [ts |-> ts, pos |-> s.pos, series |-> s.series, tmdb |-> s.tmdb]
<1>1. s \in Snapshot /\ ts \in Nat \ {0} /\ s.item \in Item /\ s.op = "put"
  <2>1. s \in Snapshot /\ ts \in Nat \ {0} /\ s.op = "put"
    BY NormalizedType DEF TypeOK, PutContinue
  <2> QED BY <2>1 DEF Snapshot
<1>2. Gone(s) \subseteq UpTo(continue, ts) \ {s.item} /\ Tombed(s, ts) = Gone(s)
  BY <1>1, SaveTakesWhatItTombstones DEF RequestInv
<1>3. /\ continueTomb' = RecordTombstones(ClearObsolete(continueTomb, s.item, ts),
                                          Tombed(s, ts), ts)
      /\ continue' = UpsertRow(RemoveRows(continue, Gone(s), NoEntry), s.item, row)
  BY DEF PutContinue, Gone, Tombed
<1>4. ASSUME NEW j \in Item
      PROVE  /\ continueTomb[j] \in Nat /\ continue[j].ts \in Nat
             /\ continue[j].ts # 0 => continue[j].ts > continueTomb[j]
  BY DEF TypeOK, EntryRow, ContinueInv, NewerThan, Present
<1>5. continueTomb[s.item] < ts
  BY <1>1, <1>4 DEF Blocked
<1>6. ASSUME NEW j \in Item
      PROVE  continueTomb'[j] =
               LET kept == IF j = s.item THEN 0 ELSE continueTomb[j] IN
               IF j \in Gone(s) /\ kept < ts THEN ts ELSE kept
  BY <1>2, <1>3, <1>5 DEF RecordTombstones, ClearObsolete
<1>7. ASSUME NEW j \in Gone(s) PROVE continueTomb[j] < ts /\ j # s.item /\ j \in Item
  <2>1. j \in Item /\ continue[j].ts # 0 /\ continue[j].ts <= ts /\ j # s.item
    BY <1>2 DEF UpTo, Present
  <2> QED BY <1>1, <1>4, <2>1
<1>8. ASSUME NEW j \in Item, j # s.item
      PROVE  continue'[j] = IF j \in Gone(s) THEN NoEntry ELSE continue[j]
  BY <1>3, <1>8 DEF UpsertRow, RemoveRows
<1>9. continue'[s.item] = IF ts >= continue[s.item].ts THEN row ELSE continue[s.item]
  BY <1>1, <1>2, <1>3 DEF UpsertRow, RemoveRows
<1>10. s.item \notin Gone(s)
  BY <1>2
<1> HIDE DEF ts
<1>11. ts < continue[s.item].ts => ~(ts >= continue[s.item].ts)
  BY <1>1, <1>4
<1> QED BY <1>1, <1>2, <1>6, <1>7, <1>8, <1>9, <1>10, <1>11 DEF ts

(* A save that is refused changes nothing; one that is accepted keeps row  *)
(* and tombstone apart, for its own row and for its siblings.              *)
LEMMA PutKeepsContinueInv ==
    ASSUME TypeOK, RequestInv, ContinueInv, NEW s \in sent, NEW at \in s.madeAt..now,
           PutContinue(s, at)
    PROVE  ContinueInv'
<1> DEFINE ts == Normalized(s, at)
           row == [ts |-> ts, pos |-> s.pos, series |-> s.series, tmdb |-> s.tmdb]
<1>1. CASE NewerInShow(s, ts) \/ Blocked(continueTomb, s.item, ts)
  BY <1>1 DEF PutContinue, ContinueInv, NewerThan, Present
<1>2. CASE ~NewerInShow(s, ts) /\ ~Blocked(continueTomb, s.item, ts)
  <2>1. /\ \A j \in Item :
             /\ j \in Gone(s) => continue'[j] = NoEntry /\ continueTomb'[j] = ts
             /\ j \notin Gone(s) /\ j # s.item =>
                  continue'[j] = continue[j] /\ continueTomb'[j] = continueTomb[j]
        /\ s.item \notin Gone(s)
        /\ continueTomb'[s.item] = 0
        /\ ts >= continue[s.item].ts => continue'[s.item] = row
        /\ ts < continue[s.item].ts => continue'[s.item] = continue[s.item]
    BY <1>2, AcceptedSave
  <2>2. s.item \in Item /\ ts \in Nat \ {0} /\ Consistent(s.item, s.series, s.tmdb)
    <3>1. s \in Snapshot /\ ts \in Nat \ {0} /\ s.op = "put"
      BY NormalizedType DEF TypeOK, PutContinue
    <3> QED BY <3>1 DEF Snapshot, RequestInv
  <2>3. ASSUME NEW j \in Item
        PROVE  /\ continueTomb[j] \in Nat /\ continue[j].ts \in Nat
               /\ continue[j].ts # 0 =>
                    /\ continue[j].ts > continueTomb[j]
                    /\ Consistent(j, continue[j].series, continue[j].tmdb)
    BY DEF TypeOK, EntryRow, ContinueInv, NewerThan, Present
  <2> HIDE DEF ts
  <2>4. ASSUME NEW j \in Item, continue'[j].ts # 0, j # s.item
        PROVE  /\ continue'[j].ts > continueTomb'[j]
               /\ Consistent(j, continue'[j].series, continue'[j].tmdb)
    BY <2>1, <2>3, <2>4 DEF NoEntry
  <2>5. continue'[s.item] = row \/ continue'[s.item] = continue[s.item]
    BY <2>1, <2>2, <2>3
  <2>6. ASSUME continue'[s.item].ts # 0
        PROVE  /\ continue'[s.item].ts > continueTomb'[s.item]
               /\ Consistent(s.item, continue'[s.item].series, continue'[s.item].tmdb)
    BY <2>1, <2>2, <2>3, <2>5, <2>6
  <2> QED BY <2>4, <2>6 DEF ContinueInv, NewerThan, Present
<1> QED BY <1>1, <1>2

(* A removal, of one title or of a show, row by row (delete_item and       *)
(* delete_user_continue_watching_for_series).                              *)
LEMMA RemovedEntries ==
    ASSUME TypeOK, ContinueInv, NEW s \in sent, NEW at \in s.madeAt..now,
           DeleteContinue(s, at)
    PROVE  \E S :
             /\ S = IF RemovedSeries(s) = None THEN {s.item}
                    ELSE EntriesOf(RemovedSeries(s), DerivedTmdb(RemovedSeries(s)))
                           \cap UpTo(continue, Normalized(s, at))
             /\ \A j \in Item :
                  /\ continueTomb'[j] = IF j \in S /\ continueTomb[j] < Normalized(s, at)
                                        THEN Normalized(s, at) ELSE continueTomb[j]
                  /\ continue'[j] = IF /\ j \in S /\ continue[j].ts # 0
                                       /\ continue[j].ts <= Normalized(s, at)
                                    THEN NoEntry ELSE continue[j]
BY DEF DeleteContinue, RecordTombstones, RemoveRows, UpTo, Present

(* A removal leaves no row beside a tombstone as new (delete_item,         *)
(* tombstone_continue_series).                                             *)
LEMMA DeleteKeepsContinueInv ==
    ASSUME TypeOK, ContinueInv, NEW s \in sent, NEW at \in s.madeAt..now,
           DeleteContinue(s, at)
    PROVE  ContinueInv'
<1>1. Normalized(s, at) \in Nat
  BY NormalizedType DEF TypeOK
<1>2. ASSUME NEW j \in Item
      PROVE  /\ continueTomb[j] \in Nat /\ continue[j].ts \in Nat
             /\ continue[j].ts # 0 =>
                  /\ continue[j].ts > continueTomb[j]
                  /\ Consistent(j, continue[j].series, continue[j].tmdb)
  BY DEF TypeOK, EntryRow, ContinueInv, NewerThan, Present
<1>3. NoEntry.ts = 0
  BY DEF NoEntry
<1> QED BY <1>1, <1>2, <1>3, RemovedEntries DEF ContinueInv, NewerThan, Present

(* The sweep takes tombstones, never rows (sweep_users_db). *)
LEMMA SweepKeepsContinueInv ==
    ASSUME TypeOK, ContinueInv, SweepTombstones
    PROVE  ContinueInv'
<1>1. ASSUME NEW j \in Item
      PROVE  /\ continueTomb[j] \in Nat /\ continue[j].ts \in Nat
             /\ continueTomb'[j] \in {0, continueTomb[j]} /\ continue'[j] = continue[j]
  BY DEF TypeOK, EntryRow, SweepTombstones
<1> QED BY <1>1 DEF ContinueInv, NewerThan, Present

(* In every behaviour a continue-watching row is newer than its tombstone  *)
(* and carries the names of one show only (upsert_user_continue_watching). *)
THEOREM ContinueCorrect == Spec => []ContinueInv
<1>1. Init => ContinueInv
  BY DEF Init, ContinueInv, NewerThan, Present, NoEntry
<1>2. TypeOK /\ RequestInv /\ ContinueInv /\ [Next]_vars => ContinueInv'
  <2> SUFFICES ASSUME TypeOK, RequestInv, ContinueInv, [Next]_vars PROVE ContinueInv'
    OBVIOUS
  <2>1. ASSUME UNCHANGED <<continue, continueTomb>> PROVE ContinueInv'
    BY <2>1 DEF ContinueInv, NewerThan, Present
  <2>2. ASSUME NEW s \in sent, NEW at \in s.madeAt..now, PutContinue(s, at)
        PROVE  ContinueInv'
    BY <2>2, PutKeepsContinueInv
  <2>3. ASSUME NEW s \in sent, NEW at \in s.madeAt..now, DeleteContinue(s, at)
        PROVE  ContinueInv'
    BY <2>3, DeleteKeepsContinueInv
  <2>4. CASE SweepTombstones
    BY <2>4, SweepKeepsContinueInv
  <2> QED
    BY <2>1, <2>2, <2>3, <2>4
    DEF Next, vars, SaveCheckpoint, RemoveTitle, Make, PutProgress, DeleteProgress,
        FinishDelete, Restart, Tick
<1> QED BY <1>1, <1>2, TypeCorrect, RequestsCorrect, PTL DEF Spec

(* The two facts about rows and tombstones, for both tables: no request    *)
(* deletes a row it does not outdate or leaves one it does (user_state.rs).*)
THEOREM RowsAndTombstones == Spec => []RowNewerThanTombstone
<1>1. ContinueInv => NewerThan(continue, continueTomb)
  BY DEF ContinueInv
<1>2. NewerThan(progress, progressTomb) /\ NewerThan(continue, continueTomb)
        => RowNewerThanTombstone
  BY DEF RowNewerThanTombstone
<1> QED BY <1>1, <1>2, ProgressCorrect, ContinueCorrect, PTL

(* An accepted save writes its own item, unless the row is newer, and      *)
(* erases the older entries of the show.                                   *)
LEMMA PutContinueRefines ==
    ASSUME TypeOK, RequestInv, ContinueInv, NEW s \in sent, NEW at \in s.madeAt..now,
           PutContinue(s, at)
    PROVE  [ContinueRegister!Next]_(AsRegister(continue, continueTomb))
<1> DEFINE ts == Normalized(s, at)
           v == [kind |-> "live", ts |-> ts, pos |-> s.pos]
           row == [ts |-> ts, pos |-> s.pos, series |-> s.series, tmdb |-> s.tmdb]
           reg == AsRegister(continue, continueTomb)
           new == AsRegister(continue', continueTomb')
<1>1. s.item \in Item /\ ts \in Nat \ {0} /\ ts \in Version /\ v \in LiveValue
  <2>1. s \in Snapshot /\ ts \in Nat \ {0} /\ s.op = "put" /\ s.pos \in Pos /\ ts \in Version
    BY NormalizedType, VersionBound DEF TypeOK, RequestInv, PutContinue
  <2> QED BY <2>1 DEF Snapshot, LiveValue
<1>2. ASSUME NEW i \in Item
      PROVE  /\ continue[i].ts \in Nat /\ continueTomb[i] \in Nat
             /\ continue[i].ts # 0 => continue[i].ts > continueTomb[i]
  BY DEF TypeOK, EntryRow, ContinueInv, NewerThan, Present
<1>3. CASE NewerInShow(s, ts) \/ Blocked(continueTomb, s.item, ts)
  BY <1>3 DEF PutContinue
<1>4. CASE ~NewerInShow(s, ts) /\ ~Blocked(continueTomb, s.item, ts)
  <2>1. /\ Gone(s) \subseteq UpTo(continue, ts) \ {s.item}
        /\ \A j \in Item :
             /\ j \in Gone(s) => continue'[j] = NoEntry /\ continueTomb'[j] = ts
             /\ j \notin Gone(s) /\ j # s.item =>
                  continue'[j] = continue[j] /\ continueTomb'[j] = continueTomb[j]
        /\ continueTomb'[s.item] = 0
        /\ ts >= continue[s.item].ts => continue'[s.item] = row
        /\ ts < continue[s.item].ts => continue'[s.item] = continue[s.item]
    BY <1>4, AcceptedSave
  <2>2. continueTomb[s.item] < ts
    BY <1>1, <1>2, <1>4 DEF Blocked
  <2>3. ASSUME NEW j \in Gone(s)
        PROVE  /\ j \in Item /\ j # s.item /\ new[j] = ContinueRegister!Deleted(ts)
               /\ ContinueRegister!IsLive(reg[j])
               /\ ContinueRegister!Supersedes(ContinueRegister!Deleted(ts), reg[j])
    <3>1. j \in Item /\ j # s.item /\ continue[j].ts # 0 /\ continue[j].ts <= ts
      BY <2>1 DEF UpTo, Present
    <3>2. continue'[j].ts = 0 /\ continueTomb'[j] = ts
      BY <2>1, <3>1 DEF NoEntry
    <3>3. new[j] = ContinueRegister!Deleted(ts)
      BY <1>1, <3>1, <3>2 DEF AsRegister, ContinueRegister!Deleted
    <3>4. reg[j] = [kind |-> "live", ts |-> continue[j].ts, pos |-> continue[j].pos]
      BY <3>1 DEF AsRegister
    <3> QED
      BY <1>1, <1>2, <3>1, <3>3, <3>4
      DEF ContinueRegister!IsLive, ContinueRegister!Supersedes, ContinueRegister!Deleted
  <2>4. ASSUME NEW j \in Item, j \notin Gone(s), j # s.item PROVE new[j] = reg[j]
    BY <2>1, <2>4 DEF AsRegister
  <2>5. CASE ts < continue[s.item].ts
    <3>1. continue'[s.item] = continue[s.item] /\ continue[s.item].ts # 0
      BY <1>1, <1>2, <2>1, <2>5
    <3>2. new[s.item] = reg[s.item]
      BY <1>1, <3>1 DEF AsRegister
    <3>3. new = [j \in Item |-> IF j \in Gone(s) THEN ContinueRegister!Deleted(ts)
                                ELSE reg[j]]
      <4>1. new = [j \in Item |-> new[j]]
        BY DEF AsRegister
      <4> HIDE DEF new, reg, ts
      <4> QED BY <2>3, <2>4, <3>2, <4>1
    <3>4. ContinueRegister!Erase(Gone(s), ts)
      BY <2>3, <3>3 DEF ContinueRegister!Erase
    <3>5. Gone(s) \in SUBSET Item
      BY <2>3
    <3> QED BY <1>1, <3>4, <3>5 DEF ContinueRegister!Next
  <2>6. CASE ts >= continue[s.item].ts
    <3>1. new[s.item] = v
      BY <1>1, <2>1, <2>6 DEF AsRegister
    <3>2. ContinueRegister!Supersedes(v, reg[s.item])
      <4>1. CASE continue[s.item].ts # 0
        <5>1. reg[s.item] = [kind |-> "live", ts |-> continue[s.item].ts,
                             pos |-> continue[s.item].pos]
          BY <1>1, <4>1 DEF AsRegister
        <5> QED BY <1>1, <1>2, <2>6, <5>1 DEF ContinueRegister!Supersedes
      <4>2. CASE continue[s.item].ts = 0 /\ continueTomb[s.item] # 0
        <5>1. reg[s.item] = [kind |-> "deleted", ts |-> continueTomb[s.item]]
          BY <1>1, <4>2 DEF AsRegister
        <5> QED BY <1>1, <1>2, <2>2, <5>1 DEF ContinueRegister!Supersedes
      <4>3. CASE continue[s.item].ts = 0 /\ continueTomb[s.item] = 0
        <5>1. reg[s.item] = [kind |-> "unknown", ts |-> 0]
          BY <1>1, <4>3 DEF AsRegister
        <5> QED BY <5>1 DEF ContinueRegister!Supersedes
      <4> QED BY <4>1, <4>2, <4>3
    <3>3. new = [j \in Item |-> IF j = s.item THEN v
                                ELSE IF j \in Gone(s) THEN ContinueRegister!Deleted(v.ts)
                                ELSE reg[j]]
      <4>1. new = [j \in Item |-> new[j]] /\ v.ts = ts
        BY DEF AsRegister
      <4> HIDE DEF new, reg, ts, v
      <4> QED BY <2>3, <2>4, <3>1, <4>1
    <3>4. \A j \in Gone(s) :
            /\ ContinueRegister!IsLive(reg[j])
            /\ ContinueRegister!Supersedes(ContinueRegister!Deleted(v.ts), reg[j])
      BY <2>3
    <3>5. ContinueRegister!Write(s.item, v, Gone(s))
      BY <3>2, <3>3, <3>4 DEF ContinueRegister!Write, ContinueRegister!IsLive
    <3>6. Gone(s) \in SUBSET Item
      BY <2>3
    <3> QED BY <1>1, <3>5, <3>6 DEF ContinueRegister!Next
  <2> QED BY <1>1, <1>2, <2>5, <2>6
<1> QED BY <1>3, <1>4

(* A removal of a title or a show erases what it is newer than             *)
(* (delete_user_continue_watching_for_series).                             *)
LEMMA DeleteContinueRefines ==
    ASSUME TypeOK, ContinueInv, NEW s \in sent, NEW at \in s.madeAt..now,
           DeleteContinue(s, at)
    PROVE  [ContinueRegister!Next]_(AsRegister(continue, continueTomb))
<1> DEFINE ts == Normalized(s, at)
           reg == AsRegister(continue, continueTomb)
           new == AsRegister(continue', continueTomb')
<1>1. PICK S :
        \A j \in Item :
          /\ continueTomb'[j] = IF j \in S /\ continueTomb[j] < ts
                                THEN ts ELSE continueTomb[j]
          /\ continue'[j] = IF j \in S /\ continue[j].ts # 0 /\ continue[j].ts <= ts
                            THEN NoEntry ELSE continue[j]
  BY RemovedEntries
<1> DEFINE erased == {i \in Item : i \in S /\ continue[i].ts <= ts /\ continueTomb[i] <= ts}
<1>2. ts \in Nat \ {0} /\ ts \in Version
  BY NormalizedType, VersionBound DEF TypeOK
<1>3. ASSUME NEW i \in Item
      PROVE  /\ continue[i].ts \in Nat /\ continueTomb[i] \in Nat
             /\ continue[i].ts # 0 => continue[i].ts > continueTomb[i]
  BY DEF TypeOK, EntryRow, ContinueInv, NewerThan, Present
<1> HIDE DEF ts
<1>5. ASSUME NEW i \in erased
      PROVE  /\ new[i] = ContinueRegister!Deleted(ts)
             /\ ContinueRegister!Supersedes(ContinueRegister!Deleted(ts), reg[i])
  <2>1. i \in Item /\ i \in S /\ continue[i].ts <= ts /\ continueTomb[i] <= ts
    OBVIOUS
  <2>2. continue'[i].ts = 0 /\ continueTomb'[i] = ts
    BY <1>1, <1>2, <1>3, <2>1 DEF NoEntry
  <2>3. new[i] = ContinueRegister!Deleted(ts)
    BY <1>2, <2>1, <2>2 DEF AsRegister, ContinueRegister!Deleted
  <2>4. reg[i].kind = "unknown" \/ reg[i].ts <= ts
    BY <2>1 DEF AsRegister
  <2>5. reg[i].ts \in Nat
    BY <1>3, <2>1 DEF AsRegister
  <2> QED
    BY <1>2, <2>3, <2>4, <2>5 DEF ContinueRegister!Supersedes, ContinueRegister!Deleted
<1>6. ASSUME NEW i \in Item, i \notin erased PROVE new[i] = reg[i]
  <2>1. CASE continue'[i] = continue[i] /\ continueTomb'[i] = continueTomb[i]
    BY <2>1 DEF AsRegister
  <2>2. CASE i \in S /\ continue[i].ts > ts
    <3>1. continue'[i] = continue[i] /\ continue[i].ts # 0
      BY <1>1, <1>2, <1>3, <2>2
    <3> QED BY <3>1 DEF AsRegister
  <2>3. CASE i \in S /\ continueTomb[i] > ts
    <3>1. continueTomb'[i] = continueTomb[i] /\ continue'[i] = continue[i]
      BY <1>1, <1>2, <1>3, <2>3
    <3> QED BY <3>1 DEF AsRegister
  <2> QED BY <1>1, <1>2, <1>3, <1>6, <2>1, <2>2, <2>3
<1>7. new = [j \in Item |-> IF j \in erased THEN ContinueRegister!Deleted(ts) ELSE reg[j]]
  BY <1>5, <1>6 DEF AsRegister
<1>8. ContinueRegister!Erase(erased, ts)
  BY <1>5, <1>7 DEF ContinueRegister!Erase
<1>9. erased \in SUBSET Item
  OBVIOUS
<1> QED BY <1>2, <1>8, <1>9 DEF ContinueRegister!Next

(* The sweep forgets deletions, never entries (sweep_users_db). *)
LEMMA SweepContinueRefines ==
    ASSUME SweepTombstones
    PROVE  [ContinueRegister!Next]_(AsRegister(continue, continueTomb))
<1> DEFINE reg == AsRegister(continue, continueTomb)
           new == AsRegister(continue', continueTomb')
           gone == {i \in Expired(continueTomb) : continue[i].ts = 0}
<1>1. ASSUME NEW i \in Item
      PROVE  /\ continue'[i] = continue[i]
             /\ continueTomb'[i] = IF i \in Expired(continueTomb) THEN 0 ELSE continueTomb[i]
  BY DEF SweepTombstones
<1>2. ASSUME NEW i \in gone PROVE new[i] = ContinueRegister!Unknown /\ reg[i].kind # "live"
  BY <1>1 DEF AsRegister, Expired, ContinueRegister!Unknown
<1>3. ASSUME NEW i \in Item, i \notin gone PROVE new[i] = reg[i]
  BY <1>1, <1>3 DEF AsRegister
<1>4. new = [j \in Item |-> IF j \in gone THEN ContinueRegister!Unknown ELSE reg[j]]
  BY <1>2, <1>3 DEF AsRegister
<1>5. ContinueRegister!Forget(gone)
  BY <1>2, <1>4 DEF ContinueRegister!Forget, ContinueRegister!IsLive
<1>6. gone \in SUBSET Item
  BY DEF Expired
<1> QED BY <1>5, <1>6 DEF ContinueRegister!Next

(* The continue-watching table implements the register too, although one   *)
(* save deletes rows of other items by name, not by version.               *)
THEOREM ContinueRefinesRegister == Spec => ContinueImplementsRegister
<1>1. Init => ContinueRegister!Init
  BY DEF Init, ContinueRegister!Init, AsRegister, ContinueRegister!Unknown, NoEntry
<1>2. TypeOK /\ RequestInv /\ ContinueInv /\ [Next]_vars
        => [ContinueRegister!Next]_(AsRegister(continue, continueTomb))
  <2> SUFFICES ASSUME TypeOK, RequestInv, ContinueInv, [Next]_vars
               PROVE  [ContinueRegister!Next]_(AsRegister(continue, continueTomb))
    OBVIOUS
  <2>1. ASSUME UNCHANGED <<continue, continueTomb>>
        PROVE  [ContinueRegister!Next]_(AsRegister(continue, continueTomb))
    BY <2>1
  <2>2. ASSUME NEW s \in sent, NEW at \in s.madeAt..now, PutContinue(s, at)
        PROVE  [ContinueRegister!Next]_(AsRegister(continue, continueTomb))
    BY <2>2, PutContinueRefines
  <2>3. ASSUME NEW s \in sent, NEW at \in s.madeAt..now, DeleteContinue(s, at)
        PROVE  [ContinueRegister!Next]_(AsRegister(continue, continueTomb))
    BY <2>3, DeleteContinueRefines
  <2>4. CASE SweepTombstones
    BY <2>4, SweepContinueRefines
  <2> QED
    BY <2>1, <2>2, <2>3, <2>4
    DEF Next, vars, SaveCheckpoint, RemoveTitle, Make, PutProgress, DeleteProgress,
        FinishDelete, Restart, Tick
<1> QED
  BY <1>1, <1>2, TypeCorrect, RequestsCorrect, ContinueCorrect, PTL
  DEF Spec, ContinueRegister!Spec, ContinueImplementsRegister

-----------------------------------------------------------------------------
(* One entry per show. *)

(* The names of an entry are its item, series and TMDB id: what its        *)
(* identity or its series names are the same                               *)
(* (getCanonicalContinueWatchingMetadata).                                 *)
LEMMA NamesOfEntry ==
    ASSUME NEW i \in Item, NEW series \in Series \cup {None}, NEW tmdb, Consistent(i, series, tmdb)
    PROVE  Names(i, series, tmdb) = {i, series, tmdb} \ {None}
<1>1. SeriesInIdentity[i] \in {None, series} /\ TmdbInIdentity[i] \in {None, tmdb}
  BY DEF Consistent
<1>2. DerivedTmdb(series) \in {None, tmdb} /\ DerivedTmdb(None) = None
  BY DEF Consistent, DerivedTmdb
<1>3. DerivedTmdb(SeriesInIdentity[i]) \in {None, tmdb}
  BY <1>1, <1>2
<1> QED BY <1>1, <1>2, <1>3 DEF Names

(* Entries of two titles share a name if they share a series or a TMDB id, *)
(* since identities, series ids and TMDB ids are different things.         *)
LEMMA SharedNames ==
    ASSUME NEW i \in Item, NEW j \in Item, i # j,
           NEW si \in Series \cup {None}, NEW sj \in Series \cup {None},
           NEW ti \in Tmdb \cup {None}, NEW tj \in Tmdb \cup {None},
           Consistent(i, si, ti), Consistent(j, sj, tj)
    PROVE  Names(i, si, ti) \cap Names(j, sj, tj) # {}
             <=> (si = sj /\ si # None) \/ (ti = tj /\ ti # None)
<1>1. /\ Names(i, si, ti) = {i, si, ti} \ {None}
      /\ Names(j, sj, tj) = {j, sj, tj} \ {None}
  BY NamesOfEntry
<1>2. ASSUME NEW n \in Names(i, si, ti), n \in Names(j, sj, tj)
      PROVE  (si = sj /\ si # None) \/ (ti = tj /\ ti # None)
  BY <1>1, <1>2, SeriesAssumption
<1>3. ASSUME (si = sj /\ si # None) \/ (ti = tj /\ ti # None)
      PROVE  Names(i, si, ti) \cap Names(j, sj, tj) # {}
  BY <1>1, <1>3
<1> QED BY <1>2, <1>3

(* The rows that share a name with a save are those it takes with it       *)
(* (tombstone_continue_series and the two DELETEs).                        *)
LEMMA SiblingsAreTaken ==
    ASSUME TypeOK, ContinueInv, NEW s \in Snapshot, Consistent(s.item, s.series, s.tmdb),
           NEW j \in Present(continue), j # s.item,
           RowNames(j) \cap Names(s.item, s.series, s.tmdb) # {}
    PROVE  j \in Gone(s)
<1>1. /\ j \in Item /\ Consistent(j, continue[j].series, continue[j].tmdb)
      /\ continue[j].series \in Series \cup {None} /\ continue[j].tmdb \in Tmdb \cup {None}
      /\ s.item \in Item /\ s.series \in Series \cup {None} /\ s.tmdb \in Tmdb \cup {None}
  BY DEF TypeOK, EntryRow, Snapshot, ContinueInv, Present
<1>2. \/ continue[j].series = s.series /\ s.series # None
      \/ continue[j].tmdb = s.tmdb /\ s.tmdb # None
  <2> DEFINE sj == continue[j].series
             tj == continue[j].tmdb
  <2>1. Names(j, sj, tj) \cap Names(s.item, s.series, s.tmdb) # {}
    BY DEF RowNames
  <2>3. /\ j \in Item /\ sj \in Series \cup {None} /\ tj \in Tmdb \cup {None}
        /\ Consistent(j, sj, tj)
    BY <1>1
  <2> HIDE DEF sj, tj
  <2>2. (sj = s.series /\ sj # None) \/ (tj = s.tmdb /\ tj # None)
    <3> DEFINE i == s.item
               si == s.series
               ti == s.tmdb
    <3>1. /\ i \in Item /\ si \in Series \cup {None} /\ ti \in Tmdb \cup {None}
          /\ Consistent(i, si, ti) /\ j # i
          /\ Names(j, sj, tj) \cap Names(i, si, ti) # {}
      BY <1>1, <2>1
    <3> HIDE DEF i, si, ti
    <3>2. (sj = si /\ sj # None) \/ (tj = ti /\ tj # None)
      BY <2>3, <3>1, SharedNames
    <3> QED BY <3>2 DEF si, ti
  <2> QED BY <2>2 DEF sj, tj
<1>3. CASE continue[j].series = s.series /\ s.series # None
  BY <1>3 DEF Gone, SeriesSiblings, EntriesOf
<1>4. CASE continue[j].tmdb = s.tmdb /\ s.tmdb # None
  BY <1>4 DEF Gone, EntriesOfTmdb
<1> QED BY <1>2, <1>3, <1>4

(* A step that keeps rows as they are or takes them keeps one per show. *)
LEMMA FewerEntries ==
    ASSUME OneEntryPerShow,
           \A j \in Item : continue'[j] = continue[j] \/ continue'[j] = NoEntry
    PROVE  OneEntryPerShow'
<1>1. ASSUME NEW j \in Present(continue)'
      PROVE  j \in Present(continue) /\ continue'[j] = continue[j]
  BY <1>1 DEF Present, NoEntry
<1> QED BY <1>1 DEF OneEntryPerShow, RowNames

(* So does a save (upsert_user_continue_watching). *)
LEMMA PutKeepsOneEntry ==
    ASSUME TypeOK, RequestInv, ContinueInv, OneEntryPerShow,
           NEW s \in sent, NEW at \in s.madeAt..now, PutContinue(s, at)
    PROVE  OneEntryPerShow'
<1> DEFINE ts == Normalized(s, at)
           row == [ts |-> ts, pos |-> s.pos, series |-> s.series, tmdb |-> s.tmdb]
<1>1. CASE NewerInShow(s, ts) \/ Blocked(continueTomb, s.item, ts)
  BY <1>1, FewerEntries DEF PutContinue
<1>2. CASE ~NewerInShow(s, ts) /\ ~Blocked(continueTomb, s.item, ts)
  <2>1. s \in Snapshot /\ Consistent(s.item, s.series, s.tmdb) /\ ts \in Nat
    BY NormalizedType DEF TypeOK, RequestInv, PutContinue
  <2>2. /\ \A j \in Item : /\ j \in Gone(s) => continue'[j] = NoEntry
                           /\ j \notin Gone(s) /\ j # s.item => continue'[j] = continue[j]
        /\ ts >= continue[s.item].ts => continue'[s.item] = row
        /\ ts < continue[s.item].ts => continue'[s.item] = continue[s.item]
    BY <1>2, AcceptedSave
  <2>3. s.item \in Item /\ continue[s.item].ts \in Nat
    BY <2>1 DEF Snapshot, TypeOK, EntryRow
  <2>4. CASE continue'[s.item] = continue[s.item]
    BY <2>2, <2>4, FewerEntries
  <2>5. CASE continue'[s.item] = row
    <3>1. RowNames(s.item)' = Names(s.item, s.series, s.tmdb)
      BY <2>5 DEF RowNames
    <3>2. ASSUME NEW j \in Present(continue)', j # s.item
          PROVE  /\ j \in Present(continue) /\ j \notin Gone(s)
                 /\ RowNames(j)' = RowNames(j)
      BY <2>2, <3>2 DEF Present, NoEntry, RowNames
    <3>3. ASSUME NEW j \in Present(continue)', j # s.item
          PROVE  RowNames(j)' \cap RowNames(s.item)' = {}
      BY <2>1, <3>1, <3>2, <3>3, SiblingsAreTaken
    <3>4. ASSUME NEW i \in Present(continue)', NEW j \in Present(continue)', i # j
          PROVE  RowNames(i)' \cap RowNames(j)' = {}
      <4>1. CASE i = s.item
        BY <3>3, <3>4, <4>1
      <4>2. CASE j = s.item
        BY <3>3, <3>4, <4>2
      <4>3. CASE i # s.item /\ j # s.item
        BY <3>2, <3>4, <4>3 DEF OneEntryPerShow
      <4> QED BY <4>1, <4>2, <4>3
    <3> QED BY <3>4 DEF OneEntryPerShow
  <2> QED BY <2>1, <2>2, <2>3, <2>4, <2>5
<1> QED BY <1>1, <1>2

(* One entry per show, for any shows, clients and orders of requests: what *)
(* a save does not take shares neither series nor TMDB id with it.         *)
THEOREM EntriesCorrect == Spec => []OneEntryPerShow
<1>1. Init => OneEntryPerShow
  BY DEF Init, OneEntryPerShow, Present, NoEntry
<1>2. TypeOK /\ RequestInv /\ ContinueInv /\ OneEntryPerShow /\ [Next]_vars => OneEntryPerShow'
  <2> SUFFICES ASSUME TypeOK, RequestInv, ContinueInv, OneEntryPerShow, [Next]_vars
               PROVE  OneEntryPerShow'
    OBVIOUS
  <2>1. ASSUME continue' = continue PROVE OneEntryPerShow'
    BY <2>1, FewerEntries
  <2>2. ASSUME NEW s \in sent, NEW at \in s.madeAt..now, PutContinue(s, at)
        PROVE  OneEntryPerShow'
    BY <2>2, PutKeepsOneEntry
  <2>3. ASSUME NEW s \in sent, NEW at \in s.madeAt..now, DeleteContinue(s, at)
        PROVE  OneEntryPerShow'
    BY <2>3, FewerEntries DEF DeleteContinue, RemoveRows
  <2> QED
    BY <2>1, <2>2, <2>3
    DEF Next, vars, SaveCheckpoint, RemoveTitle, Make, PutProgress, DeleteProgress,
        FinishDelete, Restart, SweepTombstones, Tick
<1> QED BY <1>1, <1>2, TypeCorrect, RequestsCorrect, ContinueCorrect, PTL DEF Spec

-----------------------------------------------------------------------------
(* What was sent and what was processed. *)

(* Requests are what devices save and remove, and only they are processed. *)
EntryOf(s) == [device |-> s.device, item |-> s.item, series |-> s.series, tmdb |-> s.tmdb]
RemovalOf(s) == [device |-> s.device, item |-> s.item, series |-> s.series]

SentInv ==
    /\ \A s \in sent : IF s.op = "put" THEN EntryOf(s) \in Entry ELSE RemovalOf(s) \in Removal
    /\ \A m \in appliedP \cup appliedC \cup unfinished : m.snap \in sent

(* The server processes nothing that no client sent (routes.rs).           *)
THEOREM SentCorrect == Spec => []SentInv
<1>1. Init => SentInv
  BY DEF Init, SentInv
<1>2. SentInv /\ [Next]_vars => SentInv'
  <2> SUFFICES ASSUME SentInv, [Next]_vars PROVE SentInv'
    OBVIOUS
  <2>1. ASSUME NEW e \in Entry, NEW p \in Pos, NEW k \in Skew[e.device],
               SaveCheckpoint(e, p, k)
        PROVE  SentInv'
    <3>1. PICK s : /\ sent' = sent \cup {s} /\ s.op = "put"
                   /\ s.device = e.device /\ s.item = e.item
                   /\ s.series = e.series /\ s.tmdb = e.tmdb
      <4> DEFINE new == [op |-> "put", device |-> e.device, item |-> e.item,
                         series |-> e.series, tmdb |-> e.tmdb, pos |-> p,
                         ts |-> VersionOf(e.device, k), nr |-> made, madeAt |-> now]
      <4>1. sent' = sent \cup {new}
        BY <2>1 DEF SaveCheckpoint, Make
      <4> WITNESS new
      <4> QED BY <4>1
    <3>2. EntryOf(s) = e
      BY <3>1, EntryAssumption DEF EntryOf
    <3>3. UNCHANGED <<appliedP, appliedC, unfinished>>
      BY <2>1 DEF SaveCheckpoint, Make
    <3> QED BY <3>1, <3>2, <3>3 DEF SentInv
  <2>2. ASSUME NEW r \in Removal, NEW k \in Skew[r.device], RemoveTitle(r, k) PROVE SentInv'
    <3>1. PICK s : /\ sent' = sent \cup {s} /\ s.op = "delete"
                   /\ s.device = r.device /\ s.item = r.item /\ s.series = r.series
      <4> DEFINE new == [op |-> "delete", device |-> r.device, item |-> r.item,
                         series |-> r.series, tmdb |-> None, pos |-> None,
                         ts |-> VersionOf(r.device, k), nr |-> made, madeAt |-> now]
      <4>1. sent' = sent \cup {new}
        BY <2>2 DEF RemoveTitle, Make
      <4> WITNESS new
      <4> QED BY <4>1
    <3>2. RemovalOf(s) = r
      BY <3>1, EntryAssumption DEF RemovalOf
    <3>3. UNCHANGED <<appliedP, appliedC, unfinished>>
      BY <2>2 DEF RemoveTitle, Make
    <3> QED BY <3>1, <3>2, <3>3 DEF SentInv
  <2>3. ASSUME NEW s \in sent, NEW at \in s.madeAt..now,
               \/ PutProgress(s, at) \/ DeleteProgress(s, at)
               \/ PutContinue(s, at) \/ DeleteContinue(s, at)
        PROVE  SentInv'
    BY <2>3 DEF PutProgress, DeleteProgress, RemoveProgress, PutContinue, DeleteContinue, SentInv
  <2>4. ASSUME NEW m \in unfinished, FinishDelete(m) PROVE SentInv'
    BY <2>4 DEF FinishDelete, RemoveProgress, SentInv
  <2>5. CASE Restart \/ SweepTombstones \/ Tick \/ UNCHANGED vars
    BY <2>5 DEF Restart, SweepTombstones, Tick, vars, SentInv
  <2> QED BY <2>1, <2>2, <2>3, <2>4, <2>5 DEF Next
<1> QED BY <1>1, <1>2, PTL DEF Spec

-----------------------------------------------------------------------------
(* Continue watching of titles that are not shows. *)

(* As for watch progress: a deletion is in effect. *)
Shown(i, t) ==
    \/ continueTomb[i] >= t
    \/ continue[i].ts > t
    \/ continue[i].ts = 0 /\ now >= t + Retention

(* Row, tombstone and history of one title; its entry has no names.        *)
FilmInv(i) ==
    /\ i \in Present(continue) => continue[i].series = None /\ continue[i].tmdb = None
    /\ continue[i].ts # 0 =>
         \E m \in Puts(appliedC, i) : m.ts = continue[i].ts /\ m.snap.pos = continue[i].pos
    /\ continueTomb[i] # 0 => \E d \in ItemDeletes(appliedC, i) : d.ts = continueTomb[i]
    /\ \A m \in Puts(appliedC, i) :
         m.ts <= continue[i].ts \/ \E d \in ItemDeletes(appliedC, i) : d.ts >= m.ts
    /\ \A d \in ItemDeletes(appliedC, i) : Shown(i, d.ts)

FilmsInv == \A i \in Item : Standalone(i) => FilmInv(i)

(* Removals and saves of a show leave other titles alone                   *)
(* (tombstone_continue_series).                                            *)
LEMMA FilmsAreNotSiblings ==
    ASSUME FilmsInv, NEW i \in Item, Standalone(i)
    PROVE  /\ \A series \in Series : \A t : DerivedTmdb(series) = t => i \notin EntriesOf(series, t)
           /\ \A t : i \notin EntriesOfTmdb(t)
<1>1. SeriesInIdentity[i] = None /\ TmdbInIdentity[i] = None
  BY DEF Standalone
<1>2. i \in Present(continue) => continue[i].series = None /\ continue[i].tmdb = None
  BY DEF FilmsInv, FilmInv
<1> QED BY <1>1, <1>2, SeriesAssumption DEF EntriesOf, EntriesOfTmdb, IdentityOf

(* A step that has nothing to do with the title. *)
LEMMA OthersKeepFilm ==
    ASSUME TypeOK, FilmsInv, NEW i \in Item, Standalone(i), now' = now,
           continue'[i] = continue[i], continueTomb'[i] = continueTomb[i],
           Puts(appliedC', i) = Puts(appliedC, i),
           ItemDeletes(appliedC', i) = ItemDeletes(appliedC, i)
    PROVE  FilmInv(i)'
<1>1. FilmInv(i)
  BY DEF FilmsInv
<1>2. Puts(appliedC, i)' = Puts(appliedC, i) /\ ItemDeletes(appliedC, i)' = ItemDeletes(appliedC, i)
  BY DEF Puts, ItemDeletes
<1>3. \A t : Shown(i, t) => Shown(i, t)'
  BY DEF Shown
<1> QED BY <1>1, <1>2, <1>3 DEF FilmInv, Present

(* A save that is processed: it is younger than every deletion already     *)
(* forgotten, and no other title stands in its way                         *)
(* (upsert_user_continue_watching).                                        *)
LEMMA PutKeepsFilm ==
    ASSUME TypeOK, RequestInv, ContinueInv, SentInv, FilmsInv,
           NEW s \in sent, NEW at \in s.madeAt..now, PutContinue(s, at),
           NEW i \in Item, Standalone(i)
    PROVE  FilmInv(i)'
<1> DEFINE ts == Normalized(s, at)
           m == [snap |-> s, ts |-> ts]
           row == [ts |-> ts, pos |-> s.pos, series |-> s.series, tmdb |-> s.tmdb]
<1>1. /\ s \in Snapshot /\ s.item \in Item /\ s.op = "put"
      /\ s.series \in Series \cup {None} /\ s.tmdb \in Tmdb \cup {None}
      /\ ts \in Nat \ {0}
  <2>1. s \in Snapshot /\ ts \in Nat \ {0} /\ s.op = "put"
    BY NormalizedType DEF TypeOK, PutContinue
  <2> QED BY <2>1 DEF Snapshot
<1>2. now < ts + Retention /\ now \in Nat /\ Retention \in Nat
  BY ArrivesBeforeForgotten, TimeAssumption DEF PutContinue, TypeOK
<1>3. appliedC' = appliedC \cup {m} /\ now' = now
  BY DEF PutContinue
<1>4. ItemDeletes(appliedC', i) = ItemDeletes(appliedC, i)
  BY <1>1, <1>3 DEF ItemDeletes
<1>5. i \notin Gone(s)
  BY <1>1, FilmsAreNotSiblings DEF Gone, SeriesSiblings
<1>6. /\ continue[i].ts \in Nat /\ continueTomb[i] \in Nat
      /\ continue[i].ts # 0 => continue[i].ts > continueTomb[i]
      /\ \A d \in appliedC : d.ts \in Nat
      /\ ItemDeletes(appliedC, i) \subseteq appliedC /\ Puts(appliedC, i) \subseteq appliedC
  BY DEF TypeOK, EntryRow, Mutation, ContinueInv, NewerThan, Present, ItemDeletes, Puts
<1>7. FilmInv(i)
  BY DEF FilmsInv
<1>8. CASE i # s.item
  <2>1. Puts(appliedC', i) = Puts(appliedC, i)
    BY <1>3, <1>8 DEF Puts
  <2>2. continue'[i] = continue[i] /\ continueTomb'[i] = continueTomb[i]
    <3>1. CASE NewerInShow(s, ts) \/ Blocked(continueTomb, s.item, ts)
      BY <3>1 DEF PutContinue
    <3>2. CASE ~NewerInShow(s, ts) /\ ~Blocked(continueTomb, s.item, ts)
      BY <1>5, <1>8, <3>2, AcceptedSave
    <3> QED BY <3>1, <3>2
  <2> QED BY <1>3, <1>4, <2>1, <2>2, OthersKeepFilm
<1>9. CASE i = s.item
  <2>1. s.series = None /\ s.tmdb = None
    <3>1. EntryOf(s) \in Entry /\ EntryOf(s).item = i
      BY <1>1, <1>9 DEF SentInv, EntryOf
    <3>2. EntryOf(s).series = None /\ EntryOf(s).tmdb = None
      BY <3>1 DEF Standalone
    <3> QED BY <3>2 DEF EntryOf
  <2>2. ~NewerInShow(s, ts)
    BY <2>1 DEF NewerInShow, CanonicalTmdb, DerivedTmdb
  <2>3. Puts(appliedC', i) = Puts(appliedC, i) \cup {m}
    BY <1>1, <1>3, <1>9 DEF Puts
  <2>4. Puts(appliedC, i)' = Puts(appliedC, i) \cup {m} /\ ItemDeletes(appliedC, i)' = ItemDeletes(appliedC, i)
    BY <1>4, <2>3 DEF Puts, ItemDeletes
  <2>5. CASE Blocked(continueTomb, s.item, ts)
    <3>1. continue' = continue /\ continueTomb' = continueTomb
      BY <2>5 DEF PutContinue
    <3>2. \A t : Shown(i, t) => Shown(i, t)'
      BY <1>3, <3>1 DEF Shown
    <3>3. \E d \in ItemDeletes(appliedC, i) : d.ts >= ts
      BY <1>1, <1>6, <1>7, <1>9, <2>5 DEF FilmInv, Blocked
    <3>4. (i \in Present(continue)' => continue'[i].series = None /\ continue'[i].tmdb = None)
      BY <1>7, <3>1 DEF FilmInv, Present
    <3> QED BY <1>7, <2>4, <3>1, <3>2, <3>3, <3>4 DEF FilmInv
  <2>6. CASE ~Blocked(continueTomb, s.item, ts)
    <3>1. /\ continueTomb'[i] = 0
          /\ ts >= continue[i].ts => continue'[i] = row
          /\ ts < continue[i].ts => continue'[i] = continue[i]
      BY <1>9, <2>2, <2>6, AcceptedSave
    <3>2. continueTomb[i] < ts
      BY <1>1, <1>6, <1>9, <2>6 DEF Blocked
    <3> HIDE DEF ts
    <3>3. /\ continue'[i] = row \/ (continue'[i] = continue[i] /\ ts < continue[i].ts)
          /\ continue'[i].ts >= ts /\ continue'[i].ts >= continue[i].ts
          /\ continue'[i].ts \in Nat
      BY <1>1, <1>6, <3>1
    <3>4. ASSUME NEW d \in ItemDeletes(appliedC, i) PROVE continue'[i].ts > d.ts
      <4>1. Shown(i, d.ts) /\ d.ts \in Nat
        BY <1>6, <1>7 DEF FilmInv
      <4>2. CASE continueTomb[i] >= d.ts
        BY <1>1, <1>6, <3>2, <3>3, <4>1, <4>2
      <4>3. CASE continue[i].ts > d.ts
        BY <1>6, <3>3, <4>1, <4>3
      <4>4. CASE continue[i].ts = 0 /\ now >= d.ts + Retention
        BY <1>1, <1>2, <3>3, <4>1, <4>4
      <4> QED BY <4>1, <4>2, <4>3, <4>4 DEF Shown
    <3>5. \A d \in ItemDeletes(appliedC, i) : Shown(i, d.ts)'
      BY <1>4, <3>4 DEF Shown
    <3>6. \E p \in Puts(appliedC, i)' : p.ts = continue'[i].ts /\ p.snap.pos = continue'[i].pos
      <4>1. CASE continue'[i] = row
        <5>1. m \in Puts(appliedC, i)'
          BY <2>4
        <5>2. m.ts = continue'[i].ts /\ m.snap.pos = continue'[i].pos
          BY <4>1
        <5> QED BY <5>1, <5>2
      <4>2. CASE continue'[i] = continue[i] /\ ts < continue[i].ts
        BY <1>1, <1>7, <2>4, <4>2 DEF FilmInv
      <4> QED BY <3>3, <4>1, <4>2
    <3>7. \A p \in Puts(appliedC, i)' :
            p.ts <= continue'[i].ts \/ \E d \in ItemDeletes(appliedC, i) : d.ts >= p.ts
      <4>1. ASSUME NEW p \in Puts(appliedC, i), p.ts <= continue[i].ts
            PROVE  p.ts <= continue'[i].ts
        BY <1>6, <3>3, <4>1
      <4> QED BY <1>1, <1>7, <2>4, <3>3, <4>1 DEF FilmInv
    <3>8. continue'[i].series = None /\ continue'[i].tmdb = None
      <4>1. CASE continue'[i] = row
        BY <2>1, <4>1
      <4>2. CASE continue'[i] = continue[i] /\ ts < continue[i].ts
        BY <1>1, <1>7, <4>2 DEF FilmInv, Present
      <4> QED BY <3>3, <4>1, <4>2
    <3> QED BY <2>4, <3>1, <3>5, <3>6, <3>7, <3>8 DEF FilmInv
  <2> QED BY <2>5, <2>6
<1> QED BY <1>8, <1>9

(* A removal that is processed is in effect for its title, and those of    *)
(* shows leave the title alone (delete_item, tombstone_continue_series).   *)
LEMMA DeleteKeepsFilm ==
    ASSUME TypeOK, ContinueInv, FilmsInv,
           NEW s \in sent, NEW at \in s.madeAt..now, DeleteContinue(s, at),
           NEW i \in Item, Standalone(i)
    PROVE  FilmInv(i)'
<1> DEFINE ts == Normalized(s, at)
           m == [snap |-> s, ts |-> ts]
<1>1. s \in Snapshot /\ s.op = "delete" /\ ts \in Nat \ {0}
  BY NormalizedType DEF TypeOK, DeleteContinue
<1>2. appliedC' = appliedC \cup {m} /\ now' = now /\ now \in Nat /\ Retention \in Nat
  BY TimeAssumption DEF DeleteContinue, TypeOK
<1>3. Puts(appliedC', i) = Puts(appliedC, i) /\ Puts(appliedC, i)' = Puts(appliedC, i)
  BY <1>1, <1>2 DEF Puts
<1>4. /\ continue[i].ts \in Nat /\ continueTomb[i] \in Nat
      /\ continue[i].ts # 0 => continue[i].ts > continueTomb[i]
      /\ \A d \in appliedC : d.ts \in Nat
      /\ ItemDeletes(appliedC, i) \subseteq appliedC /\ Puts(appliedC, i) \subseteq appliedC
  BY DEF TypeOK, EntryRow, Mutation, ContinueInv, NewerThan, Present, ItemDeletes, Puts
<1>5. FilmInv(i)
  BY DEF FilmsInv
<1>6. CASE RemovedSeries(s) = None /\ s.item = i
  <2>1. ItemDeletes(appliedC, i)' = ItemDeletes(appliedC, i) \cup {m}
    BY <1>1, <1>2, <1>6 DEF ItemDeletes
  <2>2. /\ continueTomb'[i] = IF continueTomb[i] < ts THEN ts ELSE continueTomb[i]
        /\ continue'[i] = IF continue[i].ts # 0 /\ continue[i].ts <= ts
                          THEN NoEntry ELSE continue[i]
    BY <1>6, RemovedEntries
  <2> HIDE DEF ts
  <2>3. NoEntry.ts = 0
    BY DEF NoEntry
  <2>4. /\ continue'[i].ts \in {0, continue[i].ts}
        /\ continue'[i].ts # 0 => continue'[i] = continue[i]
        /\ continue'[i].ts = continue[i].ts \/ (continue[i].ts <= ts /\ continueTomb'[i] >= ts)
        /\ continueTomb'[i] >= continueTomb[i] /\ continueTomb'[i] >= ts
    BY <1>1, <1>4, <2>2, <2>3
  <2>5. continueTomb'[i] # 0 =>
          \E d \in ItemDeletes(appliedC, i) \cup {m} : d.ts = continueTomb'[i]
    <3>1. CASE continueTomb'[i] = ts
      <4>1. m \in ItemDeletes(appliedC, i) \cup {m} /\ m.ts = continueTomb'[i]
        BY <3>1
      <4> QED BY <4>1
    <3>2. CASE continueTomb'[i] = continueTomb[i]
      BY <1>5, <3>2 DEF FilmInv
    <3> QED BY <2>2, <3>1, <3>2
  <2>6. ASSUME NEW d \in ItemDeletes(appliedC, i) \cup {m} PROVE Shown(i, d.ts)'
    <3>1. CASE d = m
      BY <2>4, <3>1 DEF Shown
    <3>2. CASE d \in ItemDeletes(appliedC, i)
      <4>1. Shown(i, d.ts) /\ d.ts \in Nat
        BY <1>4, <1>5, <3>2 DEF FilmInv
      <4> QED BY <1>1, <1>2, <1>4, <2>2, <2>3, <4>1 DEF Shown
    <3> QED BY <3>1, <3>2
  <2>7. ASSUME NEW p \in Puts(appliedC, i)
        PROVE  p.ts <= continue'[i].ts \/ \E d \in ItemDeletes(appliedC, i) \cup {m} : d.ts >= p.ts
    <3>1. CASE \E d \in ItemDeletes(appliedC, i) : d.ts >= p.ts
      BY <3>1
    <3>2. CASE p.ts <= continue[i].ts /\ continue'[i].ts = continue[i].ts
      BY <3>2
    <3>3. CASE p.ts <= continue[i].ts /\ continue[i].ts <= ts
      <4>1. m.ts >= p.ts
        BY <1>1, <1>4, <3>3
      <4> QED BY <4>1
    <3> QED BY <1>5, <2>4, <3>1, <3>2, <3>3 DEF FilmInv
  <2>8. continue'[i].ts # 0 =>
          /\ \E p \in Puts(appliedC, i) : p.ts = continue'[i].ts /\ p.snap.pos = continue'[i].pos
          /\ continue'[i].series = None /\ continue'[i].tmdb = None
    BY <1>5, <2>4 DEF FilmInv, Present
  <2> QED BY <1>3, <2>1, <2>5, <2>6, <2>7, <2>8 DEF FilmInv, Present
<1>7. CASE ~(RemovedSeries(s) = None /\ s.item = i)
  <2>1. ItemDeletes(appliedC', i) = ItemDeletes(appliedC, i)
    BY <1>2, <1>7 DEF ItemDeletes
  <2>2. continue'[i] = continue[i] /\ continueTomb'[i] = continueTomb[i]
    <3>1. CASE RemovedSeries(s) = None
      BY <1>7, <3>1, RemovedEntries
    <3>2. CASE RemovedSeries(s) # None
      <4>1. i \notin EntriesOf(RemovedSeries(s), DerivedTmdb(RemovedSeries(s)))
        BY <1>1, <3>2, RemovedSeriesType, FilmsAreNotSiblings
      <4> QED BY <3>2, <4>1, RemovedEntries
    <3> QED BY <3>1, <3>2
  <2> QED BY <1>2, <1>3, <2>1, <2>2, OthersKeepFilm
<1> QED BY <1>6, <1>7

(* The sweep and time take no deletion out of effect (sweep_users_db). *)
LEMMA SweepKeepsFilm ==
    ASSUME TypeOK, ContinueInv, FilmsInv, SweepTombstones \/ Tick,
           NEW i \in Item, Standalone(i)
    PROVE  FilmInv(i)'
<1>1. now \in Nat /\ now' \in Nat /\ now' >= now /\ Retention \in Nat
  BY TimeAssumption DEF TypeOK, SweepTombstones, Tick
<1>2. /\ continue[i].ts \in Nat /\ continueTomb[i] \in Nat
      /\ continue[i].ts # 0 => continue[i].ts > continueTomb[i]
      /\ \A d \in appliedC : d.ts \in Nat
      /\ ItemDeletes(appliedC, i) \subseteq appliedC
  BY DEF TypeOK, EntryRow, Mutation, ContinueInv, NewerThan, Present, ItemDeletes
<1>3. /\ continue'[i] = continue[i]
      /\ \/ continueTomb'[i] = continueTomb[i]
         \/ (continueTomb'[i] = 0 /\ continueTomb[i] <= now - Retention)
  BY DEF SweepTombstones, Tick, Expired
<1>4. Puts(appliedC, i)' = Puts(appliedC, i) /\ ItemDeletes(appliedC, i)' = ItemDeletes(appliedC, i)
  BY DEF SweepTombstones, Tick, Puts, ItemDeletes
<1>5. FilmInv(i)
  BY DEF FilmsInv
<1>6. ASSUME NEW d \in ItemDeletes(appliedC, i) PROVE Shown(i, d.ts)'
  <2>1. Shown(i, d.ts) /\ d.ts \in Nat
    BY <1>2, <1>5 DEF FilmInv
  <2> QED BY <1>1, <1>2, <1>3, <2>1 DEF Shown
<1> QED BY <1>3, <1>4, <1>5, <1>6 DEF FilmInv, Present

(* The history of each title that is no show explains its entry. *)
THEOREM FilmsCorrect == Spec => []FilmsInv
<1>1. Init => FilmsInv
  BY DEF Init, FilmsInv, FilmInv, Present, NoEntry, Puts, ItemDeletes
<1>2. TypeOK /\ RequestInv /\ ContinueInv /\ SentInv /\ FilmsInv /\ [Next]_vars => FilmsInv'
  <2> SUFFICES ASSUME TypeOK, RequestInv, ContinueInv, SentInv, FilmsInv, [Next]_vars,
                      NEW i \in Item, Standalone(i)
               PROVE  FilmInv(i)'
    BY DEF FilmsInv, Standalone
  <2>1. ASSUME UNCHANGED <<now, continue, continueTomb, appliedC>> PROVE FilmInv(i)'
    BY <2>1, OthersKeepFilm
  <2>2. ASSUME NEW s \in sent, NEW at \in s.madeAt..now, PutContinue(s, at) PROVE FilmInv(i)'
    BY <2>2, PutKeepsFilm
  <2>3. ASSUME NEW s \in sent, NEW at \in s.madeAt..now, DeleteContinue(s, at)
        PROVE  FilmInv(i)'
    BY <2>3, DeleteKeepsFilm
  <2>4. CASE SweepTombstones \/ Tick
    BY <2>4, SweepKeepsFilm
  <2> QED
    BY <2>1, <2>2, <2>3, <2>4
    DEF Next, vars, SaveCheckpoint, RemoveTitle, Make, PutProgress, DeleteProgress,
        FinishDelete, Restart
<1> QED BY <1>1, <1>2, TypeCorrect, RequestsCorrect, ContinueCorrect, SentCorrect, PTL DEF Spec

(* What the invariant says of an entry (user_continue_watching).           *)
LEMMA FilmHoldsNewest ==
    ASSUME TypeOK, ContinueInv, FilmsInv, NEW i \in Item, Standalone(i)
    PROVE  HoldsNewest(continue[i], i, appliedC)
<1>1. /\ continue[i].ts \in Nat /\ continueTomb[i] \in Nat
      /\ continue[i].ts # 0 => continue[i].ts > continueTomb[i]
      /\ \A d \in appliedC : d.ts \in Nat \ {0}
      /\ ItemDeletes(appliedC, i) \subseteq appliedC /\ Puts(appliedC, i) \subseteq appliedC
  BY DEF TypeOK, EntryRow, Mutation, ContinueInv, NewerThan, Present, ItemDeletes, Puts
<1>2. FilmInv(i)
  BY DEF FilmsInv
<1>3. ASSUME continue[i].ts # 0, NEW d \in ItemDeletes(appliedC, i) PROVE d.ts < continue[i].ts
  <2>1. Shown(i, d.ts) /\ d.ts \in Nat
    BY <1>1, <1>2 DEF FilmInv
  <2> QED BY <1>1, <1>3, <2>1 DEF Shown
<1>4. ASSUME continue[i].ts # 0, NEW p \in Puts(appliedC, i) PROVE p.ts <= continue[i].ts
  <2>1. ASSUME NEW d \in ItemDeletes(appliedC, i), d.ts >= p.ts PROVE p.ts <= continue[i].ts
    <3>1. d.ts < continue[i].ts /\ d.ts \in Nat /\ p.ts \in Nat
      BY <1>1, <1>3, <1>4
    <3> QED BY <1>1, <2>1, <3>1
  <2> QED BY <1>2, <2>1 DEF FilmInv
<1>5. ASSUME continue[i].ts = 0, NEW p \in Puts(appliedC, i)
      PROVE  \E d \in ItemDeletes(appliedC, i) \cup SeriesDeletes(appliedC, i) : d.ts >= p.ts
  <2>1. p.ts \in Nat \ {0}
    BY <1>1
  <2>2. ~(p.ts <= continue[i].ts)
    BY <1>5, <2>1
  <2> QED BY <1>2, <2>2 DEF FilmInv
<1> QED BY <1>2, <1>3, <1>4, <1>5 DEF HoldsNewest, FilmInv

(* Two rows that the same history explains have the same version: of a     *)
(* title that is no show, no series-wide deletion says anything.           *)
LEMMA NewestIsUnique ==
    ASSUME NEW i \in Item, Standalone(i), NEW applied \in SUBSET Mutation, NEW q, NEW r,
           q.ts \in Nat, r.ts \in Nat,
           HoldsNewest(q, i, applied), HoldsNewest(r, i, applied)
    PROVE  q.ts = r.ts
<1>1. SeriesDeletes(applied, i) = {}
  BY DEF SeriesDeletes, IdentityOf, Standalone
<1>2. /\ Puts(applied, i) \subseteq applied /\ ItemDeletes(applied, i) \subseteq applied
      /\ \A m \in applied : m.ts \in Nat
  BY DEF Puts, ItemDeletes, Mutation
<1>3. CASE q.ts # 0 /\ r.ts # 0
  <2>1. PICK p \in Puts(applied, i) : p.ts = q.ts
    BY <1>3 DEF HoldsNewest
  <2>2. PICK o \in Puts(applied, i) : o.ts = r.ts
    BY <1>3 DEF HoldsNewest
  <2>3. p.ts <= r.ts /\ o.ts <= q.ts
    BY <1>3 DEF HoldsNewest
  <2> QED BY <2>1, <2>2, <2>3
<1>4. ASSUME NEW x, NEW y, x.ts \in Nat, x.ts # 0, y.ts = 0,
             HoldsNewest(x, i, applied), HoldsNewest(y, i, applied)
      PROVE  FALSE
  <2>1. PICK p \in Puts(applied, i) : p.ts = x.ts
    BY <1>4 DEF HoldsNewest
  <2>2. PICK d \in ItemDeletes(applied, i) : d.ts >= p.ts
    BY <1>1, <1>4 DEF HoldsNewest
  <2>3. d.ts < x.ts /\ d.ts \in Nat
    BY <1>2, <1>4 DEF HoldsNewest
  <2> QED BY <1>4, <2>1, <2>2, <2>3
<1> QED BY <1>3, <1>4

(* Both tables hold the newest mutation of a title that is no show, and    *)
(* they agree about it once both have processed the same mutations, though *)
(* each gets its requests on its own (user_watch_progress_handler,         *)
(* user_continue_watching_handler).                                        *)
THEOREM TablesCorrect == Spec => []TablesAgree
<1>1. TypeOK /\ ContinueInv /\ FilmsInv /\ ProgressHoldsNewest => TablesAgree
  <2> SUFFICES ASSUME TypeOK, ContinueInv, FilmsInv, ProgressHoldsNewest,
                      NEW i \in Item, Standalone(i)
               PROVE  /\ HoldsNewest(continue[i], i, appliedC)
                      /\ appliedP = appliedC => progress[i].ts = continue[i].ts
    BY DEF TablesAgree
  <2>1. HoldsNewest(continue[i], i, appliedC)
    BY FilmHoldsNewest
  <2>2. HoldsNewest(progress[i], i, appliedP)
    BY DEF ProgressHoldsNewest
  <2>3. progress[i].ts \in Nat /\ continue[i].ts \in Nat /\ appliedC \in SUBSET Mutation
    BY DEF TypeOK, Row, EntryRow
  <2> QED BY <2>1, <2>2, <2>3, NewestIsUnique
<1> QED BY <1>1, TypeCorrect, ContinueCorrect, FilmsCorrect, ProgressCorrect, PTL

-----------------------------------------------------------------------------
(* A removed title stays removed. *)

(* Clocks run ahead of the server by less than its cap on the future, by   *)
(* at least an instant for each mutation: else the cap gives mutations of  *)
(* one device the same version, or versions in the wrong order             *)
(* (MCUserStateFarAhead.cfg).                                              *)
ClocksNear ==
    /\ MaxMade <= FutureCap
    /\ \A d \in Device : \A k \in Skew[d] : k + MaxMade <= FutureCap

(* Removals are about titles, not shows, from devices that send versions:  *)
(* a series-wide one leaves a tombstone only where it finds a row          *)
(* (MCUserStateSeriesDelete.cfg).                                          *)
TitlesRemoved ==
    \A r \in Removal :
        r.device \in Versioned /\ r.series = None /\ SeriesInIdentity[r.item] = None

(* Versions of one device grow with its mutations and stay within the cap, *)
(* so the server keeps them as they are.                                   *)
VersionsInv ==
    /\ made <= MaxMade
    /\ \A d \in Versioned : clock[d] = 0 \/ clock[d] <= now + FutureCap - MaxMade + made
    /\ \A s \in sent :
         /\ s.nr < made
         /\ s.device \in Versioned =>
              s.ts # 0 /\ s.ts <= clock[s.device] /\ s.ts <= s.madeAt + FutureCap
    /\ \A s, t \in sent :
         s.device = t.device /\ s.device \in Versioned /\ s.nr < t.nr => s.ts < t.ts
    /\ \A m \in appliedP \cup unfinished : m.snap.device \in Versioned => m.ts = m.snap.ts

(* A device's next version is later than those before it                   *)
(* (nextUserStateMutationTimestamp).                                       *)
LEMMA MakeKeepsVersions ==
    ASSUME ClocksNear, TypeOK, VersionsInv, NEW d \in Device, NEW k \in Skew[d],
           NEW s \in Snapshot, s.device = d, s.ts = VersionOf(d, k), s.nr = made, s.madeAt = now,
           Make(d, k, s)
    PROVE  VersionsInv'
<1>1. /\ now \in Nat \ {0} /\ made \in Nat /\ MaxMade \in Nat /\ FutureCap \in Nat
      /\ clock \in [Device -> Nat] /\ Versioned \subseteq Device /\ k \in Int
      /\ k + MaxMade <= FutureCap /\ MaxMade <= FutureCap /\ made < MaxMade
      /\ \A t \in sent : t.ts \in Nat /\ t.nr \in Nat /\ t.device \in Device
  <2>1. \A t \in sent : t \in Snapshot
    BY DEF TypeOK
  <2> QED BY <2>1, TimeAssumption DEF TypeOK, ClocksNear, Make, Snapshot
<1>2. /\ made' = made + 1 /\ now' = now /\ sent' = sent \cup {s}
      /\ UNCHANGED <<appliedP, unfinished>>
      /\ clock' = [clock EXCEPT ![d] = IF d \in Versioned THEN VersionOf(d, k) ELSE @]
  BY DEF Make
<1>3. ASSUME d \in Versioned
      PROVE  /\ s.ts \in Nat /\ s.ts > clock[d]
             /\ s.ts <= now + FutureCap - MaxMade + (made + 1)
  <2>1. clock[d] \in Nat /\ (clock[d] = 0 \/ clock[d] <= now + FutureCap - MaxMade + made)
    BY <1>1, <1>3 DEF VersionsInv
  <2>2. s.ts = IF now + k >= clock[d] + 1 THEN now + k ELSE clock[d] + 1
    BY <1>3 DEF VersionOf, NextVersion
  <2> HIDE DEF VersionsInv
  <2> QED BY <1>1, <2>1, <2>2
<1>4. \A e \in Versioned : clock'[e] = IF e = d THEN s.ts ELSE clock[e]
  BY <1>1, <1>2
<1>5. \A e \in Versioned : clock'[e] = 0 \/ clock'[e] <= now' + FutureCap - MaxMade + made'
  <2> SUFFICES ASSUME NEW e \in Versioned
               PROVE  clock'[e] = 0 \/ clock'[e] <= now' + FutureCap - MaxMade + made'
    OBVIOUS
  <2>1. CASE e = d
    BY <1>2, <1>3, <1>4, <2>1
  <2>2. CASE e # d
    <3>1. clock[e] = 0 \/ clock[e] <= now + FutureCap - MaxMade + made
      BY DEF VersionsInv
    <3>2. clock[e] \in Nat /\ clock'[e] = clock[e]
      BY <1>1, <1>4, <2>2
    <3> QED BY <1>1, <1>2, <3>1, <3>2
  <2> QED BY <2>1, <2>2
<1>6. ASSUME NEW t \in sent'
      PROVE  /\ t.nr < made'
             /\ t.device \in Versioned =>
                  t.ts # 0 /\ t.ts <= clock'[t.device] /\ t.ts <= t.madeAt + FutureCap
  <2>1. CASE t = s
    BY <1>1, <1>2, <1>3, <1>4, <2>1
  <2>2. CASE t \in sent
    <3>1. /\ t.nr < made
          /\ t.device \in Versioned =>
                  t.ts # 0 /\ t.ts <= clock[t.device] /\ t.ts <= t.madeAt + FutureCap
      BY <2>2 DEF VersionsInv
    <3>2. t.device \in Versioned => clock[t.device] \in Nat /\ clock'[t.device] >= clock[t.device]
      BY <1>1, <1>3, <1>4
    <3>3. t.device \in Versioned => clock'[t.device] \in Nat
      BY <1>1, <1>3, <1>4
    <3> QED BY <1>1, <1>2, <2>2, <3>1, <3>2, <3>3
  <2> QED BY <1>2, <2>1, <2>2
<1>7. ASSUME NEW t \in sent', NEW u \in sent', t.device = u.device, t.device \in Versioned,
             t.nr < u.nr
      PROVE  t.ts < u.ts
  <2>1. CASE t \in sent /\ u \in sent
    BY <1>7, <2>1 DEF VersionsInv
  <2>2. CASE t \in sent /\ u = s
    <3>1. t.ts <= clock[d] /\ t.ts \in Nat /\ clock[d] \in Nat
      BY <1>1, <1>7, <2>2 DEF VersionsInv
    <3> QED BY <1>3, <1>7, <2>2, <3>1
  <2>3. CASE t = s
    <3>1. u.nr <= made /\ u.nr \in Nat
      BY <1>1, <1>2 DEF VersionsInv
    <3> QED BY <1>1, <1>7, <2>3, <3>1
  <2> QED BY <1>2, <2>1, <2>2, <2>3
<1>8. made' <= MaxMade
  BY <1>1, <1>2
<1>9. \A m \in (appliedP \cup unfinished)' : m.snap.device \in Versioned => m.ts = m.snap.ts
  BY <1>2 DEF VersionsInv
<1> QED BY <1>5, <1>6, <1>7, <1>8, <1>9 DEF VersionsInv

(* The server keeps such a version (normalize_user_updated_at).            *)
LEMMA VersionKept ==
    ASSUME TypeOK, VersionsInv, NEW s \in sent, NEW at \in s.madeAt..now, s.device \in Versioned
    PROVE  Normalized(s, at) = s.ts
<1>1. s \in Snapshot
  BY DEF TypeOK
<1>2. s.ts \in Nat /\ s.madeAt \in Nat /\ FutureCap \in Nat /\ now \in Nat
  BY <1>1, TimeAssumption DEF Snapshot, TypeOK
<1>3. s.ts # 0 /\ s.ts <= s.madeAt + FutureCap /\ at \in Int /\ s.madeAt <= at
  BY <1>2 DEF VersionsInv
<1> QED BY <1>2, <1>3 DEF Normalized, Min2

(* With clocks near the server's, versions are in order and stay so.       *)
LEMMA VersionsCorrect ==
    ASSUME ClocksNear
    PROVE  Spec => []VersionsInv
<1>1. Init => VersionsInv
  BY TimeAssumption DEF Init, VersionsInv
<1>2. TypeOK /\ VersionsInv /\ [Next]_vars => VersionsInv'
  <2> SUFFICES ASSUME TypeOK, VersionsInv, [Next]_vars PROVE VersionsInv'
    OBVIOUS
  <2>1. ASSUME NEW e \in Entry, NEW p \in Pos, NEW k \in Skew[e.device],
               SaveCheckpoint(e, p, k)
        PROVE  VersionsInv'
    <3> DEFINE s == [op |-> "put", device |-> e.device, item |-> e.item,
                     series |-> e.series, tmdb |-> e.tmdb, pos |-> p,
                     ts |-> VersionOf(e.device, k), nr |-> made, madeAt |-> now]
    <3>1. /\ e.device \in Device /\ e.item \in Item
          /\ e.series \in Series \cup {None} /\ e.tmdb \in Tmdb \cup {None}
      BY EntryAssumption
    <3>2. s \in Snapshot
      BY <3>1, VersionType DEF Snapshot, TypeOK
    <3>3. Make(e.device, k, s)
      BY <2>1 DEF SaveCheckpoint
    <3>4. s.device = e.device /\ s.ts = VersionOf(e.device, k) /\ s.nr = made /\ s.madeAt = now
      OBVIOUS
    <3> HIDE DEF s
    <3> QED BY <3>1, <3>2, <3>3, <3>4, MakeKeepsVersions
  <2>2. ASSUME NEW r \in Removal, NEW k \in Skew[r.device], RemoveTitle(r, k)
        PROVE  VersionsInv'
    <3> DEFINE s == [op |-> "delete", device |-> r.device, item |-> r.item,
                     series |-> r.series, tmdb |-> None, pos |-> None,
                     ts |-> VersionOf(r.device, k), nr |-> made, madeAt |-> now]
    <3>1. r.device \in Device /\ r.item \in Item /\ r.series \in Series \cup {None}
      BY EntryAssumption
    <3>2. s \in Snapshot
      BY <3>1, VersionType DEF Snapshot, TypeOK
    <3>3. Make(r.device, k, s)
      BY <2>2 DEF RemoveTitle
    <3>4. s.device = r.device /\ s.ts = VersionOf(r.device, k) /\ s.nr = made /\ s.madeAt = now
      OBVIOUS
    <3> HIDE DEF s
    <3> QED BY <3>1, <3>2, <3>3, <3>4, MakeKeepsVersions
  <2>3. ASSUME NEW s \in sent, NEW at \in s.madeAt..now, PutProgress(s, at)
        PROVE  VersionsInv'
    BY <2>3, VersionKept DEF PutProgress, VersionsInv
  <2>4. ASSUME NEW s \in sent, NEW at \in s.madeAt..now, DeleteProgress(s, at)
        PROVE  VersionsInv'
    BY <2>4, VersionKept DEF DeleteProgress, RemoveProgress, VersionsInv
  <2>5. ASSUME NEW s \in sent, NEW at \in s.madeAt..now, PutContinue(s, at)
        PROVE  VersionsInv'
    BY <2>5 DEF PutContinue, VersionsInv
  <2>6. ASSUME NEW s \in sent, NEW at \in s.madeAt..now, DeleteContinue(s, at)
        PROVE  VersionsInv'
    BY <2>6, VersionKept DEF DeleteContinue, VersionsInv
  <2>7. ASSUME NEW m \in unfinished, FinishDelete(m) PROVE VersionsInv'
    BY <2>7 DEF FinishDelete, RemoveProgress, VersionsInv
  <2>8. CASE Restart \/ SweepTombstones \/ UNCHANGED vars
    BY <2>8 DEF Restart, SweepTombstones, vars, VersionsInv
  <2>9. CASE Tick
    <3>1. \A d \in Versioned : clock[d] \in Nat
      BY TimeAssumption DEF TypeOK
    <3>2. now \in Nat /\ now' = now + 1 /\ made \in Nat /\ FutureCap \in Nat /\ MaxMade \in Nat
      BY <2>9, TimeAssumption DEF Tick, TypeOK
    <3>3. \A d \in Versioned : clock[d] = 0 \/ clock[d] <= now' + FutureCap - MaxMade + made
      BY <3>1, <3>2 DEF VersionsInv
    <3> QED BY <2>9, <3>3 DEF Tick, VersionsInv
  <2> QED BY <2>1, <2>2, <2>3, <2>4, <2>5, <2>6, <2>7, <2>8, <2>9 DEF Next
<1> QED BY <1>1, <1>2, TypeCorrect, PTL DEF Spec

(* "An offline request older than that tombstone is acknowledged but       *)
(* cannot resurrect the row": a title removed after every checkpoint of    *)
(* its only device stays removed, whatever comes late or again, and after  *)
(* tombstones are swept, if clocks are near and titles are removed one by  *)
(* one (delete_user_watch_progress).                                       *)
THEOREM RemovalsStay ==
    ASSUME ClocksNear, TitlesRemoved
    PROVE  Spec => []DeletesStay
<1>1. TypeOK /\ SentInv /\ VersionsInv /\ ProgressHoldsNewest => DeletesStay
  <2> SUFFICES ASSUME TypeOK, SentInv, VersionsInv, ProgressHoldsNewest,
                      NEW m \in appliedP, m.snap.op = "delete", NEW i \in Covers(m.snap),
                      \A s \in sent : s.op = "put" /\ s.item = i =>
                                         s.device = m.snap.device /\ s.nr < m.snap.nr,
                      progress[i].ts # 0
               PROVE  FALSE
    BY DEF DeletesStay
  <2>1. /\ m.snap \in sent /\ m.snap \in Snapshot /\ m.snap.device \in Versioned
        /\ RemovedSeries(m.snap) = None
    <3>1. m.snap \in sent /\ m.snap \in Snapshot
      BY DEF SentInv, TypeOK
    <3>2. RemovalOf(m.snap) \in Removal
      BY <3>1 DEF SentInv
    <3>3. /\ RemovalOf(m.snap).device = m.snap.device /\ RemovalOf(m.snap).item = m.snap.item
          /\ RemovalOf(m.snap).series = m.snap.series
      BY DEF RemovalOf
    <3> QED BY <3>1, <3>2, <3>3 DEF TitlesRemoved, RemovedSeries
  <2>2. i = m.snap.item /\ i \in Item /\ m \in ItemDeletes(appliedP, i)
    BY <2>1 DEF Covers, ItemDeletes, Snapshot
  <2>3. m.ts < progress[i].ts
    BY <2>2 DEF ProgressHoldsNewest, HoldsNewest
  <2>4. PICK p \in Puts(appliedP, i) : p.ts = progress[i].ts
    BY <2>2 DEF ProgressHoldsNewest, HoldsNewest
  <2>5. /\ p \in appliedP /\ p.snap \in sent
        /\ p.snap.device = m.snap.device /\ p.snap.nr < m.snap.nr
    BY <2>4 DEF Puts, SentInv
  <2>6. p.ts = p.snap.ts /\ m.ts = m.snap.ts /\ p.snap.ts < m.snap.ts
    BY <2>1, <2>5 DEF VersionsInv
  <2>7. p.ts \in Nat /\ m.ts \in Nat
    BY <2>5 DEF TypeOK, Mutation
  <2> QED BY <2>3, <2>4, <2>6, <2>7
<1> QED BY <1>1, TypeCorrect, SentCorrect, VersionsCorrect, ProgressCorrect, PTL

-----------------------------------------------------------------------------
(* Acknowledged saves are kept. *)

NamesOf(e) == Names(e.item, e.series, e.tmdb)

(* Names of a show are names of one show: entries that share a name with   *)
(* the same entry share one with each other.                               *)
OneShowPerName ==
    \A e, f, g \in Entry :
        NamesOf(e) \cap NamesOf(f) # {} /\ NamesOf(f) \cap NamesOf(g) # {}
            => NamesOf(e) \cap NamesOf(g) # {}

(* Nobody saves a show without its series id beside other titles that have *)
(* none: the query of the show would take them for its rows                *)
(* (MCUserStatePhone.cfg).                                                 *)
SeriesNamed ==
    \A e, f \in Entry :
        e.series = None /\ e.tmdb # None /\ f.series = None => NamesOf(e) \cap NamesOf(f) # {}

(* A save of these names at ts is in the table, or something was removed.  *)
Kept(names, ts) ==
    \/ \E i \in Present(continue) : continue[i].ts >= ts /\ RowNames(i) \cap names # {}
    \/ \E r \in appliedC :
         r.snap.op = "delete" /\ r.ts >= ts /\ RemovedNames(r.snap) \cap names # {}

(* A row is an entry that was saved. *)
RowsInv ==
    \A i \in Present(continue) : \E e \in Entry :
        e.item = i /\ e.series = continue[i].series /\ e.tmdb = continue[i].tmdb

(* Mutation m is about all that is saved of item i. *)
About(m, i) ==
    \A e \in Entry : e.item = i =>
        IF m.snap.op = "put" THEN NamesOf(m.snap) \cap NamesOf(e) # {}
        ELSE RemovedNames(m.snap) \cap NamesOf(e) # {}

(* A tombstone is left by a mutation about the show of its item. *)
TombsInv ==
    \A i \in Item : continueTomb[i] # 0 =>
        \E m \in appliedC : m.ts >= continueTomb[i] /\ About(m, i)

SavesInv == RowsInv /\ TombsInv /\ SavesAreKept

(* SavesAreKept in these words. *)
LEMMA KeptSaves ==
    SavesAreKept <=> \A m \in appliedC : m.snap.op = "put" => Kept(NamesOf(m.snap), m.ts)
BY DEF SavesAreKept, Kept, NamesOf

(* An item is one of the names of what is saved of it. *)
LEMMA ItemIsName ==
    ASSUME NEW i \in Item, NEW series, NEW tmdb
    PROVE  i \in Names(i, series, tmdb)
BY SeriesAssumption DEF Names

(* The names of a row are those of an entry, which is saved of its item.   *)
LEMMA RowEntry ==
    ASSUME RowsInv, NEW i \in Present(continue)
    PROVE  \E e \in Entry : e.item = i /\ NamesOf(e) = RowNames(i)
BY DEF RowsInv, RowNames, NamesOf

(* A removal that is about an entry is about what shares a name with it.   *)
LEMMA RemovedSpreads ==
    ASSUME OneShowPerName, NEW r, NEW e \in Entry, NEW f \in Entry,
           RemovedNames(r) \cap NamesOf(e) # {}, NamesOf(e) \cap NamesOf(f) # {}
    PROVE  RemovedNames(r) \cap NamesOf(f) # {}
<1> DEFINE own == Names(r.item, r.series, None)
           related == {n \in {NamesOf(g) : g \in Entry} : n \cap own # {}}
<1>1. RemovedNames(r) = own \cup UNION related
  BY DEF RemovedNames, NamesOf
<1> HIDE DEF own
<1>2. CASE NamesOf(e) \cap own # {}
  <2>1. NamesOf(e) \in related
    BY <1>2
  <2> QED BY <1>1, <2>1
<1>3. CASE NamesOf(e) \cap own = {}
  <2>1. PICK n \in related : n \cap NamesOf(e) # {}
    BY <1>1, <1>3
  <2>2. PICK g \in Entry : n = NamesOf(g)
    BY <2>1
  <2>3. NamesOf(g) \cap NamesOf(f) # {}
    BY <2>1, <2>2 DEF OneShowPerName
  <2> QED BY <1>1, <2>1, <2>2, <2>3
<1> QED BY <1>2, <1>3

(* The rows a removal takes are among what it is about                     *)
(* (delete_item, tombstone_continue_series).                               *)
LEMMA RemovedRows ==
    ASSUME TypeOK, ContinueInv, NEW s \in Snapshot, NEW j \in Present(continue),
           IF RemovedSeries(s) = None THEN j = s.item
           ELSE j \in EntriesOf(RemovedSeries(s), DerivedTmdb(RemovedSeries(s)))
    PROVE  RemovedNames(s) \cap RowNames(j) # {}
<1> DEFINE own == Names(s.item, s.series, None)
           series == RemovedSeries(s)
           row == continue[j]
<1>1. j \in Item
  BY DEF Present
<1>2. own \subseteq RemovedNames(s)
  BY DEF RemovedNames
<1>3. CASE series = None
  <2>1. j \in own /\ j \in RowNames(j)
    BY <1>1, <1>3, ItemIsName DEF RowNames
  <2> QED BY <1>2, <2>1
<1>4. CASE series # None
  <2>1. series \in own /\ (DerivedTmdb(series) # None => DerivedTmdb(series) \in own)
    BY <1>4 DEF RemovedSeries, Names
  <2>2. {row.series, SeriesInIdentity[j], row.tmdb, TmdbInIdentity[j]} \ {None} \subseteq RowNames(j)
    BY DEF RowNames, Names
  <2>3. \/ row.series = series \/ SeriesInIdentity[j] = series
        \/ (DerivedTmdb(series) # None /\ DerivedTmdb(series) \in {row.tmdb, TmdbInIdentity[j]})
    BY <1>4 DEF EntriesOf, IdentityOf
  <2>4. series \in RowNames(j) \/ (DerivedTmdb(series) # None /\ DerivedTmdb(series) \in RowNames(j))
    BY <1>4, <2>2, <2>3
  <2> QED BY <1>2, <2>1, <2>4
<1> QED BY <1>3, <1>4

(* The newer row that refuses a save is one of its show                    *)
(* (continue_entry_is_newer), if shows are saved with their series.        *)
LEMMA NewerIsSibling ==
    ASSUME SeriesNamed, TypeOK, ContinueInv, RowsInv, NEW s \in Snapshot, EntryOf(s) \in Entry,
           Consistent(s.item, s.series, s.tmdb), NEW ts \in Nat, NewerInShow(s, ts)
    PROVE  \E j \in Present(continue) : continue[j].ts > ts /\ RowNames(j) \cap NamesOf(s) # {}
<1>1. CanonicalTmdb(s) = s.tmdb
  BY DEF CanonicalTmdb, Consistent
<1>2. PICK j \in EntriesOf(s.series, s.tmdb) : continue[j].ts > ts
  BY <1>1 DEF NewerInShow
<1>3. j \in Present(continue) /\ (s.series # None \/ s.tmdb # None)
  BY <1>1 DEF NewerInShow, EntriesOf
<1> DEFINE row == continue[j]
<1>4. {row.series, SeriesInIdentity[j], row.tmdb, TmdbInIdentity[j]} \ {None} \subseteq RowNames(j)
  BY DEF RowNames, Names
<1>5. {s.series, s.tmdb} \ {None} \subseteq NamesOf(s)
  BY DEF NamesOf, Names
<1>6. CASE s.series # None /\ (row.series = s.series \/ SeriesInIdentity[j] = s.series)
  <2>1. s.series \in RowNames(j) \cap NamesOf(s)
    BY <1>4, <1>5, <1>6
  <2> QED BY <1>2, <1>3, <2>1
<1>7. CASE s.tmdb # None /\ (row.tmdb = s.tmdb \/ TmdbInIdentity[j] = s.tmdb)
  <2>1. s.tmdb \in RowNames(j) \cap NamesOf(s)
    BY <1>4, <1>5, <1>7
  <2> QED BY <1>2, <1>3, <2>1
<1>8. CASE s.series = None /\ row.series = None
  <2>1. PICK f \in Entry : f.item = j /\ f.series = row.series /\ f.tmdb = row.tmdb
    BY <1>3 DEF RowsInv
  <2>2. NamesOf(f) = RowNames(j)
    BY <2>1 DEF NamesOf, RowNames
  <2>3. EntryOf(s).series = None /\ EntryOf(s).tmdb # None /\ NamesOf(EntryOf(s)) = NamesOf(s)
    BY <1>3, <1>8 DEF EntryOf, NamesOf
  <2>4. NamesOf(s) \cap RowNames(j) # {}
    BY <1>8, <2>1, <2>2, <2>3 DEF SeriesNamed
  <2> QED BY <1>2, <1>3, <2>4
<1> QED BY <1>2, <1>6, <1>7, <1>8 DEF EntriesOf, IdentityOf

(* What a save takes with it are rows of its show.                         *)
LEMMA TakenAreSiblings ==
    ASSUME NEW s \in Snapshot, NEW j \in Gone(s)
    PROVE  j \in Present(continue) /\ RowNames(j) \cap NamesOf(s) # {}
<1> DEFINE row == continue[j]
           derived == DerivedTmdb(s.series)
<1>1. {row.series, SeriesInIdentity[j], row.tmdb, TmdbInIdentity[j]} \ {None} \subseteq RowNames(j)
  BY DEF RowNames, Names
<1>2. {s.series, s.tmdb, derived} \ {None} \subseteq NamesOf(s)
  BY DEF NamesOf, Names
<1>3. j \in Present(continue)
  BY DEF Gone, SeriesSiblings, EntriesOf, EntriesOfTmdb
<1>4. \/ (s.series # None /\ s.series \in {row.series, SeriesInIdentity[j]})
      \/ (derived # None /\ derived \in {row.tmdb, TmdbInIdentity[j]})
      \/ (s.tmdb # None /\ s.tmdb \in {row.tmdb, TmdbInIdentity[j]})
  <2>1. CASE j \in SeriesSiblings(s)
    BY <2>1 DEF SeriesSiblings, EntriesOf, IdentityOf
  <2>2. CASE j \in EntriesOfTmdb(s.tmdb)
    BY <2>2 DEF EntriesOfTmdb
  <2> QED BY <2>1, <2>2 DEF Gone
<1>5. CASE s.series # None /\ s.series \in {row.series, SeriesInIdentity[j]}
  <2>1. s.series \in RowNames(j) \cap NamesOf(s)
    BY <1>1, <1>2, <1>5
  <2> QED BY <1>3, <2>1
<1>6. CASE derived # None /\ derived \in {row.tmdb, TmdbInIdentity[j]}
  <2>1. derived \in RowNames(j) \cap NamesOf(s)
    BY <1>1, <1>2, <1>6
  <2> QED BY <1>3, <2>1
<1>7. CASE s.tmdb # None /\ s.tmdb \in {row.tmdb, TmdbInIdentity[j]}
  <2>1. s.tmdb \in RowNames(j) \cap NamesOf(s)
    BY <1>1, <1>2, <1>7
  <2> QED BY <1>3, <2>1
<1> QED BY <1>4, <1>5, <1>6, <1>7

(* A save that is refused: a newer row of the show is there, or a          *)
(* tombstone of something that was itself kept or removed.                 *)
LEMMA RefusedIsKept ==
    ASSUME OneShowPerName, SeriesNamed, TypeOK, RequestInv, ContinueInv, SentInv, SavesInv,
           NEW s \in sent, s.op = "put", NEW ts \in Nat \ {0},
           NewerInShow(s, ts) \/ Blocked(continueTomb, s.item, ts)
    PROVE  Kept(NamesOf(s), ts)
<1>1. /\ s \in Snapshot /\ s.item \in Item /\ Consistent(s.item, s.series, s.tmdb)
      /\ EntryOf(s) \in Entry /\ EntryOf(s).item = s.item /\ NamesOf(EntryOf(s)) = NamesOf(s)
  BY DEF TypeOK, Snapshot, RequestInv, SentInv, EntryOf, NamesOf
<1>2. \A i \in Item : continue[i].ts \in Nat /\ continueTomb[i] \in Nat
  BY DEF TypeOK, EntryRow
<1>3. CASE NewerInShow(s, ts)
  <2>1. PICK j \in Present(continue) : continue[j].ts > ts /\ RowNames(j) \cap NamesOf(s) # {}
    BY <1>1, <1>3, NewerIsSibling DEF SavesInv
  <2>2. continue[j].ts >= ts
    BY <1>2, <2>1 DEF Present
  <2> QED BY <2>1, <2>2 DEF Kept
<1>4. CASE Blocked(continueTomb, s.item, ts)
  <2>1. continueTomb[s.item] # 0 /\ continueTomb[s.item] >= ts
    BY <1>1, <1>2, <1>4 DEF Blocked
  <2>2. PICK m \in appliedC : m.ts >= continueTomb[s.item] /\ About(m, s.item)
    BY <1>1, <2>1 DEF SavesInv, TombsInv
  <2>3. m.ts >= ts /\ m.ts \in Nat /\ m.snap \in sent
    BY <1>1, <1>2, <2>1, <2>2 DEF TypeOK, Mutation, SentInv
  <2>4. CASE m.snap.op = "put"
    <3>1. NamesOf(m.snap) \cap NamesOf(s) # {}
      BY <1>1, <2>2, <2>4 DEF About
    <3>2. EntryOf(m.snap) \in Entry /\ NamesOf(EntryOf(m.snap)) = NamesOf(m.snap)
      BY <2>3, <2>4 DEF SentInv, EntryOf, NamesOf
    <3>3. Kept(NamesOf(m.snap), m.ts)
      BY <2>4, KeptSaves DEF SavesInv
    <3>4. CASE \E i \in Present(continue) :
                 continue[i].ts >= m.ts /\ RowNames(i) \cap NamesOf(m.snap) # {}
      <4>1. PICK i \in Present(continue) :
                 continue[i].ts >= m.ts /\ RowNames(i) \cap NamesOf(m.snap) # {}
        BY <3>4
      <4>2. PICK e \in Entry : NamesOf(e) = RowNames(i)
        BY RowEntry DEF SavesInv
      <4>3. RowNames(i) \cap NamesOf(s) # {}
        BY <1>1, <3>1, <3>2, <4>1, <4>2 DEF OneShowPerName
      <4>4. continue[i].ts >= ts
        BY <1>2, <2>3, <4>1 DEF Present
      <4> QED BY <4>3, <4>4 DEF Kept
    <3>5. CASE \E r \in appliedC : /\ r.snap.op = "delete" /\ r.ts >= m.ts
                                   /\ RemovedNames(r.snap) \cap NamesOf(m.snap) # {}
      <4>1. PICK r \in appliedC : /\ r.snap.op = "delete" /\ r.ts >= m.ts
                                  /\ RemovedNames(r.snap) \cap NamesOf(m.snap) # {}
        BY <3>5
      <4>2. RemovedNames(r.snap) \cap NamesOf(s) # {}
        BY <1>1, <3>1, <3>2, <4>1, RemovedSpreads
      <4>3. r.ts >= ts
        BY <2>3, <4>1 DEF TypeOK, Mutation
      <4> QED BY <4>1, <4>2, <4>3 DEF Kept
    <3> QED BY <3>3, <3>4, <3>5 DEF Kept
  <2>5. CASE m.snap.op # "put"
    <3>1. m.snap.op = "delete"
      BY <2>3, <2>5 DEF TypeOK, Snapshot
    <3>2. RemovedNames(m.snap) \cap NamesOf(s) # {}
      BY <1>1, <2>2, <2>5 DEF About
    <3> QED BY <2>3, <3>1, <3>2 DEF Kept
  <2> QED BY <2>4, <2>5
<1> QED BY <1>3, <1>4

(* What is kept stays so while rows stay, and so do rows and tombstones.   *)
LEMMA SameRowsKeepSaves ==
    ASSUME SavesInv, UNCHANGED continue, appliedC \subseteq appliedC',
           \A i \in Item : continueTomb'[i] \in {0, continueTomb[i]},
           \A m \in appliedC' \ appliedC : m.snap.op = "put" => Kept(NamesOf(m.snap), m.ts)
    PROVE  SavesInv'
<1>1. RowsInv'
  BY DEF SavesInv, RowsInv, Present
<1>2. TombsInv'
  <2>1. \A m, i : About(m, i)' <=> About(m, i)
    BY DEF About
  <2> QED BY <2>1 DEF SavesInv, TombsInv
<1>3. ASSUME NEW names, NEW ts, Kept(names, ts) PROVE Kept(names, ts)'
  BY <1>3 DEF Kept, Present, RowNames
<1>4. \A m \in appliedC' : m.snap.op = "put" => Kept(NamesOf(m.snap), m.ts)'
  BY <1>3, KeptSaves DEF SavesInv
<1>5. SavesAreKept'
  BY <1>4 DEF SavesAreKept, Kept, NamesOf
<1> QED BY <1>1, <1>2, <1>5 DEF SavesInv

(* A save that is accepted is in the table, and what it takes was of its   *)
(* show and is not newer (upsert_user_continue_watching).                  *)
LEMMA AcceptedKeepsSaves ==
    ASSUME OneShowPerName, TypeOK, RequestInv, ContinueInv, SentInv, SavesInv,
           NEW s \in sent, NEW at \in s.madeAt..now, PutContinue(s, at),
           ~NewerInShow(s, Normalized(s, at)),
           ~Blocked(continueTomb, s.item, Normalized(s, at))
    PROVE  SavesInv'
<1> DEFINE ts == Normalized(s, at)
           m == [snap |-> s, ts |-> ts]
           row == [ts |-> ts, pos |-> s.pos, series |-> s.series, tmdb |-> s.tmdb]
           i == s.item
<1>1. /\ s \in Snapshot /\ i \in Item /\ Consistent(i, s.series, s.tmdb) /\ ts \in Nat \ {0}
      /\ s.op = "put" /\ EntryOf(s) \in Entry /\ EntryOf(s).item = i
      /\ NamesOf(EntryOf(s)) = NamesOf(s)
      /\ EntryOf(s).series = s.series /\ EntryOf(s).tmdb = s.tmdb
  <2>1. s \in Snapshot /\ ts \in Nat \ {0} /\ s.op = "put"
    BY NormalizedType DEF TypeOK, PutContinue
  <2> QED BY <2>1 DEF Snapshot, RequestInv, SentInv, EntryOf, NamesOf
<1>2. /\ Gone(s) \subseteq UpTo(continue, ts) \ {i}
      /\ \A j \in Item :
           /\ j \in Gone(s) => continue'[j] = NoEntry /\ continueTomb'[j] = ts
           /\ j \notin Gone(s) /\ j # i =>
                continue'[j] = continue[j] /\ continueTomb'[j] = continueTomb[j]
      /\ continueTomb'[i] = 0
      /\ ts >= continue[i].ts => continue'[i] = row
      /\ ts < continue[i].ts => continue'[i] = continue[i]
  BY AcceptedSave
<1>3. appliedC' = appliedC \cup {m}
  BY DEF PutContinue
<1>4. \A j \in Item : continue[j].ts \in Nat /\ continueTomb[j] \in Nat
  BY DEF TypeOK, EntryRow
<1>5. \A p \in appliedC : p.ts \in Nat \ {0} /\ (p.snap.op = "put" =>
            EntryOf(p.snap) \in Entry /\ NamesOf(EntryOf(p.snap)) = NamesOf(p.snap))
  BY DEF TypeOK, Mutation, SentInv, EntryOf, NamesOf
<1> HIDE DEF ts, i
<1>6. /\ i \in Present(continue)' /\ continue'[i].ts >= ts /\ continue'[i].ts >= continue[i].ts
      /\ continue'[i].ts \in Nat
      /\ continue'[i] = row \/ (continue'[i] = continue[i] /\ ts < continue[i].ts)
  BY <1>1, <1>2, <1>4 DEF Present
<1>7. RowsInv'
  <2> SUFFICES ASSUME NEW j \in Present(continue)'
               PROVE  \E e \in Entry : e.item = j /\ e.series = continue'[j].series
                                                  /\ e.tmdb = continue'[j].tmdb
    BY DEF RowsInv
  <2>1. CASE j = i /\ continue'[i] = row
    BY <1>1, <2>1
  <2>2. CASE continue'[j] = continue[j]
    BY <2>2 DEF SavesInv, RowsInv, Present
  <2>3. CASE j \in Gone(s)
    BY <1>2, <2>3 DEF Present, NoEntry
  <2> QED BY <1>2, <1>6, <2>1, <2>2, <2>3 DEF Present
<1>8. PICK new : new = RowNames(i)' /\ \E e \in Entry : e.item = i /\ NamesOf(e) = new
  BY <1>6, <1>7 DEF RowsInv, RowNames, NamesOf
<1>9. PICK e \in Entry : e.item = i /\ NamesOf(e) = new
  BY <1>8
<1>10. NamesOf(s) \cap new # {}
  <2>1. i \in NamesOf(s) /\ i \in NamesOf(e)
    BY <1>1, <1>9, ItemIsName DEF NamesOf, i
  <2> QED BY <1>9, <2>1
<1>11. TombsInv'
  <2> SUFFICES ASSUME NEW j \in Item, continueTomb'[j] # 0
               PROVE  \E p \in appliedC' : p.ts >= continueTomb'[j] /\ About(p, j)
    BY DEF TombsInv, About
  <2>1. CASE continueTomb'[j] = continueTomb[j]
    BY <1>3, <2>1 DEF SavesInv, TombsInv
  <2>2. CASE j \in Gone(s)
    <3>1. j \in Present(continue) /\ RowNames(j) \cap NamesOf(s) # {}
      BY <1>1, <2>2, TakenAreSiblings
    <3>2. PICK f \in Entry : f.item = j /\ NamesOf(f) = RowNames(j)
      BY <3>1, RowEntry DEF SavesInv
    <3>3. ASSUME NEW g \in Entry, g.item = j PROVE NamesOf(s) \cap NamesOf(g) # {}
      <4>1. j \in NamesOf(f) /\ j \in NamesOf(g)
        BY <3>2, <3>3, ItemIsName DEF NamesOf
      <4>2. NamesOf(f) \cap NamesOf(g) # {}
        BY <4>1
      <4> QED BY <1>1, <3>1, <3>2, <4>2 DEF OneShowPerName
    <3>4. About(m, j)
      BY <1>1, <3>3 DEF About
    <3>5. m.ts >= continueTomb'[j]
      BY <1>1, <1>2, <2>2
    <3> QED BY <1>3, <3>4, <3>5
  <2> QED BY <1>2, <2>1, <2>2
<1>12. ASSUME NEW names, NEW t \in Nat,
              Kept(names, t),
              \E f \in Entry : NamesOf(f) = names
       PROVE  Kept(names, t)'
  <2>1. PICK f \in Entry : NamesOf(f) = names
    BY <1>12
  <2>2. CASE \E r \in appliedC : /\ r.snap.op = "delete" /\ r.ts >= t
                                 /\ RemovedNames(r.snap) \cap names # {}
    BY <1>3, <2>2 DEF Kept
  <2>3. CASE \E j \in Present(continue) : continue[j].ts >= t /\ RowNames(j) \cap names # {}
    <3>1. PICK j \in Present(continue) : continue[j].ts >= t /\ RowNames(j) \cap names # {}
      BY <2>3
    <3>2. j \in Item /\ continue[j].ts \in Nat
      BY <1>4 DEF Present
    <3>3. CASE j \notin Gone(s) /\ j # i
      <4>1. continue'[j] = continue[j]
        BY <1>2, <3>2, <3>3
      <4> QED BY <3>1, <4>1 DEF Kept, Present, RowNames
    <3>4. PICK g \in Entry : g.item = j /\ NamesOf(g) = RowNames(j)
      BY RowEntry DEF SavesInv
    <3>5. CASE j \in Gone(s) \/ j = i
      <4>1. NamesOf(s) \cap NamesOf(g) # {}
        <5>1. CASE j \in Gone(s)
          BY <1>1, <3>4, <5>1, TakenAreSiblings
        <5>2. CASE j = i
          <6>1. i \in NamesOf(s) /\ i \in NamesOf(g)
            BY <1>1, <3>4, <5>2, ItemIsName DEF NamesOf, i
          <6> QED BY <6>1
        <5> QED BY <3>5, <5>1, <5>2
      <4>2. NamesOf(g) \cap names # {}
        BY <3>1, <3>4
      <4>3. NamesOf(s) \cap names # {}
        BY <1>1, <2>1, <4>1, <4>2 DEF OneShowPerName
      <4>4. new \cap names # {}
        BY <1>1, <1>9, <1>10, <2>1, <4>3 DEF OneShowPerName
      <4>5. continue[j].ts <= ts \/ j = i
        BY <1>2, <3>5 DEF UpTo
      <4>6. continue'[i].ts >= t
        BY <1>1, <1>6, <3>1, <3>2, <4>5
      <4> QED BY <1>6, <1>8, <4>4, <4>6 DEF Kept
    <3> QED BY <3>3, <3>5
  <2> QED BY <1>12, <2>2, <2>3 DEF Kept
<1>13. Kept(NamesOf(s), ts)'
  BY <1>6, <1>8, <1>10 DEF Kept
<1>14. \A p \in appliedC' : p.snap.op = "put" => Kept(NamesOf(p.snap), p.ts)'
  <2>1. ASSUME NEW p \in appliedC, p.snap.op = "put" PROVE Kept(NamesOf(p.snap), p.ts)'
    <3>1. Kept(NamesOf(p.snap), p.ts)
      BY <2>1, KeptSaves DEF SavesInv
    <3> QED BY <1>5, <1>12, <2>1, <3>1
  <2> QED BY <1>3, <1>13, <2>1
<1>15. SavesAreKept'
  BY <1>14 DEF SavesAreKept, Kept, NamesOf
<1> QED BY <1>7, <1>11, <1>15 DEF SavesInv

(* What a removal takes was of what it is about, and is not newer          *)
(* (delete_item, tombstone_continue_series).                               *)
LEMMA DeleteKeepsSaves ==
    ASSUME OneShowPerName, TypeOK, ContinueInv, SentInv, SavesInv,
           NEW s \in sent, NEW at \in s.madeAt..now, DeleteContinue(s, at)
    PROVE  SavesInv'
<1> DEFINE ts == Normalized(s, at)
           m == [snap |-> s, ts |-> ts]
<1>1. s \in Snapshot /\ s.op = "delete" /\ ts \in Nat \ {0} /\ s.item \in Item
  <2>1. s \in Snapshot /\ s.op = "delete" /\ ts \in Nat \ {0}
    BY NormalizedType DEF TypeOK, DeleteContinue
  <2> QED BY <2>1 DEF Snapshot
<1>2. PICK S :
        /\ S = IF RemovedSeries(s) = None THEN {s.item}
               ELSE EntriesOf(RemovedSeries(s), DerivedTmdb(RemovedSeries(s))) \cap UpTo(continue, ts)
        /\ \A j \in Item :
             /\ continueTomb'[j] = IF j \in S /\ continueTomb[j] < ts THEN ts ELSE continueTomb[j]
             /\ continue'[j] = IF j \in S /\ continue[j].ts # 0 /\ continue[j].ts <= ts
                               THEN NoEntry ELSE continue[j]
  BY RemovedEntries
<1>3. appliedC' = appliedC \cup {m}
  BY DEF DeleteContinue
<1>4. \A j \in Item : continue[j].ts \in Nat /\ continueTomb[j] \in Nat
  BY DEF TypeOK, EntryRow
<1>5. \A p \in appliedC : p.ts \in Nat \ {0} /\ (p.snap.op = "put" =>
            EntryOf(p.snap) \in Entry /\ NamesOf(EntryOf(p.snap)) = NamesOf(p.snap))
  BY DEF TypeOK, Mutation, SentInv, EntryOf, NamesOf
<1>6. m \in appliedC' /\ m.snap = s /\ m.ts = ts
  BY <1>3
<1> HIDE DEF ts, m
<1>7. RowsInv'
  <2>1. ASSUME NEW j \in Present(continue)'
        PROVE  j \in Present(continue) /\ continue'[j] = continue[j]
    BY <1>2, <2>1 DEF Present, NoEntry
  <2> QED BY <2>1 DEF SavesInv, RowsInv
<1>8. ASSUME NEW j \in S, j \in Present(continue)
      PROVE  RemovedNames(s) \cap RowNames(j) # {}
  <2>1. IF RemovedSeries(s) = None THEN j = s.item
        ELSE j \in EntriesOf(RemovedSeries(s), DerivedTmdb(RemovedSeries(s)))
    BY <1>2, <1>8
  <2> QED BY <1>1, <1>8, <2>1, RemovedRows
<1>9. TombsInv'
  <2> SUFFICES ASSUME NEW j \in Item, continueTomb'[j] # 0
               PROVE  \E p \in appliedC' : p.ts >= continueTomb'[j] /\ About(p, j)
    BY DEF TombsInv, About
  <2>1. CASE continueTomb'[j] = continueTomb[j]
    BY <1>3, <2>1 DEF SavesInv, TombsInv
  <2>2. CASE j \in S /\ continueTomb'[j] = ts
    <3>1. ASSUME NEW g \in Entry, g.item = j PROVE RemovedNames(s) \cap NamesOf(g) # {}
      <4>1. CASE j \in Present(continue)
        <5>1. PICK f \in Entry : f.item = j /\ NamesOf(f) = RowNames(j)
          BY <4>1, RowEntry DEF SavesInv
        <5>2. j \in NamesOf(f) /\ j \in NamesOf(g)
          BY <3>1, <5>1, ItemIsName DEF NamesOf
        <5>3. NamesOf(f) \cap NamesOf(g) # {} /\ RemovedNames(s) \cap NamesOf(f) # {}
          BY <1>8, <2>2, <4>1, <5>1, <5>2
        <5> QED BY <5>3, RemovedSpreads
      <4>2. CASE j \notin Present(continue)
        <5>1. j = s.item
          BY <1>2, <2>2, <4>2 DEF UpTo
        <5>2. j \in RemovedNames(s)
          BY <1>1, <5>1, ItemIsName DEF RemovedNames
        <5>3. j \in NamesOf(g)
          BY <3>1, ItemIsName DEF NamesOf
        <5> QED BY <5>2, <5>3
      <4> QED BY <4>1, <4>2
    <3>2. About(m, j)
      BY <1>1, <1>6, <3>1 DEF About
    <3>3. m.ts >= continueTomb'[j]
      BY <1>1, <1>6, <2>2
    <3> QED BY <1>6, <3>2, <3>3
  <2> QED BY <1>2, <2>1, <2>2
<1>10. ASSUME NEW names, NEW t \in Nat, Kept(names, t), \E f \in Entry : NamesOf(f) = names
       PROVE  Kept(names, t)'
  <2>1. PICK f \in Entry : NamesOf(f) = names
    BY <1>10
  <2>2. CASE \E r \in appliedC : /\ r.snap.op = "delete" /\ r.ts >= t
                                 /\ RemovedNames(r.snap) \cap names # {}
    BY <1>3, <2>2 DEF Kept
  <2>3. CASE \E j \in Present(continue) : continue[j].ts >= t /\ RowNames(j) \cap names # {}
    <3>1. PICK j \in Present(continue) : continue[j].ts >= t /\ RowNames(j) \cap names # {}
      BY <2>3
    <3>2. j \in Item /\ continue[j].ts \in Nat /\ continue[j].ts # 0
      BY <1>4 DEF Present
    <3>3. CASE continue'[j] = continue[j]
      BY <3>1, <3>3 DEF Kept, Present, RowNames
    <3>4. CASE j \in S /\ continue[j].ts <= ts
      <4>1. PICK g \in Entry : g.item = j /\ NamesOf(g) = RowNames(j)
        BY RowEntry DEF SavesInv
      <4>2. RemovedNames(s) \cap NamesOf(g) # {} /\ NamesOf(g) \cap NamesOf(f) # {}
        BY <1>8, <2>1, <3>1, <3>4, <4>1
      <4>3. RemovedNames(s) \cap names # {}
        BY <2>1, <4>2, RemovedSpreads
      <4>4. m.ts >= t
        BY <1>1, <1>6, <3>1, <3>2, <3>4
      <4> QED BY <1>1, <1>6, <4>3, <4>4 DEF Kept
    <3> QED BY <1>2, <3>2, <3>3, <3>4
  <2> QED BY <1>10, <2>2, <2>3 DEF Kept
<1>11. \A p \in appliedC' : p.snap.op = "put" => Kept(NamesOf(p.snap), p.ts)'
  <2>1. ASSUME NEW p \in appliedC, p.snap.op = "put" PROVE Kept(NamesOf(p.snap), p.ts)'
    <3>1. Kept(NamesOf(p.snap), p.ts)
      BY <2>1, KeptSaves DEF SavesInv
    <3> QED BY <1>5, <1>10, <2>1, <3>1
  <2>2. m.snap.op # "put"
    BY <1>1, <1>6
  <2> QED BY <1>3, <2>1, <2>2
<1>12. SavesAreKept'
  BY <1>11 DEF SavesAreKept, Kept, NamesOf
<1> QED BY <1>7, <1>9, <1>12 DEF SavesInv

(* A checkpoint that was acknowledged is not lost: its show has an entry   *)
(* at least as new, or something of it was removed since, if names are of  *)
(* one show and shows are saved with their series                          *)
(* (upsert_user_continue_watching).                                        *)
THEOREM SavesCorrect ==
    ASSUME OneShowPerName, SeriesNamed
    PROVE  Spec => []SavesAreKept
<1>1. Init => SavesInv
  BY DEF Init, SavesInv, RowsInv, TombsInv, SavesAreKept, Present, NoEntry
<1>2. TypeOK /\ RequestInv /\ ContinueInv /\ SentInv /\ SavesInv /\ [Next]_vars => SavesInv'
  <2> SUFFICES ASSUME TypeOK, RequestInv, ContinueInv, SentInv, SavesInv, [Next]_vars
               PROVE  SavesInv'
    OBVIOUS
  <2>1. ASSUME UNCHANGED <<continue, continueTomb, appliedC>> PROVE SavesInv'
    BY <2>1, SameRowsKeepSaves
  <2>2. ASSUME NEW s \in sent, NEW at \in s.madeAt..now, PutContinue(s, at) PROVE SavesInv'
    <3> DEFINE ts == Normalized(s, at)
    <3>1. s \in Snapshot /\ ts \in Nat \ {0} /\ s.op = "put"
      BY <2>2, NormalizedType DEF TypeOK, PutContinue
    <3>2. CASE NewerInShow(s, ts) \/ Blocked(continueTomb, s.item, ts)
      <4>1. /\ UNCHANGED <<continue, continueTomb>>
            /\ appliedC' = appliedC \cup {[snap |-> s, ts |-> ts]}
        BY <2>2, <3>2 DEF PutContinue
      <4> HIDE DEF ts
      <4>2. Kept(NamesOf(s), ts)
        BY <3>1, <3>2, RefusedIsKept
      <4> QED BY <4>1, <4>2, SameRowsKeepSaves
    <3>3. CASE ~NewerInShow(s, ts) /\ ~Blocked(continueTomb, s.item, ts)
      BY <2>2, <3>3, AcceptedKeepsSaves
    <3> QED BY <3>2, <3>3
  <2>3. ASSUME NEW s \in sent, NEW at \in s.madeAt..now, DeleteContinue(s, at)
        PROVE  SavesInv'
    BY <2>3, DeleteKeepsSaves
  <2>4. CASE SweepTombstones
    BY <2>4, SameRowsKeepSaves DEF SweepTombstones
  <2> QED
    BY <2>1, <2>2, <2>3, <2>4
    DEF Next, vars, SaveCheckpoint, RemoveTitle, Make, PutProgress, DeleteProgress,
        FinishDelete, Restart, Tick
<1>3. SavesInv => SavesAreKept
  BY DEF SavesInv
<1> QED BY <1>1, <1>2, <1>3, TypeCorrect, RequestsCorrect, ContinueCorrect, SentCorrect, PTL DEF Spec
=============================================================================
