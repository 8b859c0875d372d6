# StreamArena: TLA+ models, model checks and proofs

StreamArena is a self-hosted streaming service: a Rust server (`src/`), a Solid
web client (`src-ui/`) and an Expo app (`mobile/`).  This directory holds
TLA+ modules translated from its source, the TLC configurations that check
them on small instances, and TLAPS proofs about them for every value of the
constants.  Paths below are relative to the repository root.

Run a model with `tlc -config <cfg> <module>`, a proof with `tlapm <module>.tla`.
`PROJECT.json` is the index: components, runs, mutants, the map from
definitions to source lines, hazards, findings and theorems.

## 1. Inventory

### Components with protocol state

| component | state | operations | what makes it correct |
|---|---|---|---|
| **User state** `persistence/user_state.rs`, `persistence.rs`, `routes.rs`, `routes/user_settings.rs` | tables of watch progress and continue watching in `users.sqlite`, a tombstone table for each | PUT, DELETE of an item or a whole series, canonicalization of a show, hourly sweep of tombstones, bulk sync | last write wins under any order, loss and replay of requests; deletions are not undone; one entry per show; no acknowledged save is lost |
| **Client checkpoints** `src-ui/player/checkpoint-save.js`, `src-ui/lib/replay-safe-state.js`, `continue-watching.js` | queued and unsynced snapshots, a retry timer, a high-water version in `localStorage` | enqueue, drain, retry, flush on exit, drop on a change of account | versions are monotonic; the newest snapshot stays pending until acknowledged or rejected |
| **Resolve jobs** `resolve_jobs.rs`, `routes.rs` | map of jobs, a watch channel and a cancellation token per job, a creation lock; the resolver's permits | create, spawn, complete, fail, cancel, long poll, expiry, eviction, 60 s sweep | capacity; no work nobody can ask about; one outcome; no lost wake-up |
| **Local torrents** `local_torrent.rs`, `key_lock.rs`, `cleanup_guard.rs` | per-hash locks, handles, deletion barriers, stream counters with a generation, access markers; librqbit's session | resolve, stream, release, idle pause, retire, prune, clean-up of dropped requests | exclusive per-hash work; an open stream is not paused or deleted; what is idle is paused |
| **HLS and remux** `streaming.rs`, `process.rs` | a job per key with a child process, a permit and a fallback state; on-demand renders | get or create, wait for segment, refresh, software fallback, idle prune | permits are returned; one job per key; a job in use is not pruned |
| **Uploads, gallery** `upload.rs`, `library.rs` | sessions with received bytes, a lifecycle lock, gallery jobs | start, append, finish, cancel, sweep, roll back | the file and the counter agree; a finished upload is whole; one download per title |
| **Playback sessions** `persistence.rs`, `resolver.rs` | a row per title and source with health, failures, next validation (a lease when negative) | persist, claim, refresh, invalidate, update progress | a lease is held by one validator; a late verdict does not touch a newer session |
| **Accounts** `auth.rs`, `persistence.rs`, `email.rs`, `routes/admin.rs` | users, sessions, recovery tokens | log in, log out, set password, reset, disable, delete | a session does not outlive the password or the user it was made with; a token is used once |
| **Database start-up** `persistence.rs`, `persistence/migrations.rs` | migration ledger, quarantined files, pool | migrate, quarantine, open | ledger and schema agree after a crash at any point |
| **Provider budgets, locks, backoff** `provider_budget.rs`, `key_lock.rs`, `rate_limit.rs`, `media.rs` | keyed semaphores and locks pruned by reference count; failure counters | acquire, prune, record | a key never has two live lock objects; delays are monotonic and bounded |
| **Web resolve coordinator** `src-ui/player/resolve-job.js` | the current intent, its job id, its abort controller | start, supersede, cancel, poll | a superseded job is cancelled although its id is not known yet |
| **Home, live, football caches** `home_bootstrap.rs`, `live.rs`, `football.rs`, `tmdb.rs`, `twitch.rs` | caches with a TTL and single-flight locks | read, refresh, serve stale | one refresh per key; negative entries expire |
| **Mobile app** `mobile/src` | the My List store, offline downloads, home snapshot, a progress reporter | edit, load and write the list; download, resume, report | the list shown becomes the list stored; a download record matches its file |

Without protocol state of their own: `main.rs` (start-up, periodic tasks),
`config.rs`, `error.rs`, `utils.rs`, `health.rs`, `static_files.rs`,
`request_security.rs`, `egress_policy.rs`, `secret_store.rs`; the provider
scrapers and the source ranking in `resolver.rs`, `resolver/`; the live HLS
worker, deployment files and scripts.

### How they interact

- Browser and phone keep playback state and send it, with a version, to two
  endpoints (`/api/user/watch-progress`, `/api/user/continue-watching`).  Each
  request is one `BEGIN IMMEDIATE` transaction on SQLite, except DELETE of
  continue watching, which is two.
- The player asks for a resolve job, polls it (a request that waits on the
  job's watch channel) and cancels it when the viewer moves on.  The job's task
  competes for the resolver's permits and, for torrents, calls the local cache.
- A source that was resolved is streamed directly, through HLS or remux jobs, or
  from the local torrent cache; each holds permits, child processes or handles
  that must go when the last reader does.
- `main.rs` starts the periodic tasks: a 60 s sweep of jobs, locks and
  idle torrents, an hourly sweep of the database.

### What is hard here

Every handler is a future that the server drops when the client hangs up, at
any await.  Shared maps are concurrent (`DashMap`): each operation is atomic, a
sequence of them is not, and locks, counters and semaphores kept in maps are
pruned by reference count while others look them up.  Requests are retried,
duplicated with `keepalive`, delayed and reordered, and devices have wrong
clocks.  `PROJECT.json` lists each hazard at its line with the properties that
cover it.

## 2. Plan

Modules, in the order they are written.

| # | module | covers | state |
|---|---|---|---|
| 1 | `LwwRegister`, `UserState`, `MCUserState`, `UserStateProofs` | user state and what clients can send | checked and proved |
| 2 | `ResolveJobs`, `MCResolveJobs`, `ResolveJobsProofs` | resolve jobs | checked and proved |
| 3 | `TorrentStreams`, `MCTorrentStreams`, `TorrentStreamsProofs` | local torrents, one hash | checked and proved |
| 4 | `CheckpointQueue`, `MCCheckpointQueue`, `CheckpointQueueProofs` | the client's queue: enqueue, drain, back-off, flush on exit, change of owner | checked and proved |
| 5 | `HlsJobs`, `MCHlsJobs`, `HlsJobsProofs` | transcode permits, software fallback, pruning, requests dropped at an await | checked and proved |
| 6 | `Uploads`, `MCUploads`, `UploadsProofs` | chunks, late writes and truncations, roll-back, claim, sweep | checked and proved |
| 7 | `Playback`, `MCPlayback`, `PlaybackProofs` | leases, conditional refresh and invalidation, reuse, reports of the player | checked and proved |
| 8 | `KeyedPermits` | pruned semaphores and locks, an abstract semaphore per key as specification | planned |
| 9 | `ResolveClient`, `MCResolveClient`, `ResolveClientProofs` | the web player's requester and coordinator, against an abstract job store | checked and proved |
| 10 | `MyList`, `MCMyList` | the phone's My List against the server | checked, with a finding |
| 11 | `DbRecovery`, accounts, back-off arithmetic | migrations under crashes; sessions against password changes | planned |

Abstract specifications: the register of `LwwRegister` (done), a semaphore per key
for `KeyedPermits`.  Every safety invariant and action property of a passing run is
proved (section 5); theorems to come are those of the modules still to be written
(permit conservation for `KeyedPermits`).

## 3. The modules and the code

### UserState and LwwRegister

`UserState` models one account's durable playback state.  `progress` and
`continue` are the two tables, `progressTomb` and `continueTomb` their
tombstones; a row's `ts` is its `updated_at`, and 0 means that there is no row.
`clock[d]` is the high-water version a browser keeps in `localStorage`, `sent`
every request ever made, `unfinished` the continue-watching DELETEs between
their two transactions.  `appliedP` and `appliedC` are history: the mutations
each table has processed, with the version the server gave them.

| action | code |
|---|---|
| `SaveCheckpoint`, `RemoveTitle` | `checkpoint-save.js` `enqueue`, `continue-watching.js` `removeContinueWatchingEntry`, with the version of `nextUserStateMutationTimestamp` |
| `PutProgress`, `DeleteProgress` | `user_watch_progress_handler` and its transactions |
| `PutContinue` | `upsert_user_continue_watching`: refused when the show has a newer row or the item a tombstone; else rows of the same show go, two queries by series id and by TMDB id |
| `DeleteContinue`, `FinishDelete` | `user_continue_watching_handler`: two transactions, one per table |
| `Restart` | the process stops, or the handler is dropped, between those two |
| `SweepTombstones` | `sweep_users_db` |
| `Tick` | time passes; `normalize_user_updated_at` reads the clock before it waits for the writer lock, so a request's instant `at` may be in the past |

A request stays in `sent`, so it can arrive at either endpoint, in any order and
any number of times, for `Lifetime`; that it need not arrive is loss.
Requests without a version (from the phone) are sent once.

Abstractions.  A source identity is a model value with the series id and the TMDB
id that it names; the `LIKE` patterns are the relation "this identity names that
show" (`_` as a wildcard and letter case are left out).  A row's payload is its
resume position.  Several browser tabs that share a clock are one device, whose clock is
read and stored in one step (two tabs may read the same in the code).  The
bulk sync handler is not modelled: no client in the repository calls it.
`MyList` models my-list.

`LwwRegister` is what a table promises: a register per item of its newest
mutation.  `AsRegister` maps rows and tombstones to it; both tables implement it.

### ResolveJobs

The store of background jobs.  Handlers and tasks run on several threads; one
operation on one key of the map, and one change of a watch channel, is a step.
`stored` holds the keys of the map; a job that has left it still exists for
the handlers and the task that hold it.  `creator[c]` is where a thread is in
`create` and `spawn`, `task[j]` where a job's task is, `poll[p]` where a long
poll is.  `told` is history.

| action | code |
|---|---|
| `CreateBegin`, `Room`, `PickVictim`, `RemoveVictim`, `Insert` | `create` under `creation_lock`: prune, look at the length, `evict_oldest` (find, then remove), insert |
| `Spawn` | `spawn`: a job that is no longer stored gets no task |
| `Acquire`, `Return`, `DropFuture`, `Complete` | the task: `select!` of the token and the resolver's future, which waits for a permit; `complete` and `fail` look the job up again |
| `CancelState`, `CancelToken` | `cancel`: the state, then the token |
| `Ask`, `Read`, `Wake`, `Timeout`, `HangUp` | `snapshot_wait` and a client that goes away |
| `Sweep` | the 60 s sweeper, which takes no lock |

Abstractions.  `retain` in `prune` is one step although it visits the map shard by
shard, and the removal of a key is one step with the cancellation of its token.
The resolver's future is external: it returns, with or without a permit, or never.

### TorrentStreams

One info hash of the local torrent cache; hashes share nothing that is
modelled.  `request[r]` is a resolve or a stream request with what it holds: its
lock object, handle, barrier and stream counter.  Lock objects, counters and
barriers have an `Address`, so that an entry pruned from a map and made
again is a different object.  `torrent` is librqbit's session.

| action | code |
|---|---|
| `Arrive`, `Lock`, `FindHandle`, `WaitForDeletion`, `Notified`, `Adopt`, `Add`, `Inserted`, `Added`, `Unpause`, `Publish` | `resolve` and `create_stream_response` up to `prepare_selected_handle` |
| `Leave`, `AbandonAdd`, `Abandon`, `Delete` | a request that fails or is dropped at an await, and the clean-up task its guard spawns |
| `Answer`, `Register`, `Stream`, `Release`, `Closed` | the response; `register` and `release` are two atomic operations each |
| `TimerWakes`, `TimerLocks`, `TimerChecks`, `TimerPauses` | the task that pauses a torrent some time after its last stream |
| `SweepLists`, `SweepLocks`, `SweepPauses`, `SweepDeletes` | `maintain_idle_handles` for the 60 s sweep |
| `PruneIdleLocks` | locks and counters that only their map holds |
| `Tick` | the access marker gets older than the grace period |

Not modelled: the disk quota (and the retirement of handles it may cause inside
a request), the lock around adds of different hashes, direct files.  librqbit is
external: it inserts a torrent paused, and then persists it, pauses, unpauses,
deletes, or fails to (a pause that fails is only logged).

### CheckpointQueue

The queue of one player page.  The script of a page runs to its next await without
interruption, so an action is what runs between two awaits.  `queued`
and `unsynced` are its two maps from a title to a snapshot, which is a version
here; `active` is the pair of requests in flight with the generation it began in;
`flushing` holds the snapshots that a flush has sent.  `newest` is history: the
last snapshot of a title that was neither discarded nor rejected.

| action | code |
|---|---|
| `Enqueue` | `enqueue`, with its call of `drain` |
| `FirstAcknowledged`, `PairAcknowledged`, `Fail`, `Reject` | `drain` after each await: the second request, the end of the pair, an error that is retried or not; `Finish` is its `finally` with the next `drain` |
| `TimerFires` | the retry timer |
| `FlushForExit`, `Dispose` | the page is hidden; the player is closed |
| `FlushAcknowledged`, `FlushFails` | the promises of a flush |
| `RetryPending` | the event `online` |
| `OwnerChanges` | another tab signs out or in: `owner === getOwner()` |
| `Apply` | external: a request, however old, reaches a table that keeps the newest version |

A request is never removed from `sent`; it may be applied after it was
given up (`Fail`), and be applied but not answered.  A deletion is a snapshot like
any other.  The newest version of a clock is `UserState`'s concern.

### HlsJobs

HLS transcodes.  A job is an ffmpeg, its permit and what is known of its end;
`listed` is `hls_jobs`, `holder` who holds the lock of a job's child across an
await, `files` and `markers` the cache directory.  A job that nobody refers to
any more is dropped, and its permit with it (`InUse`); its number is free again.

| action | code |
|---|---|
| `Ask`, `LockKey`, `Look` | `get_or_create_hls_segment`, `ensure_hls_transcode_job`: the lock of the key, `hls_jobs.get`, refresh, removal of a job that failed |
| `Reopen`, `Spawn`, `NoSpawn`, `Insert`, `Refused` | `start_hls_transcode_job` with a marker, with a permit, without; insertion; what follows a refusal |
| `Wait`, `WaitTimeout` | `wait_for_hls_segment_from_job`: the segment is there, the job has ended (software fallback, render, error), time is up |
| `RenderLock`, `RenderPermit`, `Rendered` | `render_hls_segment_on_demand` |
| `HangUp` | the handler is dropped at an await, with its locks |
| `Refresh`, `Release` | `refresh_hls_job_state` by the watcher, the pruner or a request: the end, the marker, then the permit |
| `PruneNext`, `PruneDecide`, `PruneTake`, `PruneKilled`, `PruneRemove`, `SweepFiles` | `prune_idle_hls_jobs`, `prune_hls_cache_files` |
| `Ffmpeg`, `Age`, `Stale` | external: ffmpeg writes, ends or crashes; time passes |

Abstractions.  All keys are in one shard of the map, whose guard blocks writers.
A title has one segment.  `Age` is eight minutes without a request, `Stale` six
hours after the end.  The runtime has threads enough, so that one that blocks
for ever stops nobody but writers of the shard.  Remux
streams, playlists and the HLS proxy are not modelled.

### Uploads

Chunked and direct uploads.  `open` is the map of sessions, `received` the
count, `lock` the lifecycle lock, `data` what is in a file, as the numbers of its chunks, and
`place` where the file is.  tokio writes and truncates files on its blocking pool: an operation in
`writes` or `cuts` lands later, also when the handler that began it is gone (`Lands`, `CutLands`).
A handler waits, with the lock, for the truncation of its roll-back; `torn` (history) has the
sessions whose file a truncation changed although its handler had been dropped at that wait.

| action | code |
|---|---|
| `Ask`, `StartSession`, `NotFound` | the head of each handler, `start_session`, a session that is gone |
| `AppendLock`, `AppendOpen`, `Body`, `BodyFails`, `RolledBackEnds`, `Counted` | `append_chunk`: the length is compared with the count under the lock, the body is written, rolled back or counted |
| `Lands`, `CutLands` | external: a write or a `set_len` reaches the file, or `set_len` fails |
| `Claim`, `Move`, `Publish` | `finish_session`, `process_uploaded_media_into_library` |
| `Direct`, `Multipart` | `handle_direct_upload` |
| `JanitorStarts`, `Sweep`, `JanitorEnds` | `sweep_sessions` by the maintenance task; `Sweep` also heads each request |
| `Abandon`, `HangUp`, `Restart`, `Age` | the client gives a request up, the server notices; the process stops; six hours pass |

Abstractions.  A chunk is one unit and one write.  The client sends a chunk until it
is answered, then the next.  The conversion of a file either succeeds or removes it.  `counted` and `claimed`
are history.  Gallery downloads and the library are not modelled.

### Playback

The rows of `playback_sessions` of one title and user.  `due` is
`next_validation_at`: a deadline when positive, the end of a
lease when negative.  A check is a spawned validation with the token it claimed;
`late` (history) says that another stored, claimed, refreshed or deleted the row since.  What makes a
session invalid, or a report healthy again, writes its health alone and leaves `due`.  `failed`
(history) has the sources that were reported, `kept` those of them that a report put back.

| action | code |
|---|---|
| `LookUp`, `ListLatest`, `Consider` | a resolve reads its own keys, then the title's latest healthy sessions |
| `Mismatch` | `invalidate_playback_session` of a session whose filename is another film's |
| `Claim`, `ClaimLost`, `Unavailable`, `ServeStale` | `try_claim_playback_session_validation` |
| `Verdict`, `GraceEnds` | the HEAD request and `refresh_..._if_current`, `invalidate_..._if_current`; the request waits for it only a while |
| `Resolve`, `Persist`, `HangUp` | a full resolve; `build_resolved_response` stores what it serves and deletes the "auto" row |
| `ReportRead`, `ReportWrite`, `ReportHash` | `session_progress_handler`: read, write by key, write every copy by hash when the source failed |
| `Evict`, `Clear`, `Restart`, `Tick` | rows deleted by sweeps, the trim and cleared preferences; the process stops; time |

Abstractions.  A source stands for its URL, hash, file and credential scope, and every URL is
HTTP (others count as fresh and are never checked).  Every health but `invalid` is one.  Failure counts, errors and
positions are left out.  A report says that its source failed, that it plays, or nothing, and
then it writes back the health that it read (`Says`).  The handler allows all three; the web player sends only `invalid`, and
the phone's pings lack `tmdbId` in their body and are refused.  The HEAD request and the conditional update that follows
its answer are one step.  What a request makes of the list of latest sessions is any subset of `MaxLeft`.

### ResolveClient

One player page: a requester that numbers its calls, of which only the newest is wanted, and a
coordinator whose transitions wait for each other, so that a resolve enters the server after the
one it supersedes was cancelled.  `call[c]` is where a call is, `queue` the chain of
transitions with `step` for its first, `current` and `active` the request each of the two
would stop, `aborted` and `stopped` their abort signals.  `server[j]` is a registration on its way,
then a job.

| action | code |
|---|---|
| `Request`, `Admit` | `requestResolveJson`: supersede, wait for the cancellation, look whether the call is still the newest |
| `CancelActive`, `Dispose` | another source is chosen; the player is closed |
| `Skip`, `Take`, `Learn`, `Deleted` | `begin`, `cancelActive` and `cancelCurrentRequest`: an outdated transition; abort and look for the id; wait for the registration; DELETE |
| `Register`, `Registered`, `RegisterFails` | `requestAsync`: not sent if superseded meanwhile |
| `PollAnswer`, `PollRefused`, `Deadline`, `GivesUp` | `waitForResolveJob` |
| `DirectAnswer`, `Wakes`, `Stops` | a short request; a retry's delay; an abort |
| `Created`, `Works`, `DeleteArrives` | the server, `ResolveJobs` in three steps |

Promises that are settled continue before another event is looked at: `Settled` guards events.
A registration or DELETE may arrive after the page has given it up.  Abstractions.  A job's end is
"over", and its poll tells how it ended.  `lost` is history: pending jobs whose
registration, poll or DELETE got no good answer, for which the code makes
its best effort only.

### MyList

The phone's store of My List, which is global to the app: it outlives the screens that show it and the
account.  `list` is the server's, `items` what is shown; `syncing`, `dirty`, `loading` and
`hydrated` are the store's flags; `request` the requests, each with the account in its URL (`scope`) and the
account of its cookie (`by`).

| action | code |
|---|---|
| `Mount`, `Unmount`, `SignIn`, `SignOut` | a screen's effect calls `hydrate` when the screen appears and when the account changes; the end of a session at the server comes with `SignOut` |
| `toggle` | `toggle`, `remove`, with `scheduleSync` |
| `GetAnswered`, `GetFails` | the promises of `loadList` |
| `PutAnswered`, `PutFails` | the promises of `scheduleSync`: edits made meanwhile are written, a failure loads the list again |
| `ServeGet`, `ServePut`, `Refuse` | `user_my_list_handler`: the cookie decides whose list it is, a PUT replaces all rows |

Abstractions.  A list is the set of its titles; its order is left out, and its cap is one of the causes of
`Refuse`.  The account and the effects of mounted screens change in one step.  Nobody
else edits the lists.  `Patient` is a viewer who waits for a list before editing it, `Own` what
an account's viewer saves, so that titles of another are seen.

## 4. Runs

| run | instance | shows |
|---|---|---|
| `films` | one film, two browsers of which one clock drifts, 3 mutations, tombstones kept for 2 of 3 instants | `ProgressHoldsNewest`: last write wins whatever the network does; `TablesAgree`: two tables written apart agree, on the newest, once both have processed the same; `DeletesStay`; the progress table implements `LwwRegister` |
| `shows` | one show, two library episodes and a TMDB episode, from a browser and a phone, 3 mutations | `OneEntryPerShow`, `SavesAreKept`; the continue-watching table implements `LwwRegister` although one save deletes rows of other items |
| `resolve_jobs` | 2 creating threads, 2 users, 1 poll at a time, 2 jobs, capacity 1, 1 permit, expiry after an instant | `CapHolds`, `NoOrphanWork`, `OneOutcome`, `NoLostWakeup`; `CancelledWorkEnds` under fairness |
| `torrent_streams` | 2 requests, 2 handle ids, 6 addresses, generations to 3 | `LockIsExclusive`, `OpenStreamPlays`; `IdleTorrentPauses` under fairness |
| `checkpoint_queue` | 2 titles, 2 snapshots, 1 retry, 1 flush | `NothingForgotten`, `OnlyOwnerSends`; `SavedInTheEnd` under fairness |
| `hls_jobs` | one title, 2 requests, 2 transcode permits, 1 render permit, 2 jobs in use | `OneTranscodePerKey`, `TranscodesHavePermits` |
| `hls_live` | the same with 1 request and 1 permit | `PermitComesBack`, `RequestEnds` under fairness, unless the shard is wedged (see the finding) |
| `uploads` | one upload of 2 chunks, 2 handlers, the maintenance task | `WriterOwnsSession`; `AckedIsOnDisk`, `ClaimIsWhole` but in torn sessions; `StaleSessionGoes` under fairness |
| `playback` | the "auto" and one language key, 1 source, 2 requests of which one is pinned, 2 reports (one of failure, one of anything else), 2 checks, clock to 3 | `LateVerdictHarmless`, `NoHeadStorm`; `ReportedSourceIsOut` but for sources that a report put back |
| `resolve_client` | 3 calls of which the first may retry once, by job or short request, 4 registrations | `OneJobAtATime`, `NewestIsDelivered`; `NothingLeftBehind` under fairness |
| `hls_fallback`, `my_list` | the smallest instance for each finding | violations, see below |

Why the bounds are enough.  `films` needs three mutations for an older write, a
newer one and a deletion, two devices for versions that tie or cross, and one
instant more than `Retention` for a swept tombstone.  `shows` has one row for each way
to name the show.  Two jobs with room for one make every
creation after the first evict, and the victim can be expired, swept or
evicted by another thread meanwhile.  Two requests and their timers reach every
pair of a stream, a release, a timer, a sweep and a clean-up; six addresses are
more than live objects at any time (`Free` always finds one).  Two snapshots are an older
and a newer one of one title, or one of each of two titles; one retry is enough to use the budget up, one
flush to outdate the generation of a pair.  Two viewers of one title, with the watcher and the
pruner, meet at every lock of `HlsJobs`, and two jobs in use are the one that is
forgotten and the one that replaces it.  A chunk, its retry and the sweep are all that can meet at a session's
lock; a third chunk passes too and shows nothing else.  A lease of an
instant and a clock of three let a check outlive its lease and another
begin and end after it.  One source is the hard case, a session restored under the key where it
was claimed; `MCPlaybackSources.cfg` (by hand) passes with two sources, one request, reports of any
kind, three checks and a clock of four.  Three calls are a resolve, the one that supersedes it and one that supersedes
that while the first is still being cancelled; four registrations are one for each attempt, and
the page cancels at most once after each of its calls.  Runs check for deadlock, but those of `HlsJobs`, `Uploads`, `Playback`, `ResolveClient` and
`MyList` do not: a wedged shard, an upload that was given up after its last session went, a clock at its bound,
a closed player and the last request stop these systems.  For each property `PROJECT.json` has a mutant, a plausible bug in the
code (`Mut...` in the modules), that the run must refute.

`SYMMETRY` is used for positions in `films`, a run without temporal operators
but for a refinement of the form `Init /\ [][Next]_reg`, and for requests in
`hls_jobs`, which checks invariants only (as does `MCPlaybackSources.cfg`, symmetric in sources and reports).

### Fairness

`UserState` assumes none: nothing need arrive.  `ResolveJobs`: a token that is
cancelled wakes its task (`DropFuture`), and the second statement of `cancel`
follows the first without an await (`CancelToken`).  A resolver's future may
never return, nobody need poll.  `TorrentStreams`: timers and clean-up tasks
are spawned and run on, the sweep comes back every 60 s, markers age,
and the `drop` of a response runs to its end (`Closed`).  A pause may fail; that one which the sweep
tries again and again works some day (strong fairness) is an assumption about librqbit.  Requests are not fair:
a client may stream for ever.  `CheckpointQueue`: the retry timer fires and a request is
answered or aborted after 8 s.  Three assumptions are about the world and not
about the code: a request that was sent arrives in the end, a server that is tried
again and again answers some day (strong fairness of the two
acknowledgements), and the browser comes online again and again.  Without the
last, a snapshot may stay in `unsynced` for ever, as the code intends.
`HlsJobs`: tokio's mutexes and the shard's lock are fair (strong fairness of the steps that
take them), watchers and the pruner run, six hours pass, and the wait
for a segment, which looks at its time between two refreshes, is over at last.
Nobody need ask, and ffmpeg need neither write nor end.  `Uploads`: `ServerSpec` has the server's own
work (the maintenance task ticks, mutexes are fair, writes and truncations land, a handler
goes on); `FairSpec` adds that a body ends or breaks.  `ResolveClient`: promises continue, and every wait of the
page has a timeout (5 s for a registration, 3 s for a DELETE, the deadline of a poll), so weak fairness of
`Continues` and of each call's `Proceeds`; the server need do nothing.  `Playback` and `MyList` assume nothing.

### Findings

- `hls_fallback`: the first request after a transcode that failed removes the job while
  its own guard of the same shard is alive, and waits for itself
  (`streaming.rs:1136`), which `tmdb.rs:306` and `live.rs:1240` warn of.
- `my_list`: the store promises that the server converges to the final local state
  (`mylist.ts:14`).  A title saved while the list is being loaded is written as the whole
  list, and the answer to the load takes it off the screen: the phone shows the
  old list, the server has only the new title, and nothing is pending
  (`mylist.ts:102`).

Further counterexamples, from configurations to be run by hand (each names the
property that fails): `MCUserStateSeriesDelete.cfg`: a series-wide
DELETE leaves tombstones only for rows it finds, so an older checkpoint that
arrives later brings the title back (`checkpoint-save.js:109`).
`MCUserStateFarAhead.cfg`: the cap on client versions is applied on arrival, so a
device more than 24 h ahead has its requests ordered by arrival, and
a replay undoes a deletion (`docs/architecture-security.md:41`).
`MCTorrentStreamsClose.cfg`: two streams that close together can leave no
timer for the torrent (`local_torrent.rs:286`); `IdleTorrentPauses` shows that
the sweep makes up for it.
`MCUploadsCut.cfg`: a handler dropped while it waits for the truncation of its roll-back leaves the lock, and the
truncation lands after the retry of its chunk was acknowledged and cuts it off (`AckedIsOnDiskAlways`); one that comes
still later can leave a file of the right length with a chunk of zeros, which finish takes
(`ClaimIsWholeAlways`, when it is checked alone; `upload.rs:1464`).
`MCPlaybackKept.cfg` (`ReportedSourceIsOutAlways`): a report of a position reads the session as healthy,
another player reports the source as invalid, and the first writes `healthy` back (`routes.rs:1063`).
`MCUserStatePhone.cfg`: a save without series id is compared with every row that
has none and can be acknowledged but dropped (`user_state.rs:199`).
`MCUploadsStall.cfg` (`SweepEnds`): the sweep waits for the lock of a stale session whose client
sends no more of its chunk, and the one maintenance task and all uploads
wait with it (`upload.rs:151`).
`MCMyListSwitch.cfg`, with a patient viewer: the late answer to a write of the account that left
clears `syncing` and `dirty` of the one that came (`mylist.ts:60`), whose last edit is never written.
`MCMyListLeak.cfg` (`ListsApart`): with no screen mounted the store keeps its account when
another signs in, and the write of what was dirty goes out with the other's
cookie.  `MCMyListTypes.cfg` checks `TypeOK` of `MyList` with two accounts, and passes.

## 5. Proofs

`tlapm` checks the theorems below for every value of the constants that satisfies
the named assumptions.

Each safety invariant follows from an inductive one, which TLC checked on the
run's instance before it was proved; every proof has one lemma or step per action.

**`UserStateProofs`**, from `SeriesAssumption` (ids are
related by functions, and names of different kinds differ), `EntryAssumption` (what clients save of a title is
consistent, from `getCanonicalContinueWatchingMetadata`), `TimeAssumption` and
`RetentionAssumption` (a tombstone outlives the requests it holds back, also those of a
slow clock).

- `TypeCorrect`, `RequestsCorrect`.
- `ProgressCorrect`: `ProgressHoldsNewest`.  It is not inductive: a missing row
  says nothing of the deletions that caused it once their tombstone is swept.
  `ProgressInv` adds that every deletion is still *in effect*: a tombstone as new,
  or a newer row, or no row and a version so old that, by `RetentionAssumption`,
  no request that it must hold back can arrive (`ArrivesBeforeForgotten`).
- `ProgressRefinesRegister`, `ContinueRefinesRegister`: each step maps to a
  step or a stutter of `LwwRegister`.  The second rests on `ContinueCorrect`: rows
  carry names of one show, so that the DELETEs of a save, which do not
  compare versions, only meet rows that `NewerInShow` has compared.
- `RowsAndTombstones`: `RowNewerThanTombstone`, for both tables (proved, not in a run).
- `EntriesCorrect`: `OneEntryPerShow`, from `ContinueCorrect`: rows with a name in
  common are siblings, so the save that wrote the later one took the other.
- `TablesCorrect`: `TablesAgree`.  `FilmsInv` (`FilmsCorrect`) says of every title
  outside shows what `ProgressInv` says of progress rows, for the other table.
- `RemovalsStay`: `DeletesStay` if `ClocksNear` (no version a device sends is cut to the
  cap) and `TitlesRemoved` (removals name one title and carry versions).  It needs
  `SentCorrect` (the server processes only what was sent) and `VersionsInv` (versions of
  one device grow with its mutations).  The run `films` satisfies both conditions;
  without the first (`MCUserStateFarAhead.cfg`) or the second
  (`MCUserStateSeriesDelete.cfg`) TLC finds a removed title back.
- `SavesCorrect`: `SavesAreKept` if `OneShowPerName` (sharing a name is transitive, so a
  save meets one show only) and `SeriesNamed` (no show is saved by TMDB id alone beside
  others without a series).  `SavesInv` adds where rows come from (`RowsInv`) and
  that a tombstone is that of a mutation at least as new (`TombsInv`).  The
  run `shows` satisfies both; `MCUserStatePhone.cfg` breaks the second and loses a save.

**`ResolveJobsProofs`**, from `StoreAssumption` (a capacity and permits of at least one,
finitely many threads).

- `TypeCorrect`: with `LockInv` (the thread between prune and insertion holds
  `creation_lock`) and `ReturnInv`.
- `CapacityCorrect`: `CapHolds`.  `CapInv` adds that a thread about to insert
  has room, and that a victim that is gone has made room: only the lock's
  holder adds jobs, everybody else only removes them.
- `EndsCorrect`: `EndInv` = `OrphanInv`, `ToldInv` (an end that was told is
  the job's state, which ends keep) and `PollInv` (a poll has seen a version
  smaller than that of any end).  `NoOrphans`, `OutcomesAgree` and
  `WakeupsCorrect` follow.

**`PlaybackProofs`**, from `PlaybackAssumption` (a lease of at least an instant,
no longer than the interval between two checks).

- `TypeCorrect`: with what a row, a request, a check and a report hold in each state.
- `LateVerdicts`, `OneCheck`: `LateVerdictHarmless`, `NoHeadStorm`.  Neither is inductive:
  a row could be stored again with the token of an old check.  `LeaseInv` adds where a
  row stands against each check of its key (`Outlived`): a stored row is due no earlier
  than the check's lease ends, and a lease in it is the check's own, unmarked, or begins
  after the check's has ended.  That needs `Lease <= Interval`, and is kept for rows that are
  invalid too, because a report can put one back with the `due` it had.
- `ReportedOut`: `ReportedSourceIsOut`, inductive with the types.  It speaks of `failed \ kept`; of
  all that `failed` it is false (`MCPlaybackKept.cfg`).

**`CheckpointQueueProofs`**, from `QueueAssumption` (bounds are natural numbers).

- `QueueCorrect`: `QueueInv` = `TypeOK`, `KeptInv` (the newest snapshot of a title waits
  to be acknowledged until both tables have it), `FlightInv` (the snapshot in flight is the newest or
  has been superseded in the queue, unless its generation is over) and `AnsweredInv` (what was
  acknowledged is in its table).  `NothingLost` (`NothingForgotten`) follows.
- `OwnerSends`: the action property `OnlyOwnerSends`.

**`UploadsProofs`**, from `UploadAssumption` (a chunk at least, and no more than the limit).

- `UploadsCorrect`: `UploadInv`, of which `WriterOwnsSession` and `ClaimIsWhole` are
  parts.  They are not inductive: `PlaceInv`, `FreshInv` and `ClosedInv` say
  where an upload's only first request, its session and its file are; `WritesInv` that a
  write in flight is that of the flush waiting for it or of a handler that is gone;
  `CutsInv` that a truncation is that of the handler which waits for it, or of one that is gone;
  `FileInv` that the file holds what was counted, whatever such a write adds before a
  roll-back; `OrderInv` that chunks are asked for in order.  `AckedOnDisk`
  (`AckedIsOnDisk`) needs the last two.  What they say of files leaves torn sessions out: there
  it is false (`MCUploadsCut.cfg`).  Short of that, truncations of dropped handlers are harmless
  when they land before the next chunk or find the file as long as they make it.

**`TorrentStreamsProofs`**, from `TorrentAssumption` (no request, address or id is the
null value).

- `TorrentCorrect`: `TorrentInv`.  `LockInv` says that whoever waits for the lock of the
  hash or has it uses the entry now in `locks`: pruning by reference count cannot
  replace it.  With `OneHolder`, `LockExclusive` follows, from `CountInv`,
  `HandleInv`, `DeletionInv` and `PauseInv` (counter, handle, clean-up and pauses
  against the streams) `OpenStreams` (`OpenStreamPlays`).

**`HlsJobsProofs`**, from `HlsAssumption`.

- `HlsCorrect`: `HlsInv`.  A live ffmpeg is in the map or is brought there by the holder of the
  key's lock (`LiveInv`, `PlaceInv`, `KeyLockInv`, `ListInv`), and the pruner removes the job
  it has listed only when that is over (`PruneInv`): `OneTranscode`.  With
  `PermitInv`, `Permits` (`TranscodesHavePermits`).

**`ResolveClientProofs`**, from `ClientAssumption`.

- `ClientCorrect`: `ClientInv`.  `QueueInv`: a transition in the queue is that of a call
  that waits for it, and the last one is still wanted.  `ActiveInv`: the active call is the
  newest and the only one that works unaborted.  `CurrentInv`: only the
  coordinator's request is not stopped, and if it is aborted a transition that will
  stop it is queued; so while promises are settled (`Settled`) an answer to it is
  wanted.  `JobInv`: a pending job is that of this request or of
  the cancellation under way, or nobody answers for it.
- `OneJob`: `OneJobAtATime`, from `JobInv`; `NewestDelivered`: the action property
  `NewestIsDelivered`, from `ActiveInv` and `CurrentInv`.

Only model-checked: liveness (`CancelledWorkEnds`, `IdleTorrentPauses`,
`SavedInTheEnd`, `PermitComesBack`, `RequestEnds`, `StaleSessionGoes`,
`NothingLeftBehind`), which is out of the prover's reach, as are `ENABLED` and
induction over data; and the two runs that show a finding.

## 6. Not modelled

Rows 8 and 11 of the plan are to be modelled.  Of the modelled components:
bulk sync (no client in the repository calls it), the disk quota of the torrent cache, remux streams
and HLS playlists, gallery downloads and the library file, counters and positions of playback sessions.

Hazards without a property.  A snapshot that is in flight while
the account leaves and returns can be put back into the queue by its failure, although the
queue was discarded (`checkpoint-save.js:77`); `CheckpointQueue` has that behaviour,
and no document rules it out.  The write of a dropped append can
land in a file that a finish has already claimed and renamed (`upload.rs:1448`),
and temporary files of uploads that a restart interrupts stay (`upload.rs:391`);
`Uploads` has both.  A truncation that lands when its handler is gone, and a report that writes back the health it
read earlier, break what `AckedIsOnDisk`, `ClaimIsWhole` and `ReportedSourceIsOut` say; the models have both,
the properties name the exception, and the configurations above show it.  Two tabs that read one
clock before either stores it (`replay-safe-state.js:25`) are not in `UserState`.  Series-wide deletions, devices
far ahead, saves without a series and tombstones swept too early are excluded by the named conditions
of the theorems.  A reuse stores the snapshot that it read as healthy again, after
awaits in which the row may have been invalidated (`resolver.rs:3299`); `Playback`
has that, so `ReportedSourceIsOut` holds until a source is stored again.

Left aside for good: provider
scrapers, source ranking and TMDB look-ups (upstream I/O and heuristics without
concurrent state), ffmpeg, librqbit and SQLite themselves (external; SQLite's
write transactions are atomic steps), static files, configuration, encryption at rest,
the DOM side of the player, deployment.
