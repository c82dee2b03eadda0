# media-pipeline: TLA+ models, model checking and proofs

This directory holds TLA+ specifications of media-pipeline, the TLC
configurations that check them on small instances, and proofs that TLAPS
checks for every value of the constants. `PROJECT.json` lists the runs, the
lines of code each definition stands for, the hazards of the code, and what
the runs found.

    tlc -config MCMediaSync_apart.cfg MCMediaSync     # one run
    tlapm MediaSync_proofs.tla                        # the proofs of one module

## The system

One process (`main.rs`) opens a SQLite database and calls `run_full`
(`pipeline.rs`) once, or again and again with `--interval`. A run

1. connects to the seedbox, sweeps stale rows and starts the pool of file
   downloaders (`SyncEngine::new`);
2. starts the one-slot analyze pool;
3. walks the categories one after the other: the walker upserts a row per
   remote directory, asks the remote for fingerprints and inserts a row per file;
4. drains in cascade: signals and joins the downloader pool, then signals and
   joins the analyze pool;
5. asks Plex to rescan what reached the library.

The stages after the analyze pool, a rename pool and a move pool of one slot each,
exist with their tests, but `run_full` does not construct them at this commit: the module
comment of `pipeline.rs` (1-16) says they are disabled until a permission of the library
mount is fixed. They are modelled as they are to be connected again.

The parts never talk to each other directly. They share the tables of one database,
the map of canonical titles (rename to move worker) and the SSH Handle; each
`Database` method is atomic because it holds the connection mutex:

| Component | State it keeps | Operations | Talks to |
|---|---|---|---|
| Main task (`main.rs`, `pipeline.rs`) | where the run is | open, start, walk, drain, join, exit | everything, by spawning, signalling, joining |
| Database (`db.rs`) | `directories` (id, state, manifest hash), `file_hashes`, `file_downloads` (id, state, downloading_at) | upserts, claims, verdicts, completion, sweep, backfill | all tasks |
| Walker (`sync.rs`, `run_walker`) | directory in hand, its manifest, rows to insert | list, collect manifest, upsert, hash, insert rows | remote (SFTP, exec), database |
| Downloader slots (`sync.rs`, `FileDownloaderSlotWorker`) | claimed file | claim, download, verdict, try to complete the directory | remote, staging disk, database |
| Download of one file (`sync.rs`) | attempt, offsets, tasks in flight, writes queued | stat, verify, extend, read chunks, check | remote, staging disk |
| Worker pool (`worker_pool.rs`) | drain channel, slots, first error | spawn, claim, process, publish, drain, join | database, a `Worker` |
| Analyze worker (`worker_pool.rs`, `policy.rs`) | claimed directory | claim, set policy, publish | database |
| SSH session (`sync.rs`) | the Handle and its mutex, one SFTP channel per slot and walker | open, reopen, reconnect | remote, every slot, walker |
| Rename worker (`worker_pool.rs`, `rename.rs`) | claimed directory, renames to do, table `files` | parse names, look the title up, rename file by file, record | staging disk, database, map of titles |
| Move worker, layout, library (`worker_pool.rs`, `library.rs`, `layout.rs`) | claimed directory, its destination | resolve, compare, back up, rename into the library, record | both disks, database, map of titles |
| Metadata lookup (`metadata.rs`) | memory and table `metadata_cache`, with a time to live | lookup | inner lookup, database; used by the rename worker only |
| Plex scan (`pipeline.rs`, `plex.rs`) | `plex_scan_at` of the rows | scan once per category | Plex, database |
| Schema (`db.rs`, `init_schema`) | the schema the file has | rebuild, create, alter, backfill | at each open |
| Config, CLI, scripts, systemd | none at run time | | |

### What is hard about it

- *Interleavings.* Four downloader slots, the walker, the analyze slot and the
  main task run concurrently over shared rows. A slot decides to exit from a
  count it has just read; a directory is completed by whichever slot
  finishes a file of it; a worker publishes under an id it has kept since its claim.
- *Ordering.* The drain must go downstream one pool at a time. Chunks of one file
  arrive, and are written, in any order.
- *Crashes and partial failures.* Fingerprints, rows and bytes are written by
  separate steps. A dead process leaves claimed rows, fingerprints without
  rows, and copies that already have their final length and are full of holes.
  Any `Database` call may fail between two others.
- *A remote that changes* between the manifest, the fingerprint and the download.
- *Retries* that resume from what a failed attempt left, with writes of that
  attempt still on their way to the disk; a rename that starts over from a tree it
  has renamed in part; a move that starts over after the tree has moved.
- *Shared recovery.* Every task that notices an outage recovers by itself, and replaces
  the one Handle under the others.
- *Staleness.* Two layers of cache, each with its own idea of when an entry began.
- *Others in the library*: owners put directories there, Tdarr re-encodes in place.
- *Liveness.* The drain polls until a count is 0; orphaned rows wait for a sweep.

### What makes each component correct

- Queue: a file is downloaded by one slot at a time, only that slot settles it, a
  verdict is final (of `failed` the program's documents say both, see *Met while modelling*),
  an orphaned claim comes back, every claimable file is served.
- Walker: a fingerprint never stays without the file row it should have.
- Download: an `Ok` means the copy has the remote's length and the recorded
  fingerprint, and nothing spoils it later.
- Pool: `Ok` means drained, no failure is swallowed, a drain ends.
- Run: it ends, with no claimable file and no directory waiting for analysis.
- Session: every operation ends, nobody waits for the mutex for ever, and a budget of retries
  is not used up by the recovery itself.
- Rename: no file is lost but by two of one name, and an interruption shows nowhere.
- Move: every file ever downloaded is in staging, in the library or in a backup, unless a
  lookalike in the library was taken for it; a row leads to its own directory, or to that
  lookalike; a directory gets to the library, and Plex sees it.
- Cache: a title is of the release that was asked for, and not older than a bound.
- Schema: no directory is lost, and the program only works on a complete schema.
- Directory rows: they move when their files are done, and nobody's verdict
  falls on another directory, or on one that has been reset since (here the code
  falls short, see *Findings*).

## The modules

| Module | Models | Role |
|---|---|---|
| `FileQueue` | table `file_downloads` as a promise | abstract specification |
| `Phase` | a pool as the cascade sees it: a `FileQueue` that comes to an end | abstract specification |
| `MediaSync` | `run_full` with its tasks, tables, disk and remote | core; implements `FileQueue` |
| `MediaSync_proofs` | | theorems and proofs about `MediaSync` |
| `WorkerPool` | `worker_pool.rs`, one pool over an abstract `Worker` | the protocol of drain and errors; implements `Phase` |
| `Download` | `download_file` down to the chunk and the queued write | what an `Ok` means |
| `Session` | the Handle, channels, reopening and reconnecting | how slots and walker recover together |
| `Names` | `rename.rs`, `metadata.rs`: parsing and naming | operators, used by `Rename` |
| `Rename` | `rename_directory` and its worker on one directory | what a rename keeps |
| `Library` | rename and move pools, `layout.rs`, `library.rs`, Plex scan | the pipeline from `analyzed` to Plex |
| `Cache` | `CachedLookup` | two layers of cache |
| `Schema` | `init_schema` | upgrades |
| `WorkerPool_proofs`, `Download_proofs`, `Session_proofs`, `Rename_proofs`, `Library_proofs`, `Schema_proofs`, `Cache_proofs` | | theorems and proofs |
| `MCMediaSync`, `MCWorkerPool`, `MCDownload`, `MCSession`, `MCRename`, `MCLibrary`, `MCCache`, `MCSchema` | | small instances for TLC |

`MediaSync` composes the walker, two instances of the pool and the main task. It
sees a download as two actions, `DownloadOk` and `DownloadErr`; what it assumes of
the first is what `Download` shows as `Contract`, disjunct by disjunct (`Trusted` is the same
condition in both). Of the second it assumes nothing but the contents a copy can have. `WorkerPool` looks closer at
the pool than `MediaSync` does (start-up, the watch channel, panics), `Session` closer at
the failures of walker and slots, which `MediaSync` has as outcomes. `Library` begins where
`MediaSync` ends, with rows in `analyzed`; `Rename` is one step of it (`RenameDirectory`), and
the title `Rename` shows to survive is the one `Library` calls `LocalTitle`.

### MediaSync

*State.* `dirId, dirState, stored` are the columns of `directories`; `fileId,
fileState, old` those of `file_downloads` (`old`: `downloading_at` is more than six
hours ago); `hash` is `file_hashes`. `dirSeq` and `fileSeq` are SQLite's
AUTOINCREMENT counters: they are there because the code uses an id of one table in
the other. `phase` is the main task, `wpc, wdir, seen,
rows, todo` the walker, `spc, sfile` the
downloader slots, `apc, adir` the analyze slot. `remote` and `disk` are the contents
of the files there and in staging; `Torn` is a copy of plausible length with
wrong bytes.

*Actions.* One per `Database` call or outcome, named after the method where
there is one: `claim_file`, `set_file_synced`, `try_complete_directory`,
`upsert_directory` (in `WalkUpsert`), `stale_file_sweep` (in `StartRun`),
`claim_synced_row`; `SlotPublish` and `AnalyzePublish` are what `worker_loop` does
after `process`. Failures: `Crash` (at any time, with torn copies), `SlotFault`,
`ClaimLost`, `WalkFault`, `AnalyzeFault`, `StartFault`. Environment: `RemoteChange`,
`HoursPass`.

*Abstractions.* A crash is the death of the process, not of the machine: what has been
written to a file stays, what was being downloaded may be torn. sha256 is taken to be injective, so a fingerprint *is* the content it
was computed from. The manifest hash (of names, sizes and mtimes) is the function from
the directory's files to their contents: a replacement of a file that leaves size
and mtime alone is not modelled. A directory that the walker filters out is one it skips, and so is one whose
manifest it cannot collect: where the code would try that directory for ever
(*Findings*, 2), `MediaSync` lets the walk go on, so `RunEnds` holds for remotes
whose listed directories can be read in the end. The policy column is left out,
`analyze_directory` always answers the same. Plex scans are left out: they look at
rows in `in_library`, which `run_full` does not produce as it is assembled today.
For the same reason the states beyond `analyzed` do not occur; `Library` has them.

### WorkerPool

One pool and the rows of the states it moves between. `signal_drain` models
`watch::Sender::send`, which stores the value only while a receiver exists;
receivers are created by the aggregator task, one per slot. `DrainCheck`, `Claim`,
`Process`, `Publish`, `PublishFailure` are the steps of `worker_loop`, each with its
failing variant; `Panic` is a panicking `process`. Rows arrive only before
the signal, because the cascade joins the upstream pool first.

`Phase` is the promise `run_full` relies on when it awaits the handle and then signals the next
pool: a row is settled by the worker that holds it and for good, the handle resolves with an error
exactly if a row was given up, and a phase that has ended touches no row. `Cascade` in `WorkerPool` is
the refinement mapping: the states of the rows in the words of `FileQueue` (`Stage`), and the rows
of the live slots (`Holds`); a slot that dies gives up its row.

### Download

A file is a short sequence of chunks, each right, of another version, or a hole of the
pre-extension. `Stat` is the part before the retry loop; an attempt is
`TryDownload`, then `Issue`, `ReadChunk`, `JoinNext`, `ReaderDone`, then `Check`.
`write_all` on a `tokio::fs::File` completes when the write has been handed to the
blocking pool; the code never flushes. So a write is an element of `queued` that
lands at any later time (`Land`), in the inode it was opened on, also after its
task was aborted or the call has returned, and its error is lost.

### Session

Transports are numbered by the times the Handle has been replaced; a channel is the number
of the transport it was opened on, or `Own`, the one from the start, which a slot uses at
the beginning of each file and the walker at the beginning of each category (`current_raw`
and `walker_channel` are locals). A failed attempt goes `wantReopen`, `reopen`, and if that
fails `wantReconnect`, `connect`, `open`: the mutex is given back between the first two and
the last three, and another client may come in between. `WalkerStep` is `run_walker` with
its two retry loops. Backoff is left out: it delays, it decides nothing. Every lock wait is
served in any order; tokio's mutex is first come first served, so strong fairness of `Lock`
assumes no more than it gives.

### Names and Rename

A name is a sequence of words and separators, and the word lists of the code are
represented by a few of each. `Names` has the four group detectors in the order the code tries
them, the release metadata, the cleaned title, `rename_file` and
`rename_non_video_to_match`. In `Rename` a tree is renamed entry by entry, in any order (the map
of renames is a `HashMap`), each entry an `fs::rename`, an insert and an update. The disk maps
paths to the file they hold, so a rename onto an existing file shows as a loss.

### Library

One variable `lib` maps the paths of the library to what lies there; a backup goes to
`backups`. The two workers go step by step, with a failing call at each, a crash between
any two. `NewFile` is what the rest of the pipeline does with a new file of a directory:
the row is reset, whoever holds it, and comes back to `analyzed` with the new file in staging.

`compute_dir_manifest_hash` sees the path, the size and the seconds of the mtime of each file,
neither bytes nor owner. `Likeness` stands for these: directories of one likeness have files of the
same paths, sizes and seconds, numbered alike. `CheckDestination` compares manifests, so
somebody else's directory of equal likeness, with the same files, is a duplicate to it. `UserAdds` puts
one of three things in the way: an exact copy (a directory moved there by hand), a lookalike of the
user, any other files. A re-encoded file has another size and time.

`overtaken`, `torn` and `mistaken` are history: directories whose row was reset under a worker,
directories whose duplicate was removed in part, and files that were removed as duplicates of
what only looks like them. What the properties say of these is said at each.

### Cache

A title is the key it was asked for and the time it was fetched, so that a wrong or an old
answer shows. A lookup takes the time once and the table takes it again, at another moment:
`now` and `clock`. Up to `Duration` units pass during a lookup. The clock only goes forward; an
adjustment of the system clock is not modelled.

### Schema

The versions of the schema are those `init_schema` recognises: no table, one `failed` state,
failures per phase with the transcode states, current; any prefix of the other tables. One action
per statement that commits alone, one per rebuild. `Stop` ends the process between any two, and
the program works on the tables (`Work`) between two opens. `origin` is history: the state a
row had when no upgrade had touched it.

## The runs

| Run | Instance | Properties | Size |
|---|---|---|---|
| `media_sync_apart` | 2 directories of one file, 2 slots, 1 crash or failing call | `TypeOK` `ClaimExclusive` `FingerprintsTracked` `DrainedPool` `CascadeComplete` `QueueSpec` | 1.6 M states |
| `media_sync_contents` | 1 file, 4 contents of 3 lengths, any first tree, 2 remote changes, 1 fault | `SyncedIsVerified` | 0.55 M |
| `media_sync_live` | 1 directory of 2 files, 2 slots, 1 fault, fairness | `RunEnds` `OrphanRecovered` `EligibleServed` | 129 k |
| `pool_drain` | 3 slots, 2 rows, 2 faults, fairness | `TypeOK` `OneOwner` `ResultIsTrue` `PhaseSpec` `DrainEnds` | 12 k |
| `download_retries` | 0, 1 or 3 chunks, window 2, 2 retries, 2 faults, 8 copies found, 3 fingerprints | `TypeOK` `Contract` `VerifiedIsKept` `EveryChunkWritten` | 3.6 M |
| `session_recovers` | 2 slots, walker, 1 directory, 1 outage or failing attempt, 3 retries, fairness | `TypeOK` `BudgetOutlivesRecovery` `OperationsEnd` | 71 k |
| `rename_retries` | trees of 1 to 3 files over 8 names, of 1 to 2 with 2 odd ones, 2 faults, 1 new download | `TypeOK` `OnlyCollisionsLose` `SameAsUninterrupted` `TitleSurvivesRename` | 1.1 M |
| `library_moves` | a movie, an album, of one likeness, 2 events, fairness | `TypeOK` `OnlyLookalikesLose` `OwnPlace` `CanonicalTitleUsed` `LibraryKept` `Shelved` `IngestReachesPlex` | 199 k |
| `cache_layers` | 2 callers, 2 categories, time to live 2, 1 fault | `TypeOK` `TwoLifetimes` `NothingWithoutAsking` | 4.8 M |
| `schema_upgrade` | 2 directories in any state of any version, 2 opens cut short, fairness | `TypeOK` `RowsKept` `CurrentWhenOpen` `OpenEnds` | 0.3 M |
| `own_completion` | 2 + 1 files, no fault | violates `OnlyCompletionSyncs` | |
| `session_unreadable` | 2 directories, one unreadable, no fault | violates `WalkEnds` | |

What the passing runs show:

- `ClaimExclusive`, `QueueSpec`: whatever the sweep, the backfill and the walker do,
  a live download is never handed out twice and a verdict is never undone. That this holds of
  `failed` too is what the code does and `README.md:168` says; `README.md:125` says the contrary.
- `FingerprintsTracked`: the two calls in which the walker records a file leave no
  fingerprint without a row once the database has been opened again. (In daemon mode
  the database is opened once: until a restart such a file stays unseen.)
- `SyncedIsVerified`: `synced` means the fingerprinted bytes are on disk, also when
  the remote has changed since, after torn copies, and in later runs. The exception is
  an empty file, which may not exist at all.
- `DrainedPool`, `CascadeComplete`, `ResultIsTrue`: the drain protocol is right even
  though slots exit one by one from counts that may be stale by then.
- `ResultIsTrue`, `PhaseSpec`: besides, an error of a pool always has a row behind it. A count or a
  claim that fails costs nothing, and a joined pool leaves the table alone, so the main task may signal
  the next one.
- `RunEnds`, `DrainEnds`: the count of the drain and the claim agree on what is left.
- `Contract`, `VerifiedIsKept`: with a fingerprint, late and lost writes and resumed
  attempts never make `download_file` answer `Ok` for wrong bytes; a copy that is trusted when it is
  found is not touched at all.
- `OperationsEnd`, `BudgetOutlivesRecovery`: clients that recover from one outage at the same
  time do not block each other, and cost each other at most one attempt each. The bound,
  `max_download_retries` at least the number of clients times the outages, is tight: the
  default of 2 with four slots and a walker does not cover one outage.
- `OnlyCollisionsLose`, `SameAsUninterrupted`: renaming is idempotent enough to be started
  over from any half-renamed tree of names that keep their extension (`KeepsExtension`). What
  it does lose there, it loses to two source files of one new name.
- `TitleSurvivesRename`: a move worker that has lost the map of titles finds the same title, for
  names that keep their extension and are not among the exceptions of `KeepsTitle`: no word but release
  noise, the form `group-title` (our group would have to be a short word of lower case letters), `.sample`
  twice. It needs a configured group that the parser takes for one.
- `LibraryKept`: whatever is in the way of a move, the operator's or the program's own, stays or
  ends in a backup, also where `OnlyLookalikesLose` makes an exception.
- `OnlyLookalikesLose`, `OwnPlace`: conflicts, failures and crashes leave every file somewhere the
  operator finds it, and a row points to its own files. The one exception, which the run
  reaches, is a tree of equal manifest in the way: then the files in staging go, and the row points to
  the lookalike. Without that exception TLC finds both violated.
- `Shelved`: without a failing call every directory reaches the library. With one it may
  not (see *Met while modelling*).
- `IngestReachesPlex`: one stamped row per category and run is enough, because a scan covers
  the category.
- `TwoLifetimes`: the two layers add up: a row about to expire is taken into memory
  as if it were new. `metadata.rs:121-123` says "expire after `ttl`"; it is up to two.
- `RowsKept`, `CurrentWhenOpen`, `OpenEnds`: an upgrade can be cut short anywhere and as often
  as one likes.

*Bounds.* Two slots and two files show every interleaving of a pair of slots; ids
clash between tables from the first row on, and `MaxSeq` lets conflicting upserts burn
up to two ids before the counters stop (the counter is otherwise unbounded). One
fault can fall at any step of any task, so it covers each crash point with the recovery
that follows; in `pool_drain` and `download_retries`, where
faults interact within one component, there are two. `a` and `b` have the same length,
`long` and `empty` do not: every branch of the length and fingerprint comparisons is
taken. Two remote changes allow a file to be replaced and to come back. Three chunks
with a window of two is the least at which the window is refilled while one write is
still under way. In `media_sync_apart` the remote does not change, in
`media_sync_contents` there is one file; the proofs cover the combination.
In `session_recovers` three clients recover from one outage, the least at which two of them
replace the Handle one after the other while a third opens a channel. The eight names of
`rename_retries` have each form the detectors tell apart, samples, a subtitle, a name that
is already ours, and a subdirectory; the odd ones, a name without extension and a title that
is a number, are those the properties have to except; three files are enough for a collision, its bystander, and a
choice of primary video. The two events of `library_moves` put a fault, a new file or a stranger
before or after each other at every step; a movie and an album take the two branches of
the layout. Two rows never compete for one place there (two movies with two events take TLC too
long with the liveness properties); that they keep apart is left to the proof, `PlaceIsOwn`. The clock of `cache_layers` goes to 5, beyond twice the time to live plus
two lookups (4), so `TwoLifetimes` is met with equality. Two opens cut short in
`schema_upgrade` interrupt the recovery of the first.

*Fairness.* Weak fairness of the main task, the walker, the analyze slot and each
downloader slot: they are tokio tasks whose awaits all end (reads have a stall timeout,
retries are bounded, polls are timers). `MainStep` fair also means that the process is
started again after it ends, which the daemon loop or the systemd timer does;
`HoursPass` fair means that runs go on for more than the six hours of the
sweep. Nothing is assumed of crashes, failures or the remote. In `WorkerPool` the slots,
their start and the aggregator are fair; the signal and the upstream are not. In
`Session` the slots and the walker are weakly fair, taking the mutex is strongly fair, because
tokio serves its waiters in order, and an outage ends (`Restore`), because systemd and the
operator see to it; an outage never has to happen. In `Library` the workers, the next run and
the walk are weakly fair, and the Plex scan strongly fair, since it runs between two runs of
the workers, not at any time; nothing is assumed of users, Tdarr and faults. In `Schema` the
program is started again and its statements go on.

*Deadlock* is checked in `MediaSync`, `WorkerPool`, `Cache` and `Schema`. Elsewhere the
modelled work ends: a download, a renamed directory, a directory in the library, and in
`Session` the bounded number of files and categories.

## Findings

1. *`handles_own_completion` is never overridden* (`worker_pool.rs:111, 321`). After each
   file, `worker_loop` sets the *directory* whose id is the *file's* id to `synced`
   (or `sync_failed`). Directories become `synced` with files still to download, which
   are then no longer claimable. Run `own_completion`.
2. *A directory that cannot be read stops the walk* (`sync.rs:2116-2121`): the arm after the last
   retry of `collect_manifest`, commented "Best-effort: log and skip the directory", ends in a
   `continue` of the inner loop. The walker tries the directory again at once, without backoff or
   reopening, for ever; the run does not end. Run `session_unreadable`.

### Met while modelling, without a run of their own

*Queue, pool, download*

- A replaced remote file stalls its directory (`db.rs:602`): the directory is reset to
  `detected`, its file row and fingerprint are not, and nothing completes it again.
  (`README.md:168` of the program knows of the case of failed files.)
- What happens to a failed file. `README.md:125` of the program: "failed (retryable; resets to
  detected on next walk)". `README.md:168`: "`failed` file rows are never reset by the walk". The code
  agrees with the latter: the walk's `upsert_file_downloads_row` (`db.rs:1116`) is an `INSERT OR IGNORE`,
  the sweep (`db.rs:1071`) takes `downloading` rows only, and `reset_state_for_failed` (`db.rs:1154`) is
  about directories. `FileQueue`, and with it `QueueSpec`, states what the code does: both verdicts are final.
  It passes because the claim of line 125 is false.
- The analyze slot overwrites a reset (`worker_pool.rs:321`): the verdict is written
  whatever the row's state has become, and the new manifest is never downloaded.
- A drain signal can be lost before the slots have started (`worker_pool.rs:192`). In
  `run_full` the walk lies between `spawn` and the signal, so the window is small.
- Without a fingerprint a retry accepts holes (`sync.rs:1285`): the check that was added
  against this does not apply to the attempt it was meant for. `run_full` only claims files
  that have a fingerprint (`FingerprintsTracked`), so it is latent.
- An empty remote file is never created locally (`sync.rs:925`).
- `claim_file`'s comment says the parent is in `Syncing` (`db.rs:963-964`), the statement says
  `detected`; one transient error costs two attempts, as the next attempt reads nothing, mismatches
  and deletes (`sync.rs:1193-1211`, `1331-1360`); a local copy longer than the remote file fails
  for ever, where `sync.rs:165-168` expects the extra bytes to be discarded.

*Session*

- A slot's channel from the start is never replaced: after a reconnect the stat of each later
  file (`sync.rs:913`, before the retry loop) goes over a dead channel, and the file fails at
  once, although `sync.rs:888-892` speaks of a fresh channel for the next attempt.
- Each client whose reopening failed replaces the Handle without looking whether it has been
  replaced already, and kills the channels others have just opened.
- `sync.rs:758-767` ("does not currently retry mid-walk") and `sync.rs:1967` ("the downloader
  pool never touches the Handle") describe an earlier version.

*Rename and move* (not connected at this commit)

- A failure after the tree has moved (`library.rs:22`, then `set_directory_library_path`) makes the
  retry find its own directory in the way: it backs an album up to `.old` and has nothing to
  put in its place; a movie fails with ENOENT for ever, and ends the move slot in each run. A
  row reset under the worker comes to the same.
- A new file of an album that is in the library moves there alone, and the old album goes to
  `.old`; a new file of a show lands in "Show 2".
- Duplicates are judged by manifests of path, size and mtime in whole seconds (`library.rs:38-45`,
  `96-118`), although `library.rs:17` and `layout.rs:15` speak of a "content-hash dedup". If another
  directory with an equal manifest is in the way, `remove_dir_all` takes the only copy of the downloaded
  files and the row leads to the other directory. The test `library.rs:170-199`, which is ignored
  ("depends on content-based manifest hash"), asserts on two trees of equal names and sizes that the
  staged one is moved and the other backed up. `OnlyLookalikesLose` and `OwnPlace` make this their exception.
- A file downloaded between the comparison with a duplicate and `remove_dir_all` is removed.
- A file without an extension (`README`) gets the stem of the primary video as its name
  (`rename.rs:688`). If that stem has a dot, the next pass takes what follows it for an
  extension, and the name grows by it; it can then replace a file that no new name of the
  downloaded tree collides with. The proof of `SameAsUninterrupted` failed on this name, and
  TLC confirms both. `.sample.mkv` loses its extension in the same way.
- A title that is a number (`1917-GRP.mkv`) is all noise to `is_release_noise_token`, so
  `clean_title_for_directory` falls back to the whole stem, group included
  (`metadata.rs:348-356`): the title after a restart is another one than before the rename.
- `strip_sample_suffix` cuts `.sample` off once per pass (`rename.rs:197-205`): `[GRP].sample.sample.mkv`
  loses one in each, and its title changes. TLC found this name, and only such names, when the
  proof of `TitleSurvivesRename` did not go through.
- When the numbers 2 to 999 of a title are taken, `resolve_destination` answers with the time of
  day and does not look whether that is free (`layout.rs:94-101`).
- Rows in `renaming` or `moving` whose process died stay so until the remote changes.
- After a failure between `fs::rename` and the audit calls (`rename.rs:537-551`) table `files` never gets
  that rename. `plex_scan_at` is never cleared: new files of a stamped directory are scanned
  with the next other directory of the category.

*Schema*

- The first rebuild (`db.rs:284-328`) turns `failed` into `detected`, but its new CHECK has no
  `transcoding` and `transcoded`, which the schema it starts from allows (test, `db.rs:1908-1913`).
  With such a row every open fails (`Refused` in `OpenEnds`); the test says "preserve all rows".
- Foreign keys are on in the bundled SQLite: a rebuild's `DROP TABLE directories` empties `files`,
  `file_hashes` and `file_downloads` by their `ON DELETE CASCADE`.

## What is proved

`MediaSync_proofs` proves, for any sets of directories, files, slots and contents, any
bounds, and any placement of faults:

| Theorem | Statement |
|---|---|
| `TypeCorrect` | `Spec => []TypeOK` |
| `ClaimsAreExclusive` | `Spec => []ClaimExclusive` |
| `FingerprintsAreTracked` | `Spec => []FingerprintsTracked` |
| `SyncedFilesAreVerified` | `Spec => []SyncedIsVerified` |
| `PoolIsDrained` | `Spec => []DrainedPool` |
| `CascadeIsComplete` | `Spec => []CascadeComplete` |
| `ImplementsFileQueue` | `Spec => QueueSpec` |

The only assumption is `ConstantsAssumption` of `MediaSync` (finitely many files, at least
one slot, values distinct), which TLC evaluates in the runs.

The argument. None of the properties is inductive. `IInv` adds to the type invariant:

- `HoldInv`: a slot has a file exactly from its claim to the end of `process`, and the
  file's verdict is written before its directory is looked at;
- `PhaseInv`: no slot exists before a run starts, and every slot has left when the
  downloader pool has been joined. This is what makes a sweep of `downloading` rows safe in
  a process that lives for many runs, and it turns "every slot has left" into `DrainedPool`;
- `RowsInv`: a file has a state exactly when it has an id;
- `WalkInv`: the walker works only while the run walks, and holds rows to insert only
  between recording their fingerprints and leaving the directory.

`DiskInv` strengthens `SyncedIsVerified` to the slots between the end of a download and
its row (`landed`): the disk of a settled or landed file is not touched by anybody else,
which needs `ClaimExclusive`. `DrainInv` is the argument of the drain: once one slot
has seen no claimable file during the drain, no step makes one, because only the walker
and the sweep do (lemma `NoNewWork`), and likewise for `synced` directories once the
downloaders have been joined (`NoNewSynced`). The refinement maps a step of
`MediaSync` to a step of `FileQueue` or to nothing it sees, one lemma per task
(`MainQueueStep`, `SlotQueueStep`, `NextQueueStep`).

`WorkerPool_proofs`, from `PoolAssumption`, for any slots, rows and number of faults:

| Theorem | Statement |
|---|---|
| `TypeCorrect` | `Spec => []TypeOK` |
| `RowsHaveOneOwner` | `Spec => []OneOwner` |
| `ResultTellsTruth` | `Spec => []ResultIsTrue` |
| `ImplementsPhase` | `Spec => PhaseSpec` |

`ResultIsTrue` relates the end of the pool to every row, while each slot left after a look at
its own count. `DrainInv` bridges the two: once one slot has ended without an error there is no
claimable row and none arrives. `HoldInv` says which slots still hold a row, `FailInv` that a failed
row has ended its slot, `ErrorInv` that a slot which ended in error left a row that failed or that it
still holds, `ResultInv` what the aggregator has seen when it resolves. In the refinement a step of a slot
is a step of the phase for its row or is not seen (`SlotPhaseStep`); the end of the phase needs
the two arguments of `ResultIsTrue` again, if a slot has failed and if none has (`ResolvePhaseStep`).

`Schema_proofs`, from `SchemaAssumption`, for any directories and any number of interruptions:

| Theorem | Statement |
|---|---|
| `TypeCorrect` | `Spec => []TypeOK` |
| `RowsAreKept` | `Spec => []RowsKept` |
| `WorksOnCurrent` | `Spec => []CurrentWhenOpen` |

`Progress` says what the statements before the next one have achieved; `Kept` that a row is as it
was or upgraded. That upgrading twice is upgrading once (`UpgradedTwice`) is why an
interrupted upgrade can begin again.

`Cache_proofs`, from `CacheAssumption`, for any callers, releases and times:

| Theorem | Statement |
|---|---|
| `TypeCorrect` | `Spec => []TypeOK` |
| `TitlesExpire` | `Spec => []TwoLifetimes` |
| `AbsenceIsAsked` | `Spec => []NothingWithoutAsking` |

The bound of `TwoLifetimes` is put together from three: how much older than its row a title can be
(`Layers`, table), how much older than its stamp (`Layers`, memory), and what a lookup can have
found (`Caller`). A step of one caller leaves the others' alone (`Others`).

`Download_proofs`, from `DownloadAssumption`, for any size in chunks, any copy found at the start,
any window, budget and number of faults:

| Theorem | Statement |
|---|---|
| `TypeCorrect` | `Spec => []TypeOK` |
| `ContractHolds` | `Spec => []Contract` |
| `ChunksAreWritten` | `Spec => []EveryChunkWritten` |
| `VerifiedStays` | `Spec => VerifiedIsKept` |

The danger is the queued write that lands when nobody expects it. `WriteInv` is the reason why it
does no harm: a write that is queued for the present copy is for a chunk that is still a hole, and
the only one for it. An attempt resumes at the length it finds, the first attempt on a copy extends
it to its final length, so no later one reads a chunk again before the copy is deleted, and then
the writes go to an inode that is gone. A copy with the recorded fingerprint has no hole, hence no
write waiting (`VerifiedIsKept`). `ReadInv` says where the reader is, `WrittenInv` that a chunk
that was answered for is written or queued, `LengthInv` that a copy that was too long stays so,
`TrustInv` that no attempt is made for a copy that is trusted.

`Session_proofs`, from `SessionAssumption`, for any finite set of slots and any number of outages,
faults and retries:

| Theorem | Statement |
|---|---|
| `TypeCorrect` | `Spec => []TypeOK` |
| `BudgetHolds` | `Spec => []BudgetOutlivesRecovery` |

What an operation has spent says nothing about what it may still have to spend. `Ahead` is that
second number: one attempt for the channel the client has, if it is dead, and one for each client
that is on its way to replacing the transport under it; during an outage, all of them. `BudgetInv`
bounds the sum by the number of clients times the outages, plus the other faults. It needs
`TransportInv`: an outage makes each client replace the transport once at most, although none of
them looks whether another has done so.

`Rename_proofs`, from `RenameAssumption`, for any trees, faults and downloads:

| Theorem | Statement |
|---|---|
| `TypeCorrect` | `Spec => []TypeOK` |
| `CollisionsAloneLose` | `Spec => []OnlyCollisionsLose` |
| `EndsLikeOnePass` | `Spec => []SameAsUninterrupted` |
| `TitleOutlivesRename` | `Spec => []TitleSurvivesRename` |

The first two properties are about `ProperNames`: trees in which every name has an extension that
survives; without it they are false (*Met while modelling*). The lemmas about `Names` hold for names
of any length: a new name contains the configured group, so it is not swapped again (`RenameTwice`),
and a name is split again where it was joined (`SplitOfJoin`), so the extension, and with it
what is a video, stays (`ExtensionKept`). Hence a file has few `Places`, its own path and its new
ones, and leads from each of them to the same new path (`NamedAgain`). The invariant is then short: what
a path holds has that path among its places, each file has a place that is occupied, and there is a
primary video of the *downloaded* tree for which all that is not in the map has its new name
(`PlanInv`; lemma `SamePlan` for a map made from a half-renamed tree).

`TitleOutlivesRename` needs no condition on the tree, because a video is renamed by its own name alone:
`VideoInv` says that a path which holds a video has the name it was downloaded under or the one new
name of that, and after the rename the latter. What is left is about two names. A group in brackets is found again in
brackets (`FoundInBrackets`), one at the end or none is found again at the end (`FoundBehind`,
`FoundTrailing`); in each case what remains without the group is the same sequence, or that and one
separator (`SeparatorBehind`). Its `Runs` are the same then (`SameRuns`), and so are the tokens and the title.
No induction over sequences is needed, because `Runs` is a set, by the places where tokens begin and end.

`Library_proofs`, from `LibraryAssumption`, for any directories, likenesses, answers and number of events:

| Theorem | Statement |
|---|---|
| `TypeCorrect` | `Spec => []TypeOK` |
| `LookalikesAloneLose` | `Spec => []OnlyLookalikesLose` |
| `LibraryIsKept` | `Spec => LibraryKept` |
| `TitleReachesMove` | `Spec => []CanonicalTitleUsed` |
| `PlaceIsOwn` | `Spec /\ []NumbersLeft => []OwnPlace` |
| `PlaceIsOwnAmongFew` | `Spec => []OwnPlace`, for finitely many `Dirs` with `Cardinality(Dirs) + MaxEvents < 998` |

`WorkerInv` says whose row a worker holds, `TitleInv` when the shared map is behind the last lookup,
`StagingInv` and `CopyInv` what the worker knows of staging and of its destination at each step.
While it removes a duplicate it knows only that the destination has the likeness of its directory and
the files that were compared; so what is removed is there, as itself or as its like (`TakenFor`), and
that stays so for the row it then publishes, since no step takes from the library (`SameFiles`, `CopiesStay`).
For `OwnPlace`, `PathInv` adds that a row's path is in its category (an album's: under its own
name) and that the destination being worked on is no other row's; it is inductive as long as `resolve_destination`
finds a free path. `NumbersLeft` is that condition: for each title one of the numbers 2 to 999
is free. It is not an idle one, since the code does not look at the fallback behind it. The second
theorem removes it for few directories: a path of the library is taken by a move, which empties
a staging directory, or by an event, so there are never more paths than directories and
events (`CountInv`), and 998 numbers cannot all be taken (`FewPaths`).

Changes the proofs asked for: `Slots` of `Session` is finite and `NoFile` of `Download` is no
sequence of chunks, both stated in the assumptions; `Rename` states which names keep their
extension; the raw form of a sample without an extension has the dot that `parse_release_metadata`
puts there; `Names` splits a title by the set of its runs and tests a group by the set of its words, where it
used to select from sequences; `TitleSurvivesRename` says which names it is about (`KeepsTitle`);
`Contract` says of a trusted copy that it is left alone, as `MediaSync` has it. `RenameAssumption` says that the separators are strings, which the provers do not know.

Every invariant and every action property of the runs is a theorem, and so are both refinements.
Only model-checked is liveness: `RunEnds`,
`OrphanRecovered`, `EligibleServed`, `DrainEnds`, `OperationsEnd`, `Shelved`, `IngestReachesPlex`,
`OpenEnds` (the prover does not handle `ENABLED` and fairness). No module uses a `RECURSIVE`
operator.

## Not modelled

- Configuration, command line, the status command, the choice of a lookup from the
  configuration: sequential, without state at run time.
- `HttpLookup` is a stub in the code; `Cache` has the inner lookup as its trait describes it.
- The HTTP request to Plex, authentication and host keys, SFTP and exec themselves:
  external libraries; they succeed or fail.
- Names character by character: `Names` works on words, one representative per list of
  the code. Case, Unicode and the layout of a title are left out.
- The tests' helpers, `stale_syncing_sweep` and `claim_detected_row` (nothing else calls them).
- Indexes, and season numbers in the metadata cache.
- Scripts and deployment files: outside the program.
- The crash of the machine (as opposed to the process), adjustments of the clock.

## Plan

Done, in this order: `FileQueue` and `MediaSync` with their runs, `WorkerPool`,
`Download`, the proofs about `MediaSync` up to the refinement; then `Names` and `Rename`,
`Library`, `Session`, `Cache`, `Schema`, and the proofs about `WorkerPool`, `Schema` and `Cache`;
then those about `Download`, `Session`, `Library` and `Rename`, and the refinement of `Phase`. Every safety
property of the runs is a theorem.

Next:

1. `Rename` as a step of `Library`: that `RenameDirectory` is what `Rename` does from claim to
   publish, as a refinement.
2. `MediaSync` with `Library` downstream, once the pools are connected again: the four-stage
   cascade, each pool a `Phase`.
