----------------------------- MODULE MediaSync -----------------------------
(***************************************************************************)
(* One run of the pipeline as run_full assembles it today: the walker, the *)
(* pool of file downloaders, the one-slot analyze pool and the main task   *)
(* that drains them in cascade, over the SQLite rows they share, with the  *)
(* remote changing underneath and the process dying and restarting.        *)
(*                                                                         *)
(* Abstractions:                                                           *)
(*  - every Database call is one atomic step (it holds the connection      *)
(*    mutex); what a task does between two calls is not;                   *)
(*  - the bytes of a file, with the size and mtime that go with them, are  *)
(*    one element of Contents; sha256 is injective, so a recorded          *)
(*    fingerprint is the Contents it was computed from; the manifest hash  *)
(*    is the function from a directory's files to their Contents;          *)
(*  - categories are walked one after the other by the same task: the      *)
(*    directories of all of them form one listing, and a directory whose   *)
(*    category could not be listed is one the walk skips;                  *)
(*  - every listed directory can be read in the end: what the walker does  *)
(*    when it cannot is module Session;                                    *)
(*  - download_file is two outcomes over the copy on disk (its retries and *)
(*    chunks are the subject of module Download);                          *)
(*  - the rename and move pools are not constructed by run_full, so no row *)
(*    goes beyond 'analyzed'; 'syncing' is set by no code path in use.     *)
(***************************************************************************)
EXTENDS Naturals, FiniteSets

CONSTANTS Dirs,         \* remote directories (rows of table directories)
          Files,        \* files of those directories (rows of file_downloads)
          DirOf,        \* DirOf[f]: the directory f lives in
          Slots,        \* downloader slots
          Contents,     \* what a file may contain
          Size,         \* Size[c]: the length of content c
          None,         \* no row, no file, no fingerprint, no directory
          Torn,         \* a local copy with holes or a missing tail
          RemoteInit,   \* the remote trees a first run may find
          MaxSeq,       \* bound: ids burnt by conflicting upserts stop here
          MaxFaults,    \* bound on process deaths and failing Database calls
          MaxChanges    \* bound on changes of the remote tree

ASSUME ConstantsAssumption ==
  /\ IsFiniteSet(Files) /\ Slots # {}
  /\ DirOf \in [Files -> Dirs]
  /\ Size \in [Contents -> Nat]
  /\ None \notin Files \cup Dirs \cup Contents
  /\ Torn \notin Contents \cup {None}
  /\ RemoteInit \subseteq [Files -> Contents \cup {None}]
  /\ MaxSeq \in Nat /\ MaxFaults \in Nat /\ MaxChanges \in Nat

VARIABLES
  remote,     \* remote[f]: content of f on the seedbox, None if absent
  disk,       \* disk[f]: the staging copy, None if there is no file
  dirId, dirState, stored,   \* directories: id (0: no row), state, manifest
  fileId, fileState, old,    \* file_downloads: id, state, downloading_at > 6h ago
  hash,       \* file_hashes: expected_sha256
  dirSeq, fileSeq,           \* sqlite_sequence of the two AUTOINCREMENT ids
  phase,      \* where the main task is
  wpc, wdir, seen, rows, todo,   \* walker: step, directory, manifest, rows to insert, to do
  spc, sfile, \* downloader slots: step, claimed file
  apc, adir,  \* analyze slot: step, claimed directory
  faults, changes            \* what the bounds count

env  == <<remote, disk, changes>>
dirRows  == <<dirId, dirState, stored, dirSeq>>
fileRows == <<fileId, fileState, old, hash, fileSeq>>
main == <<phase, faults>>
walker == <<wpc, wdir, seen, rows, todo>>
slots == <<spc, sfile>>
analyzer == <<apc, adir>>
vars == <<env, dirRows, fileRows, main, walker, slots, analyzer>>

Copies == Contents \cup {None}

DirectoryState == {"none", "detected", "sync_failed", "synced",
                   "analyzing", "analyzed", "analyze_failed"}

FileState == {"none", "detected", "downloading", "synced", "failed"}

FilesOf(d) == {f \in Files : DirOf[f] = d}

Empty == {c \in Contents : Size[c] = 0}

NothingSeen == [f \in Files |-> None]
-----------------------------------------------------------------------------
(* The rows, and the statements that read and write them.                  *)

Init ==
  /\ remote \in RemoteInit
  /\ disk = [f \in Files |-> None]
  /\ dirId = [d \in Dirs |-> 0]
  /\ dirState = [d \in Dirs |-> "none"]
  /\ stored = [f \in Files |-> None]
  /\ fileId = [f \in Files |-> 0]
  /\ fileState = [f \in Files |-> "none"]
  /\ old = {}
  /\ hash = [f \in Files |-> None]
  /\ dirSeq = 0 /\ fileSeq = 0
  /\ phase = "boot"
  /\ wpc = "off" /\ wdir = None /\ seen = NothingSeen /\ rows = {} /\ todo = {}
  /\ spc = [s \in Slots |-> "off"]
  /\ sfile = [s \in Slots |-> None]
  /\ apc = "off" /\ adir = None
  /\ faults = 0 /\ changes = 0

\* A conflicting upsert or an ignored insert still consumes an id.
Burn(seq) == IF seq < MaxSeq THEN seq + 1 ELSE seq

\* The phase a failed directory goes back to on the next walk.
reset_state_for_failed ==
  [sync_failed |-> "detected", analyze_failed |-> "synced",
   rename_failed |-> "analyzed", move_failed |-> "renamed"]

\* The state upsert_directory leaves in a row that exists.
ResetState(st, changed) ==
  IF changed THEN "detected"
  ELSE IF st \in DOMAIN reset_state_for_failed THEN reset_state_for_failed[st]
  ELSE st

\* upsert_directory: the row of d after a walk that collected manifest m.
upsert_directory(d, m) ==
  /\ IF dirId[d] = 0
     THEN /\ dirId' = [dirId EXCEPT ![d] = dirSeq + 1]
          /\ dirSeq' = dirSeq + 1
          /\ dirState' = [dirState EXCEPT ![d] = "detected"]
     ELSE /\ dirSeq' = Burn(dirSeq)
          /\ dirState' = [dirState EXCEPT ![d] =
                            ResetState(@, \E f \in FilesOf(d) : stored[f] # m[f])]
          /\ UNCHANGED dirId
  /\ stored' = [f \in Files |-> IF f \in FilesOf(d) THEN m[f] ELSE stored[f]]

\* set_directory_state / set_directory_error: UPDATE ... WHERE id = n, no row no effect.
SetDirectoryState(n, st) ==
  dirState' = [d \in Dirs |-> IF dirId[d] # 0 /\ dirId[d] = n THEN st ELSE dirState[d]]

\* upsert_file_downloads_row: INSERT OR IGNORE.
upsert_file_downloads_row(f) ==
  IF fileId[f] = 0
  THEN /\ fileId' = [fileId EXCEPT ![f] = fileSeq + 1]
       /\ fileSeq' = fileSeq + 1
       /\ fileState' = [fileState EXCEPT ![f] = "detected"]
  ELSE /\ fileSeq' = Burn(fileSeq)
       /\ UNCHANGED <<fileId, fileState>>

\* What claim_file may take and count_eligible_files counts.
Eligible == {f \in Files : fileState[f] = "detected" /\ dirState[DirOf[f]] = "detected"}

Settled(f) == fileState[f] \in {"none", "synced", "failed"}
-----------------------------------------------------------------------------
(* The process and its main task: open, run, drain in cascade, end.        *)

\* Every task of the process is gone; the rows and the disk stay.
ProcessEnds ==
  /\ phase' = "boot"
  /\ spc' = [s \in Slots |-> "off"]
  /\ sfile' = [s \in Slots |-> None]
  /\ wpc' = "off" /\ wdir' = None /\ seen' = NothingSeen /\ rows' = {} /\ todo' = {}
  /\ apc' = "off" /\ adir' = None

\* Mistake: no backfill; the rows wait for the next walk.
BootNoBackfill ==
  /\ phase = "boot"
  /\ phase' = "start"
  /\ UNCHANGED <<env, dirRows, fileRows, faults, walker, slots, analyzer>>

\* Database::open: init_schema backfills a file row for each fingerprint without one.
Boot ==
  LET F == {f \in Files : hash[f] # None /\ fileId[f] = 0}
      n == Cardinality(F)
  IN
  /\ phase = "boot"
  /\ phase' = "start"
  /\ \E ids \in [F -> (fileSeq + 1)..(fileSeq + n)] :
       /\ \A f, g \in F : ids[f] = ids[g] => f = g
       /\ fileId' = [f \in Files |-> IF f \in F THEN ids[f] ELSE fileId[f]]
  /\ fileSeq' = fileSeq + n
  /\ fileState' = [f \in Files |-> IF f \in F THEN "detected" ELSE fileState[f]]
  /\ UNCHANGED <<env, dirRows, hash, old, faults, walker, slots, analyzer>>

\* Mistake: the sweep looks for directories in the state the diagrams name.
SweepSyncing ==
  LET F == {f \in old : fileState[f] = "downloading" /\ dirState[DirOf[f]] = "syncing"}
  IN /\ fileState' = [f \in Files |-> IF f \in F THEN "detected" ELSE fileState[f]]
     /\ old' = old \ F

\* stale_file_sweep(6).
stale_file_sweep ==
  LET F == {f \in old : fileState[f] = "downloading" /\ dirState[DirOf[f]] = "detected"}
  IN /\ fileState' = [f \in Files |-> IF f \in F THEN "detected" ELSE fileState[f]]
     /\ old' = old \ F

\* SyncEngine::new (sweep, then the pool) and the analyze pool; the walk begins.
StartRun ==
  /\ phase \in {"start", "done"}
  /\ phase' = "walk"
  /\ stale_file_sweep
  /\ spc' = [s \in Slots |-> "idle"]
  /\ apc' = "idle"
  /\ wpc' = "next"
  /\ todo' = Dirs
  /\ UNCHANGED <<env, dirRows, fileId, hash, fileSeq, faults, wdir, seen, rows, sfile, adir>>

\* SyncEngine::new fails, before the sweep (no session) or after it (no
\* channel): run_full returns its error, and so does main.
StartFault ==
  /\ phase \in {"start", "done"}
  /\ faults < MaxFaults
  /\ faults' = faults + 1
  /\ stale_file_sweep \/ UNCHANGED <<fileState, old>>
  /\ ProcessEnds
  /\ UNCHANGED <<env, dirRows, fileId, hash, fileSeq>>

\* Every category has been walked: drain_pool signals the downloader pool.
SignalDrain ==
  /\ phase = "walk" /\ wpc = "next" /\ todo = {}
  /\ phase' = "drain"
  /\ wpc' = "off"
  /\ UNCHANGED <<env, dirRows, fileRows, faults, wdir, seen, rows, todo, slots, analyzer>>

\* drain_pool joins every slot; only then the analyze pool is signalled. An
\* error of any slot leaves run_full, and main, with `?`.
JoinDownloaders ==
  /\ phase = "drain"
  /\ \A s \in Slots : spc[s] \in {"exit", "halted"}
  /\ UNCHANGED <<env, dirRows, fileRows, faults>>
  /\ \/ /\ \A s \in Slots : spc[s] = "exit"
        /\ phase' = "drainAnalyze"
        /\ UNCHANGED <<walker, slots, analyzer>>
     \/ /\ \E s \in Slots : spc[s] = "halted"
        /\ ProcessEnds

JoinAnalyze ==
  /\ phase = "drainAnalyze"
  /\ UNCHANGED <<env, dirRows, fileRows, faults>>
  /\ \/ /\ apc = "exit"
        /\ phase' = "done"
        /\ UNCHANGED <<walker, slots, analyzer>>
     \/ /\ apc = "halted"
        /\ ProcessEnds

\* Without --interval the process returns after one run.
Exit ==
  /\ phase = "done"
  /\ ProcessEnds
  /\ UNCHANGED <<env, dirRows, fileRows, faults>>

\* The process dies; copies being written may be left torn.
Crash ==
  /\ phase # "boot"
  /\ faults < MaxFaults
  /\ faults' = faults + 1
  /\ \E T \in SUBSET {sfile[s] : s \in {t \in Slots : spc[t] = "fetch"}},
        copy \in {Torn} \cup Empty :
       disk' = [f \in Files |-> IF f \in T THEN copy ELSE disk[f]]
  /\ ProcessEnds
  /\ UNCHANGED <<remote, changes, dirRows, fileRows>>
-----------------------------------------------------------------------------
(* run_walker.                                                             *)

\* collect_manifest returned the files of d; this is what it saw of each.
WalkManifest(d) ==
  /\ wpc = "next" /\ d \in todo
  /\ wpc' = "upsert"
  /\ wdir' = d
  /\ seen' = [f \in Files |-> IF f \in FilesOf(d) THEN remote[f] ELSE None]
  /\ UNCHANGED <<env, dirRows, fileRows, main, rows, todo, slots, analyzer>>

\* d is passed over: filtered out, gone, or of a category that was given up, when its
\* listing failed or a call for an earlier directory did. (A directory that is listed
\* but cannot be read has no way out of its loop: module Session.)
WalkSkip(d) ==
  /\ wpc = "next" /\ d \in todo
  /\ todo' = todo \ {d}
  /\ UNCHANGED <<env, dirRows, fileRows, main, wpc, wdir, seen, rows, slots, analyzer>>

WalkUpsert ==
  /\ wpc = "upsert"
  /\ upsert_directory(wdir, seen)
  /\ wpc' = "hash"
  /\ UNCHANGED <<env, fileRows, main, wdir, seen, rows, todo, slots, analyzer>>

\* The files of the manifest that have no fingerprint yet are hashed by one
\* exec, as they are on the remote now, not as the manifest saw them. It may
\* fail, or answer for some of them only: any of these sets may come back.
collect_remote_hashes ==
  SUBSET {f \in FilesOf(wdir) : seen[f] # None /\ hash[f] = None /\ remote[f] # None}

\* get_existing_hashes_for_dir, collect_remote_hashes, append_file_hashes.
WalkHashes ==
  /\ wpc = "hash"
  /\ \E H \in collect_remote_hashes :
       /\ hash' = [f \in Files |-> IF f \in H THEN remote[f] ELSE hash[f]]
       /\ rows' = H
  /\ wpc' = "rows"
  /\ UNCHANGED <<env, dirRows, fileId, fileState, old, fileSeq, main, wdir, seen,
                 todo, slots, analyzer>>

\* One upsert_file_downloads_row call per fingerprint just recorded.
WalkRow(f) ==
  /\ wpc = "rows" /\ f \in rows
  /\ upsert_file_downloads_row(f)
  /\ rows' = rows \ {f}
  /\ UNCHANGED <<env, dirRows, old, hash, main, wpc, wdir, seen, todo, slots, analyzer>>

\* A Database call of the walker fails: the category is given up, the run goes
\* on. Fingerprints may have been recorded whose rows are never inserted.
WalkFault ==
  /\ wpc \in {"upsert", "hash", "rows"}
  /\ faults < MaxFaults
  /\ faults' = faults + 1
  /\ wpc' = "next"
  /\ todo' = todo \ {wdir}
  /\ wdir' = None /\ seen' = NothingSeen /\ rows' = {}
  /\ UNCHANGED <<env, dirRows, fileRows, phase, slots, analyzer>>

WalkDirDone ==
  /\ wpc = "rows" /\ rows = {}
  /\ wpc' = "next"
  /\ todo' = todo \ {wdir}
  /\ wdir' = None
  /\ seen' = NothingSeen
  /\ UNCHANGED <<env, dirRows, fileRows, main, rows, slots, analyzer>>
-----------------------------------------------------------------------------
(* The downloader slots: worker_loop around FileDownloaderSlotWorker.      *)

Goto(s, step) == spc' = [spc EXCEPT ![s] = step]

\* Mistake: a slot leaves on the signal, without counting what remains.
SlotExitUncounted(s) ==
  /\ spc[s] = "idle"
  /\ phase = "drain"
  /\ Goto(s, "exit")
  /\ UNCHANGED <<env, dirRows, fileRows, main, walker, sfile, analyzer>>

\* Mistake: the count is not joined with directories, as the claim is.
SlotExitUnjoined(s) ==
  /\ spc[s] = "idle"
  /\ phase = "drain"
  /\ \A f \in Files : fileState[f] # "detected"
  /\ Goto(s, "exit")
  /\ UNCHANGED <<env, dirRows, fileRows, main, walker, sfile, analyzer>>

\* A slot leaves when the drain is signalled and count_eligible_files is 0.
SlotExit(s) ==
  /\ spc[s] = "idle"
  /\ phase = "drain"
  /\ Eligible = {}
  /\ Goto(s, "exit")
  /\ UNCHANGED <<env, dirRows, fileRows, main, walker, sfile, analyzer>>

\* Mistake: the row is selected but not marked.
ClaimUnmarked(s) ==
  /\ spc[s] = "idle"
  /\ \E f \in Eligible :
       /\ \A g \in Eligible : fileId[f] <= fileId[g]
       /\ sfile' = [sfile EXCEPT ![s] = f]
  /\ Goto(s, "fetch")
  /\ UNCHANGED <<env, dirRows, fileRows, main, walker, analyzer>>

\* Mistake: as the comment above claim_file has it, the directory must be 'syncing'.
ClaimInSyncing(s) ==
  /\ spc[s] = "idle"
  /\ \E f \in Eligible :
       /\ dirState[DirOf[f]] = "syncing"
       /\ fileState' = [fileState EXCEPT ![f] = "downloading"]
       /\ old' = old \ {f}
       /\ sfile' = [sfile EXCEPT ![s] = f]
  /\ Goto(s, "fetch")
  /\ UNCHANGED <<env, dirRows, fileId, hash, fileSeq, main, walker, analyzer>>

\* The statement of claim_file: the eligible row of lowest id goes 'downloading'.
MarkDownloading(f) ==
  /\ \A g \in Eligible : fileId[f] <= fileId[g]
  /\ fileState' = [fileState EXCEPT ![f] = "downloading"]
  /\ old' = old \ {f}

claim_file(s) ==
  /\ spc[s] = "idle"
  /\ \E f \in Eligible : MarkDownloading(f) /\ sfile' = [sfile EXCEPT ![s] = f]
  /\ Goto(s, "fetch")
  /\ UNCHANGED <<env, dirRows, fileId, hash, fileSeq, main, walker, analyzer>>

\* claim_file's second query fails: the row is marked, worker_loop backs off
\* and polls again, and nobody downloads the file.
ClaimLost(s) ==
  /\ spc[s] = "idle"
  /\ faults < MaxFaults
  /\ faults' = faults + 1
  /\ \E f \in Eligible : MarkDownloading(f)
  /\ UNCHANGED <<env, dirRows, fileId, hash, fileSeq, phase, walker, slots, analyzer>>

\* The lengths a local copy may have. A torn one was extended to the length of
\* what the remote held then.
Lengths(copy) == CASE copy = None -> {0}
                   [] copy = Torn -> {Size[c] : c \in Contents} \ {0}
                   [] OTHER       -> {Size[copy]}

\* Mistake: a copy of the right length is trusted whatever its fingerprint.
TrustedBySize(f) == Size[remote[f]] \in Lengths(disk[f])

\* verify_existing_file says Trust: same length, and empty, not fingerprinted,
\* or of the recorded fingerprint.
Trusted(f) ==
  /\ Size[remote[f]] \in Lengths(disk[f])
  /\ Size[remote[f]] = 0 \/ hash[f] \in {None, disk[f]}

\* download_file returns Ok: the local copy is trusted as it is, or it has been
\* fetched and, if a fingerprint is recorded, matches it. A copy longer than
\* the remote file is never cut, so it never passes the size check.
DownloadOk(s) ==
  LET f == sfile[s] IN
  /\ spc[s] = "fetch"
  /\ remote[f] # None
  /\ \/ Trusted(f) /\ UNCHANGED disk
     \/ /\ Size[remote[f]] > 0
        /\ \E n \in Lengths(disk[f]) : n <= Size[remote[f]]
        /\ hash[f] \in {None, remote[f]}
        /\ \E copy \in IF hash[f] = None THEN {remote[f], Torn} ELSE {remote[f]} :
             disk' = [disk EXCEPT ![f] = copy]
  /\ Goto(s, "landed")
  /\ UNCHANGED <<remote, changes, dirRows, fileRows, main, walker, sfile, analyzer>>

\* download_file returns Err, after its retries or at once; it may have left a
\* partial copy, deleted a mismatching one, or not have touched it.
DownloadErr(s) ==
  LET f == sfile[s] IN
  /\ spc[s] = "fetch"
  /\ \E copy \in {disk[f], remote[f], None, Torn} \cup Empty :
       disk' = [disk EXCEPT ![f] = copy]
  /\ Goto(s, "broken")
  /\ UNCHANGED <<remote, changes, dirRows, fileRows, main, walker, sfile, analyzer>>

SetFileState(f, st) == fileState' = [fileState EXCEPT ![f] = st]

set_file_synced(s) ==
  /\ spc[s] = "landed"
  /\ SetFileState(sfile[s], "synced")
  /\ Goto(s, "settled")
  /\ UNCHANGED <<env, dirRows, fileId, old, hash, fileSeq, main, walker, sfile, analyzer>>

\* try_complete_directory.
try_complete_directory(s) ==
  LET d == DirOf[sfile[s]] IN
  /\ spc[s] = "settled"
  /\ dirState' = [dirState EXCEPT ![d] =
                    IF @ = "detected" /\ \A f \in FilesOf(d) : Settled(f)
                    THEN "synced" ELSE @]
  /\ Goto(s, "publish")
  /\ UNCHANGED <<env, dirId, stored, dirSeq, fileRows, main, walker, sfile, analyzer>>

\* Mistake: the directory's failure state, which the table's CHECK refuses.
SetFileSyncFailed(s) ==
  /\ spc[s] = "broken"
  /\ SetFileState(sfile[s], "sync_failed")
  /\ Goto(s, "publish")
  /\ UNCHANGED <<env, dirRows, fileId, old, hash, fileSeq, main, walker, sfile, analyzer>>

\* Mistake: a failed file is queued again at once.
RequeueFailed(s) ==
  /\ spc[s] = "broken"
  /\ SetFileState(sfile[s], "detected")
  /\ Goto(s, "publish")
  /\ UNCHANGED <<env, dirRows, fileId, old, hash, fileSeq, main, walker, sfile, analyzer>>

set_file_failed(s) ==
  /\ spc[s] = "broken"
  /\ SetFileState(sfile[s], "failed")
  /\ Goto(s, "publish")
  /\ UNCHANGED <<env, dirRows, fileId, old, hash, fileSeq, main, walker, sfile, analyzer>>

\* process returned Ok. handles_own_completion is false for every worker, so
\* worker_loop moves the *directory* whose id is the claimed *file*'s id.
SlotPublish(s) ==
  /\ spc[s] = "publish"
  /\ SetDirectoryState(fileId[sfile[s]], "synced")
  /\ sfile' = [sfile EXCEPT ![s] = None]
  /\ Goto(s, "idle")
  /\ UNCHANGED <<env, dirId, stored, dirSeq, fileRows, main, walker, analyzer>>

\* A Database call of process fails: worker_loop marks that same directory
\* sync_failed (if this call works) and the slot halts. When the failing call
\* is worker_loop's own set_directory_state, the slot just halts.
SlotFault(s) ==
  /\ spc[s] \in {"fetch", "landed", "broken", "settled", "publish"}
  /\ faults < MaxFaults
  /\ faults' = faults + 1
  /\ \/ UNCHANGED dirState
     \/ spc[s] # "publish" /\ SetDirectoryState(fileId[sfile[s]], "sync_failed")
  /\ sfile' = [sfile EXCEPT ![s] = None]
  /\ Goto(s, "halted")
  /\ UNCHANGED <<env, dirId, stored, dirSeq, fileRows, phase, walker, analyzer>>
-----------------------------------------------------------------------------
(* The analyze slot: worker_loop around AnalyzeSlotWorker.                 *)

\* claim_process_row("synced", "analyzing"). Rows are taken oldest first, by
\* timestamps of one second: any row may be the oldest.
claim_synced_row(d) ==
  /\ apc = "idle" /\ dirState[d] = "synced"
  /\ dirState' = [dirState EXCEPT ![d] = "analyzing"]
  /\ adir' = d
  /\ apc' = "busy"
  /\ UNCHANGED <<env, dirId, stored, dirSeq, fileRows, main, walker, slots>>

AnalyzePublish ==
  /\ apc = "busy"
  /\ SetDirectoryState(dirId[adir], "analyzed")
  /\ adir' = None
  /\ apc' = "idle"
  /\ UNCHANGED <<env, dirId, stored, dirSeq, fileRows, main, walker, slots>>

\* set_directory_policy fails.
AnalyzeFault ==
  /\ apc = "busy"
  /\ faults < MaxFaults
  /\ faults' = faults + 1
  /\ \/ UNCHANGED dirState
     \/ SetDirectoryState(dirId[adir], "analyze_failed")
  /\ adir' = None
  /\ apc' = "halted"
  /\ UNCHANGED <<env, dirId, stored, dirSeq, fileRows, phase, walker, slots>>

\* Mistake: both pools are signalled together.
AnalyzeExitEarly ==
  /\ apc = "idle"
  /\ phase \in {"drain", "drainAnalyze"}
  /\ \A d \in Dirs : dirState[d] # "synced"
  /\ apc' = "exit"
  /\ UNCHANGED <<env, dirRows, fileRows, main, walker, slots, adir>>

AnalyzeExit ==
  /\ apc = "idle"
  /\ phase = "drainAnalyze"
  /\ \A d \in Dirs : dirState[d] # "synced"
  /\ apc' = "exit"
  /\ UNCHANGED <<env, dirRows, fileRows, main, walker, slots, adir>>
-----------------------------------------------------------------------------
(* Around the process.                                                     *)

\* A file appears on, disappears from, or is replaced on the remote.
RemoteChange(f) ==
  /\ changes < MaxChanges
  /\ changes' = changes + 1
  /\ \E c \in Copies \ {remote[f]} : remote' = [remote EXCEPT ![f] = c]
  /\ UNCHANGED <<disk, dirRows, fileRows, main, walker, slots, analyzer>>

\* More than the sweep's six hours go by.
HoursPass ==
  /\ old # {f \in Files : fileState[f] = "downloading"}
  /\ old' = {f \in Files : fileState[f] = "downloading"}
  /\ UNCHANGED <<env, dirRows, fileId, fileState, hash, fileSeq, main, walker, slots, analyzer>>

MainStep == Boot \/ StartRun \/ SignalDrain \/ JoinDownloaders \/ JoinAnalyze \/ Exit

WalkStep ==
  \/ \E d \in Dirs : WalkManifest(d) \/ WalkSkip(d)
  \/ WalkUpsert \/ WalkHashes \/ WalkFault \/ WalkDirDone
  \/ \E f \in Files : WalkRow(f)

SlotStep(s) ==
  \/ SlotExit(s) \/ claim_file(s) \/ ClaimLost(s) \/ DownloadOk(s) \/ DownloadErr(s)
  \/ set_file_synced(s) \/ try_complete_directory(s) \/ set_file_failed(s)
  \/ SlotPublish(s) \/ SlotFault(s)

AnalyzeStep ==
  \/ \E d \in Dirs : claim_synced_row(d)
  \/ AnalyzePublish \/ AnalyzeFault \/ AnalyzeExit

Next ==
  \/ MainStep \/ StartFault \/ Crash
  \/ WalkStep
  \/ \E s \in Slots : SlotStep(s)
  \/ AnalyzeStep
  \/ \E f \in Files : RemoteChange(f)
  \/ HoursPass

Spec == Init /\ [][Next]_vars

\* Every task that can take a step takes one in the end; runs are repeated by
\* the daemon loop or by cron, and time passes between them. Nothing is
\* assumed of crashes, failing calls and the remote.
FairSpec ==
  /\ Spec
  /\ WF_vars(MainStep) /\ WF_vars(WalkStep) /\ WF_vars(AnalyzeStep) /\ WF_vars(HoursPass)
  /\ \A s \in Slots : WF_vars(SlotStep(s))
-----------------------------------------------------------------------------
(* Properties.                                                             *)

\* The type of the state.
TypeOK ==
  /\ remote \in [Files -> Copies]
  /\ disk \in [Files -> Copies \cup {Torn}]
  /\ dirId \in [Dirs -> Nat] /\ dirState \in [Dirs -> DirectoryState]
  /\ stored \in [Files -> Copies]
  /\ fileId \in [Files -> Nat] /\ fileState \in [Files -> FileState]
  /\ old \subseteq Files
  /\ hash \in [Files -> Copies]
  /\ dirSeq \in Nat /\ fileSeq \in Nat
  /\ phase \in {"boot", "start", "walk", "drain", "drainAnalyze", "done"}
  /\ wpc \in {"off", "next", "upsert", "hash", "rows"}
  /\ wdir \in Dirs \cup {None} /\ seen \in [Files -> Copies]
  /\ rows \subseteq Files /\ todo \subseteq Dirs
  /\ spc \in [Slots -> {"off", "idle", "fetch", "landed", "broken", "settled",
                        "publish", "exit", "halted"}]
  /\ sfile \in [Slots -> Files \cup {None}]
  /\ apc \in {"off", "idle", "busy", "exit", "halted"}
  /\ adir \in Dirs \cup {None}
  /\ faults \in Nat /\ changes \in Nat

\* A file is downloaded by one slot at a time: no two slots hold the same row
\* (two writers of one staging file), and the row of a download under way
\* stays 'downloading', whatever the sweep, the backfill and the walker do.
ClaimExclusive ==
  \A s \in Slots :
    /\ spc[s] \in {"fetch", "landed", "broken"} => fileState[sfile[s]] = "downloading"
    /\ \A t \in Slots : sfile[s] # None /\ sfile[s] = sfile[t] => s = t

\* A file marked synced holds, on disk, exactly the bytes whose fingerprint is
\* recorded, unless it is empty; across crashes, torn copies, remote changes
\* and the later walks that leave its row alone.
SyncedIsVerified ==
  \A f \in Files :
    fileState[f] = "synced" =>
      \/ disk[f] = hash[f]
      \/ Empty # {} /\ disk[f] \in Empty \cup {None}

\* Fingerprints and file rows go together: the walker records them in two
\* calls and later walks skip a fingerprinted file, so one without a row is
\* never downloaded. Without faults the walker still holds it; whatever has
\* failed before, the backfill of the next open leaves none behind.
FingerprintsTracked ==
  \A f \in Files :
    /\ fileId[f] # 0 => hash[f] # None
    /\ phase = "start" \/ faults = 0 => (hash[f] # None => fileId[f] # 0 \/ f \in rows)

\* When drain_pool returns Ok no file is left to claim, although slots exit
\* one by one while others still work and move directory rows.
DrainedPool == phase \in {"drainAnalyze", "done"} => Eligible = {}

\* The cascade drains upstream first: a finished run leaves no directory
\* waiting for the analyze pool.
CascadeComplete == phase = "done" => \A d \in Dirs : dirState[d] # "synced"

\* The pipeline's rows implement the file queue of module FileQueue.
Queue == INSTANCE FileQueue WITH
           Workers <- Slots,
           state <- fileState,
           holds <- [s \in Slots |-> IF spc[s] \in {"fetch", "landed", "broken"}
                                    THEN sfile[s] ELSE None]

\* Every behaviour of the pipeline is one of the queue: only the slot that
\* holds a row settles it, a verdict is final, orphans go back only when no
\* slot is working. (A failed file is not queued again by a later walk, unlike the
\* program's README.md:125 has it.)
QueueSpec == Queue!QSpec

\* A run that has started comes to its end, or its process does.
RunEnds == phase = "walk" ~> phase \in {"done", "boot"}

\* A row left 'downloading' by a dead process is handed out again, as long as
\* its directory is still to be downloaded.
OrphanRecovered ==
  \A f \in Files :
    fileState[f] = "downloading" /\ dirState[DirOf[f]] = "detected"
      ~> fileState[f] # "downloading" \/ dirState[DirOf[f]] # "detected"

\* No claimable file waits for ever, behind others or behind a crash.
EligibleServed == \A f \in Files : f \in Eligible ~> f \notin Eligible

\* README.md:128: a directory leaves 'detected' for 'synced' when its files
\* are all done.
OnlyCompletionSyncs ==
  [][\A d \in Dirs : dirState[d] = "detected" /\ dirState'[d] = "synced"
       => \A f \in FilesOf(d) : Settled(f)]_vars
=============================================================================
