------------------------------- MODULE Schema -------------------------------
(***************************************************************************)
(* Database::open, init_schema of db.rs: a database of any earlier version *)
(* of the program is brought to the schema of this one, statement after    *)
(* statement, and the process may end between two of them. The rebuilds of *)
(* `directories` are transactions, every other statement commits alone.    *)
(* Between two opens the program works on the tables.                      *)
(*                                                                         *)
(* The columns and tables are those some statement of the program or of a  *)
(* later migration tests or needs; indexes are left out. A directory has   *)
(* fingerprints or not, and rows in file_downloads for them or not.        *)
(***************************************************************************)
EXTENDS Naturals, Sequences

CONSTANTS Dirs,     \* the directories
          Absent,   \* "no row"
          MaxStops  \* bound on the times an open is cut short

VARIABLES
  check,     \* the CHECK of directories.state: a key of Allowed
  syncing_at, \* directories has that column
  tables,    \* how many of Tables exist
  obsolete,  \* how many of the obsolete columns of `files` are left
  state,     \* state[d]: the row of d, or Absent
  hashed,    \* directories with rows in file_hashes
  tracked,   \* directories whose fingerprints have their rows in file_downloads
  pc,        \* "closed", the next statement of init_schema, or "open"
  origin,    \* state[d] as an earlier version left it, or this one at work
  stops

schema   == <<check, syncing_at, tables, obsolete>>
children == <<hashed, tracked>>
vars     == <<schema, state, children, pc, origin, stops>>

\* The tables beside directories, in the order they are created.
Tables == <<"files", "metadata_cache", "file_hashes", "file_downloads">>

Phases == {"detected", "syncing", "synced", "analyzing", "analyzed",
           "renaming", "renamed", "moving", "in_library"}

PhaseFailures == {"sync_failed", "analyze_failed", "rename_failed", "move_failed"}

Transcode == {"transcoding", "transcoded"}

\* What the CHECK of each version allows. "none": no table yet.
Allowed ==
  [none    |-> {},
   single  |-> Phases \cup Transcode \cup {"failed"},
   phases  |-> Phases \cup Transcode \cup PhaseFailures \cup {"transcode_failed"},
   current |-> Phases \cup PhaseFailures]

ASSUME SchemaAssumption ==
  /\ MaxStops \in Nat
  /\ \A version \in DOMAIN Allowed : Absent \notin Allowed[version]

Rows == {d \in Dirs : state[d] # Absent}

Obsolete == 4  \* transcode_policy, transcode_status, needs_transcode, final_name

Init ==
  /\ check \in {"none", "single", "phases", "current"}
  /\ state \in [Dirs -> Allowed[check] \cup {Absent}]
  /\ syncing_at \in (IF check = "phases" THEN BOOLEAN ELSE {check = "current"})
  /\ tables \in (IF check = "none" THEN {0} ELSE 1..Len(Tables))
  /\ obsolete \in (IF check \in {"single", "phases"} THEN {Obsolete} ELSE {0})
  /\ hashed \in (IF tables >= 3 THEN SUBSET Rows ELSE {{}})
  /\ tracked \in (IF tables >= 4 THEN SUBSET hashed ELSE {{}})
  /\ pc = "closed"
  /\ origin = state
  /\ stops = 0
-----------------------------------------------------------------------------
(* init_schema.                                                            *)

Open ==
  /\ pc = "closed"
  /\ pc' = "migrate"
  /\ UNCHANGED <<schema, state, children, origin, stops>>

\* The rows go, with their `new` states, into a new table, which takes the place of
\* the old one. A row the new CHECK refuses ends the open, and the transaction is undone.
\* Foreign keys are on in the SQLite that is bundled: DROP TABLE first deletes the
\* rows, and the tables that refer to them are emptied by their ON DELETE CASCADE.
Rebuild(new, next) ==
  IF \A d \in Rows : new[d] \in Allowed["current"]
  THEN /\ state' = new
       /\ check' = "current" /\ syncing_at' = TRUE
       /\ hashed' = {} /\ tracked' = {}
       /\ pc' = next
       /\ UNCHANGED <<tables, obsolete>>
  ELSE pc' = "closed" /\ UNCHANGED <<schema, state, children>>

FailedToDetected(s) == IF s = "failed" THEN "detected" ELSE s

TranscodeToRenamed(s) ==
  IF s \in Transcode \cup {"transcode_failed"} THEN "renamed" ELSE s

\* Mistake: no transaction; the process ends when the old table is gone.
MigrateUncommitted ==
  /\ pc = "migrate"
  /\ IF check = "single"
     THEN \/ Rebuild([d \in Dirs |-> FailedToDetected(state[d])], "transcode")
          \/ /\ check' = "none" /\ syncing_at' = FALSE
             /\ state' = [d \in Dirs |-> Absent]
             /\ hashed' = {} /\ tracked' = {}
             /\ pc' = "closed"
             /\ UNCHANGED <<tables, obsolete>>
     ELSE pc' = "transcode" /\ UNCHANGED <<schema, state, children>>
  /\ UNCHANGED <<origin, stops>>

\* The one `failed` state of the oldest schema gives way to one per phase.
MigrateFailed ==
  /\ pc = "migrate"
  /\ IF check = "single"
     THEN Rebuild([d \in Dirs |-> FailedToDetected(state[d])], "transcode")
     ELSE pc' = "transcode" /\ UNCHANGED <<schema, state, children>>
  /\ UNCHANGED <<origin, stops>>

\* Mistake: the CASE has no arm for transcode_failed.
RemoveTranscodeButFailed ==
  /\ pc = "transcode"
  /\ IF check = "phases"
     THEN Rebuild([d \in Dirs |-> IF state[d] \in Transcode THEN "renamed" ELSE state[d]],
                  "directories")
     ELSE pc' = "directories" /\ UNCHANGED <<schema, state, children>>
  /\ UNCHANGED <<origin, stops>>

\* The transcode states go.
RemoveTranscode ==
  /\ pc = "transcode"
  /\ IF check = "phases"
     THEN Rebuild([d \in Dirs |-> TranscodeToRenamed(state[d])], "directories")
     ELSE pc' = "directories" /\ UNCHANGED <<schema, state, children>>
  /\ UNCHANGED <<origin, stops>>

CreateDirectories ==
  /\ pc = "directories"
  /\ check' = (IF check = "none" THEN "current" ELSE check)
  /\ syncing_at' = (check = "none" \/ syncing_at)
  /\ pc' = "files"
  /\ UNCHANGED <<tables, obsolete, state, children, origin, stops>>

\* CREATE TABLE IF NOT EXISTS.
Create(i, next) ==
  /\ pc = Tables[i]
  /\ tables' = IF tables < i THEN i ELSE tables
  /\ pc' = next
  /\ UNCHANGED <<check, syncing_at, obsolete, state, children, origin, stops>>

\* Every version with the column missing has just been rebuilt, so that this adds
\* nothing any more.
AddSyncingAt ==
  /\ pc = "syncing_at"
  /\ syncing_at' = TRUE
  /\ pc' = "columns"
  /\ UNCHANGED <<check, tables, obsolete, state, children, origin, stops>>

\* Mistake: the loop ends with the first column that was there.
DropFirstColumn ==
  /\ pc = "columns"
  /\ obsolete' = IF obsolete = 0 THEN 0 ELSE obsolete - 1
  /\ pc' = "metadata_cache"
  /\ UNCHANGED <<check, syncing_at, tables, state, children, origin, stops>>

\* One ALTER TABLE per column.
DropColumn ==
  /\ pc = "columns"
  /\ obsolete' = IF obsolete = 0 THEN 0 ELSE obsolete - 1
  /\ pc' = IF obsolete' = 0 THEN "metadata_cache" ELSE "columns"
  /\ UNCHANGED <<check, syncing_at, tables, state, children, origin, stops>>

\* Mistake: the rows are filled in for every directory that is known, or was.
BackfillUnjoined ==
  /\ pc = "backfill"
  /\ tracked' = Dirs
  /\ pc' = "open"
  /\ UNCHANGED <<schema, state, hashed, origin, stops>>

\* Every fingerprint gets its row in file_downloads.
Backfill ==
  /\ pc = "backfill"
  /\ tracked' = tracked \cup (hashed \cap Rows)
  /\ pc' = "open"
  /\ UNCHANGED <<schema, state, hashed, origin, stops>>

\* The process ends: during the open (a failing statement has the same effect), or
\* after it.
Stop ==
  /\ pc # "closed" /\ pc' = "closed"
  /\ IF pc = "open" THEN UNCHANGED stops ELSE stops < MaxStops /\ stops' = stops + 1
  /\ UNCHANGED <<schema, state, children, origin>>
-----------------------------------------------------------------------------
(* The program at work.                                                    *)

upsert_directory(d) ==
  /\ pc = "open" /\ state[d] = Absent
  /\ state' = [state EXCEPT ![d] = "detected"]
  /\ origin' = state'
  /\ UNCHANGED <<schema, children, pc, stops>>

set_directory_state(d) ==
  /\ pc = "open" /\ d \in Rows
  /\ \E s \in Allowed[check] : state' = [state EXCEPT ![d] = s]
  /\ origin' = state'
  /\ UNCHANGED <<schema, children, pc, stops>>

append_file_hashes(d) ==
  /\ pc = "open" /\ d \in Rows
  /\ hashed' = hashed \cup {d}
  /\ tracked' = tracked \ {d}   \* until the rows are written, or the next open
  /\ UNCHANGED <<schema, state, pc, origin, stops>>

upsert_file_downloads_row(d) ==
  /\ pc = "open" /\ d \in hashed
  /\ tracked' = tracked \cup {d}
  /\ UNCHANGED <<schema, state, hashed, pc, origin, stops>>

init_schema ==
  \/ Open \/ MigrateFailed \/ RemoveTranscode \/ CreateDirectories
  \/ Create(1, "syncing_at") \/ AddSyncingAt \/ DropColumn
  \/ Create(2, "file_hashes") \/ Create(3, "file_downloads") \/ Create(4, "backfill")
  \/ Backfill

Work(d) ==
  \/ upsert_directory(d) \/ set_directory_state(d)
  \/ append_file_hashes(d) \/ upsert_file_downloads_row(d)

Next == init_schema \/ Stop \/ \E d \in Dirs : Work(d)

Spec == Init /\ [][Next]_vars

\* The timer of systemd starts the program again.
FairSpec == Spec /\ WF_vars(init_schema)
-----------------------------------------------------------------------------
TypeOK ==
  /\ check \in {"none", "single", "phases", "current"}
  /\ syncing_at \in BOOLEAN
  /\ tables \in 0..Len(Tables) /\ obsolete \in 0..Obsolete
  /\ state \in [Dirs -> Allowed[check] \cup {Absent}]
  /\ hashed \subseteq Rows /\ tracked \subseteq hashed
  /\ pc \in {"closed", "migrate", "transcode", "directories", "files", "syncing_at",
             "columns", "metadata_cache", "file_hashes", "file_downloads", "backfill",
             "open"}
  /\ stops \in 0..MaxStops

\* What an upgrade makes of a row.
Upgraded(s) ==
  IF s = Absent THEN Absent ELSE TranscodeToRenamed(FailedToDetected(s))

\* An upgrade loses no directory and changes no state but those that have gone from
\* the schema, wherever it is cut short and however often it is begun again.
RowsKept ==
  /\ \A d \in Dirs : state[d] \in {origin[d], Upgraded(origin[d])}
  /\ pc = "open" => \A d \in Dirs : state[d] = Upgraded(origin[d])

\* The program only works on a database that has every column and table its
\* statements name, whichever version it comes from.
CurrentWhenOpen ==
  pc = "open" => check = "current" /\ syncing_at /\ tables = Len(Tables) /\ obsolete = 0

\* The oldest schema had rows the first rebuild has no place for.
Refused == check = "single" /\ \E d \in Dirs : state[d] \in Transcode

\* A database of any version can be opened, in the end; except one of the oldest with
\* a directory in transcoding or transcoded: there every open fails in the same way.
OpenEnds == pc = "closed" ~> pc = "open" \/ Refused
=============================================================================
