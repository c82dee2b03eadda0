--------------------------- MODULE Schema_proofs ----------------------------
(***************************************************************************)
(* Proofs about Schema: an upgrade keeps every directory, and the program  *)
(* only works on a database of its own version, for any directories and    *)
(* however often an open is cut short.                                     *)
(***************************************************************************)
EXTENDS Schema, TLAPS

\* The statements that come after the one that creates directories.
AfterDirectories ==
  {"files", "syncing_at", "columns", "metadata_cache", "file_hashes", "file_downloads",
   "backfill", "open"}

\* What the statements before the next one have achieved.
Progress ==
  /\ check = "current" => syncing_at = TRUE
  /\ pc = "transcode" => check # "single"
  /\ pc = "directories" => check \in {"none", "current"}
  /\ pc \in AfterDirectories => check = "current"
  /\ pc \in AfterDirectories \ {"files"} => tables >= 1
  /\ pc \in {"metadata_cache", "file_hashes", "file_downloads", "backfill", "open"}
       => obsolete = 0
  /\ pc \in {"file_hashes", "file_downloads", "backfill", "open"} => tables >= 2
  /\ pc \in {"file_downloads", "backfill", "open"} => tables >= 3
  /\ pc \in {"backfill", "open"} => tables >= 4

\* A row is as it was, or upgraded.
Kept == \A d \in Dirs : state[d] \in {origin[d], Upgraded(origin[d])}

IInv == TypeOK /\ Progress /\ Kept
-----------------------------------------------------------------------------
(* Facts about the definitions.                                            *)

LEMMA Versions ==
  /\ DOMAIN Allowed = {"none", "single", "phases", "current"}
  /\ Allowed["none"] = {}
  /\ Allowed["single"] = Phases \cup Transcode \cup {"failed"}
  /\ Allowed["phases"] = Phases \cup Transcode \cup PhaseFailures \cup {"transcode_failed"}
  /\ Allowed["current"] = Phases \cup PhaseFailures
BY DEF Allowed

LEMMA NeverAbsent == \A version \in DOMAIN Allowed : Absent \notin Allowed[version]
BY SchemaAssumption

\* A state of the current version is left alone by an upgrade.
LEMMA CurrentIsUpgraded ==
  ASSUME NEW s \in Allowed["current"] \cup {Absent} PROVE Upgraded(s) = s
BY Versions DEF Upgraded, FailedToDetected, TranscodeToRenamed, Phases, PhaseFailures, Transcode

\* Upgrading twice is upgrading once.
LEMMA UpgradedTwice == \A s : Upgraded(Upgraded(s)) = Upgraded(s)
BY Versions, NeverAbsent
   DEF Upgraded, FailedToDetected, TranscodeToRenamed, Transcode, Phases, PhaseFailures

\* No upgrade makes a row disappear.
LEMMA UpgradedAbsent == \A s : Upgraded(s) = Absent => s = Absent
BY Versions, NeverAbsent
   DEF Upgraded, FailedToDetected, TranscodeToRenamed, Transcode, Phases, PhaseFailures
\* Neither rebuild takes a missing row for one it has to change.
LEMMA AbsentStays == FailedToDetected(Absent) = Absent /\ TranscodeToRenamed(Absent) = Absent
BY Versions, NeverAbsent DEF FailedToDetected, TranscodeToRenamed, Transcode
-----------------------------------------------------------------------------
(* Each statement.                                                         *)

LEMMA MigrateStep == ASSUME IInv, MigrateFailed PROVE IInv'
<1> USE DEF IInv, MigrateFailed, schema, children
<1>1. CASE check # "single"
  <2>1. TypeOK' BY <1>1 DEF TypeOK, Rows
  <2>2. Progress' BY <1>1 DEF Progress, AfterDirectories
  <2>3. Kept' BY <1>1 DEF Kept
  <2> QED BY <2>1, <2>2, <2>3
<1>2. CASE check = "single" /\ pc' = "closed"
  <2>1. UNCHANGED <<schema, state, children>>
    BY <1>2 DEF Rebuild
  <2>2. TypeOK' BY <1>2, <2>1 DEF TypeOK, Rows
  <2>3. Progress' BY <1>2, <2>1 DEF Progress, AfterDirectories
  <2>4. Kept' BY <2>1 DEF Kept
  <2> QED BY <2>2, <2>3, <2>4
<1>3. CASE check = "single" /\ pc' # "closed"
  <2> DEFINE new == [d \in Dirs |-> FailedToDetected(state[d])]
  <2>1. /\ \A d \in Rows : new[d] \in Allowed["current"]
        /\ state' = new /\ check' = "current" /\ syncing_at' = TRUE
        /\ hashed' = {} /\ tracked' = {} /\ pc' = "transcode"
        /\ UNCHANGED <<tables, obsolete, origin, stops>>
    BY <1>3 DEF Rebuild
  <2>2. \A d \in Dirs : new[d] \in Allowed["current"] \cup {Absent}
    BY <2>1, Versions, NeverAbsent DEF Rows, FailedToDetected
  <2>3. TypeOK' BY <2>1, <2>2 DEF TypeOK, Rows
  <2>4. Progress' BY <2>1 DEF Progress, AfterDirectories
  <2>5. Kept'
    <3> SUFFICES ASSUME NEW d \in Dirs PROVE state'[d] \in {origin[d], Upgraded(origin[d])}
      BY <2>1 DEF Kept
    <3>1. new[d] = Upgraded(state[d])
      BY <2>1, <2>2, Versions, AbsentStays
         DEF Upgraded, TranscodeToRenamed, FailedToDetected, Transcode, Phases, PhaseFailures
    <3>2. state[d] \in {origin[d], Upgraded(origin[d])} BY DEF Kept
    <3> QED BY <2>1, <3>1, <3>2, UpgradedTwice
  <2> QED BY <2>3, <2>4, <2>5
<1> QED BY <1>1, <1>2, <1>3

LEMMA TranscodeStep == ASSUME IInv, RemoveTranscode PROVE IInv'
<1> USE DEF IInv, RemoveTranscode, schema, children
<1>1. CASE check # "phases"
  <2>1. TypeOK' BY <1>1 DEF TypeOK, Rows
  <2>2. Progress' BY <1>1 DEF Progress, AfterDirectories, TypeOK
  <2>3. Kept' BY <1>1 DEF Kept
  <2> QED BY <2>1, <2>2, <2>3
<1>2. CASE check = "phases" /\ pc' = "closed"
  <2>1. UNCHANGED <<schema, state, children>>
    BY <1>2 DEF Rebuild
  <2>2. TypeOK' BY <1>2, <2>1 DEF TypeOK, Rows
  <2>3. Progress' BY <1>2, <2>1 DEF Progress, AfterDirectories
  <2>4. Kept' BY <2>1 DEF Kept
  <2> QED BY <2>2, <2>3, <2>4
<1>3. CASE check = "phases" /\ pc' # "closed"
  <2> DEFINE new == [d \in Dirs |-> TranscodeToRenamed(state[d])]
  <2>1. /\ \A d \in Rows : new[d] \in Allowed["current"]
        /\ state' = new /\ check' = "current" /\ syncing_at' = TRUE
        /\ hashed' = {} /\ tracked' = {} /\ pc' = "directories"
        /\ UNCHANGED <<tables, obsolete, origin, stops>>
    BY <1>3 DEF Rebuild
  <2>2. \A d \in Dirs : new[d] \in Allowed["current"] \cup {Absent}
    BY <2>1, Versions, NeverAbsent DEF Rows, TranscodeToRenamed, Transcode
  <2>3. TypeOK' BY <2>1, <2>2 DEF TypeOK, Rows
  <2>4. Progress' BY <2>1 DEF Progress, AfterDirectories
  <2>5. Kept'
    <3> SUFFICES ASSUME NEW d \in Dirs PROVE state'[d] \in {origin[d], Upgraded(origin[d])}
      BY <2>1 DEF Kept
    <3>1. state[d] \in Allowed["phases"] \cup {Absent} BY <1>3 DEF TypeOK
    <3>2. new[d] = Upgraded(state[d])
      BY <3>1, Versions, AbsentStays
         DEF Upgraded, TranscodeToRenamed, FailedToDetected, Transcode, Phases, PhaseFailures
    <3>3. state[d] \in {origin[d], Upgraded(origin[d])} BY DEF Kept
    <3> QED BY <2>1, <3>2, <3>3, UpgradedTwice
  <2> QED BY <2>3, <2>4, <2>5
<1> QED BY <1>1, <1>2, <1>3

\* Every other statement of init_schema, and the end of the process, keep the rows.
LEMMA StatementStep ==
  ASSUME IInv,
         \/ Open \/ CreateDirectories \/ AddSyncingAt \/ DropColumn \/ Backfill \/ Stop
         \/ Create(1, "syncing_at") \/ Create(2, "file_hashes")
         \/ Create(3, "file_downloads") \/ Create(4, "backfill")
  PROVE  IInv'
<1> USE DEF IInv, schema, children
<1>1. state' = state /\ origin' = origin
  BY DEF Open, CreateDirectories, AddSyncingAt, DropColumn, Backfill, Stop, Create
<1>2. Kept' BY <1>1 DEF Kept
<1>3. Rows' = Rows BY <1>1 DEF Rows
<1>4. CASE Open
  BY <1>1, <1>2, <1>3, <1>4 DEF Open, TypeOK, Progress, AfterDirectories
<1>5. CASE CreateDirectories
  <2>1. TypeOK'
    BY <1>1, <1>3, <1>5, Versions DEF CreateDirectories, TypeOK, Progress
  <2>2. Progress'
    BY <1>1, <1>3, <1>5 DEF CreateDirectories, TypeOK, Progress, AfterDirectories
  <2> QED BY <1>2, <2>1, <2>2
<1>6. CASE AddSyncingAt
  BY <1>1, <1>2, <1>3, <1>6 DEF AddSyncingAt, TypeOK, Progress, AfterDirectories
<1>7. CASE DropColumn
  BY <1>1, <1>2, <1>3, <1>7 DEF DropColumn, TypeOK, Progress, AfterDirectories, Obsolete
<1>8. CASE Backfill
  BY <1>1, <1>2, <1>3, <1>8 DEF Backfill, TypeOK, Progress, AfterDirectories
<1>9. CASE Stop
  BY <1>1, <1>2, <1>3, <1>9, SchemaAssumption DEF Stop, TypeOK, Progress, AfterDirectories
<1>10. Len(Tables) = 4 /\ Tables[1] = "files" /\ Tables[2] = "metadata_cache"
       /\ Tables[3] = "file_hashes" /\ Tables[4] = "file_downloads"
  BY DEF Tables
<1>11. CASE \/ Create(1, "syncing_at") \/ Create(2, "file_hashes")
            \/ Create(3, "file_downloads") \/ Create(4, "backfill")
  BY <1>1, <1>2, <1>3, <1>10, <1>11 DEF Create, TypeOK, Progress, AfterDirectories
<1> QED BY <1>4, <1>5, <1>6, <1>7, <1>8, <1>9, <1>11

\* What the program does while the database is open.
LEMMA WorkStep == ASSUME IInv, NEW d \in Dirs, Work(d) PROVE IInv'
<1> USE DEF IInv, schema, children
<1>1. pc = "open" /\ check = "current"
  BY DEF Work, upsert_directory, set_directory_state, append_file_hashes,
         upsert_file_downloads_row, Progress, AfterDirectories
<1>2. Progress'
  BY DEF Work, upsert_directory, set_directory_state, append_file_hashes,
         upsert_file_downloads_row, Progress
<1>3. CASE upsert_directory(d)
  <2>1. "detected" \in Allowed["current"] BY Versions DEF Phases
  <2>2. Rows' = Rows \cup {d} BY <1>3, <2>1, NeverAbsent, Versions DEF upsert_directory, Rows, TypeOK
  <2>3. TypeOK' BY <1>1, <1>3, <2>1, <2>2 DEF upsert_directory, TypeOK
  <2>4. Kept' BY <1>3 DEF upsert_directory, Kept
  <2> QED BY <1>2, <2>3, <2>4
<1>4. CASE set_directory_state(d)
  <2>1. PICK s \in Allowed["current"] : state' = [state EXCEPT ![d] = s]
    BY <1>1, <1>4 DEF set_directory_state
  <2>2. s # Absent BY <2>1, NeverAbsent, Versions
  <2>3. Rows' = Rows BY <1>4, <2>1, <2>2 DEF set_directory_state, Rows, TypeOK
  <2>4. TypeOK' BY <1>1, <1>4, <2>1, <2>3 DEF set_directory_state, TypeOK
  <2>5. Kept' BY <1>4 DEF set_directory_state, Kept
  <2> QED BY <1>2, <2>4, <2>5
<1>5. CASE append_file_hashes(d) \/ upsert_file_downloads_row(d)
  <2>1. state' = state /\ origin' = origin
    BY <1>5 DEF append_file_hashes, upsert_file_downloads_row
  <2>2. Rows' = Rows BY <2>1 DEF Rows
  <2>3. TypeOK'
    BY <1>5, <2>1, <2>2 DEF append_file_hashes, upsert_file_downloads_row, TypeOK
  <2>4. Kept' BY <2>1 DEF Kept
  <2> QED BY <1>2, <2>3, <2>4
<1> QED BY <1>3, <1>4, <1>5 DEF Work

LEMMA Inductive == Spec => []IInv
<1>1. Init => IInv
  <2> SUFFICES ASSUME Init PROVE IInv
    OBVIOUS
  <2>1. TypeOK
    <3>1. Len(Tables) = 4 BY DEF Tables
    <3>2. tables \in 0..Len(Tables) BY <3>1 DEF Init
    <3>3. hashed \subseteq Rows BY DEF Init
    <3>4. tracked \subseteq hashed BY DEF Init
    <3>5. obsolete \in 0..Obsolete BY DEF Init, Obsolete
    <3>8. syncing_at \in BOOLEAN
      <4>1. CASE check = "phases" BY <4>1, Zenon DEF Init
      <4>2. CASE check # "phases"
        <5>1. syncing_at = (check = "current") BY <4>2, Zenon DEF Init
        <5> QED BY <5>1
      <4> QED BY <4>1, <4>2
    <3>6. stops \in 0..MaxStops BY SchemaAssumption DEF Init
    <3>7. /\ check \in {"none", "single", "phases", "current"} /\ pc = "closed"
          /\ state \in [Dirs -> Allowed[check] \cup {Absent}]
      BY DEF Init
    <3> QED BY <3>2, <3>3, <3>4, <3>5, <3>6, <3>7, <3>8 DEF TypeOK
  <2>2. Progress BY DEF Init, Progress, AfterDirectories
  <2>3. Kept BY DEF Init, Kept
  <2> QED BY <2>1, <2>2, <2>3 DEF IInv
<1>2. IInv /\ [Next]_vars => IInv'
  <2> SUFFICES ASSUME IInv, [Next]_vars PROVE IInv'
    OBVIOUS
  <2>1. CASE init_schema
    BY <2>1, MigrateStep, TranscodeStep, StatementStep DEF init_schema
  <2>2. CASE Stop BY <2>2, StatementStep
  <2>3. CASE \E d \in Dirs : Work(d) BY <2>3, WorkStep
  <2>4. CASE UNCHANGED vars
    <3>1. TypeOK' BY <2>4 DEF vars, schema, children, IInv, TypeOK, Rows
    <3>2. Progress' BY <2>4 DEF vars, schema, children, IInv, Progress
    <3>3. Kept' BY <2>4 DEF vars, IInv, Kept
    <3> QED BY <3>1, <3>2, <3>3 DEF IInv
  <2> QED BY <2>1, <2>2, <2>3, <2>4 DEF Next
<1> QED BY <1>1, <1>2, PTL DEF Spec

\* The database and the open are well typed at every moment: init_schema of db.rs.
THEOREM TypeCorrect == Spec => []TypeOK
<1>1. IInv => TypeOK BY DEF IInv
<1> QED BY <1>1, Inductive, PTL

\* init_schema works its way to the schema of this version before the program starts.
THEOREM WorksOnCurrent == Spec => []CurrentWhenOpen
<1>1. IInv => CurrentWhenOpen
  BY DEF IInv, TypeOK, Progress, AfterDirectories, CurrentWhenOpen, Tables
<1> QED BY <1>1, Inductive, PTL

\* The rebuilds of init_schema lose no directory, wherever they are cut short.
THEOREM RowsAreKept == Spec => []RowsKept
<1>1. IInv => RowsKept
  <2> SUFFICES ASSUME IInv PROVE RowsKept
    OBVIOUS
  <2>1. ASSUME pc = "open", NEW d \in Dirs PROVE state[d] = Upgraded(origin[d])
    <3>1. state[d] \in Allowed["current"] \cup {Absent}
      BY <2>1 DEF IInv, TypeOK, Progress, AfterDirectories
    <3> QED BY <3>1, CurrentIsUpgraded DEF IInv, Kept
  <2> QED BY <2>1 DEF IInv, Kept, RowsKept
<1> QED BY <1>1, Inductive, PTL
=============================================================================
