-------------------------- MODULE MediaSync_proofs --------------------------
(* Theorems about MediaSync, for every value of its constants.             *)
EXTENDS MediaSync, TLAPS, FiniteSetTheorems

USE DEF Copies, DirectoryState, FileState

\* Every reachable state is well-typed.
LEMMA InitTypeOK == Init => TypeOK
BY ConstantsAssumption DEF Init, TypeOK, NothingSeen

\* The rows the backfill adds get natural numbers for ids.
LEMMA BootTypeOK == TypeOK /\ Boot => TypeOK'
<1> SUFFICES ASSUME TypeOK, Boot PROVE TypeOK'
  OBVIOUS
<1> DEFINE F == {f \in Files : hash[f] # None /\ fileId[f] = 0}
           n == Cardinality(F)
<1>1. n \in Nat
  BY ConstantsAssumption, FS_Subset, FS_CardinalityType
<1>2. PICK ids \in [F -> (fileSeq + 1)..(fileSeq + n)] :
        fileId' = [f \in Files |-> IF f \in F THEN ids[f] ELSE fileId[f]]
  BY DEF Boot
<1>3. fileId' \in [Files -> Nat] /\ fileSeq' \in Nat
  <2> HIDE DEF n
  <2>1. fileSeq' = fileSeq + n
    BY DEF Boot, n
  <2>2. \A f \in F : ids[f] \in Nat
    BY <1>1, <1>2 DEF TypeOK
  <2> QED
    BY <1>1, <1>2, <2>1, <2>2 DEF TypeOK
<1>4. fileState' \in [Files -> FileState]
  BY DEF Boot, TypeOK
<1> QED
  BY <1>3, <1>4 DEF Boot, TypeOK, env, dirRows, walker, slots, analyzer

LEMMA ProcessEndsTypes ==
  ASSUME ProcessEnds
  PROVE  /\ phase' = "boot" /\ spc' = [s \in Slots |-> "off"]
         /\ sfile' \in [Slots -> Files \cup {None}]
         /\ wpc' = "off" /\ wdir' = None /\ seen' \in [Files -> Copies]
         /\ rows' = {} /\ todo' = {} /\ apc' = "off" /\ adir' = None
BY DEF ProcessEnds, NothingSeen

LEMMA MainTypeOK == TypeOK /\ (MainStep \/ StartFault \/ Crash) => TypeOK'
<1> SUFFICES ASSUME TypeOK, MainStep \/ StartFault \/ Crash PROVE TypeOK'
  OBVIOUS
<1>1. CASE Boot
  BY <1>1, BootTypeOK
<1>2. CASE StartRun
  BY <1>2 DEF StartRun, stale_file_sweep, TypeOK, env, dirRows
<1>3. CASE SignalDrain
  BY <1>3 DEF SignalDrain, TypeOK, env, dirRows, fileRows, slots, analyzer
<1>4. CASE JoinDownloaders
  BY <1>4, ProcessEndsTypes
     DEF JoinDownloaders, TypeOK, env, dirRows, fileRows, walker, slots, analyzer
<1>5. CASE JoinAnalyze
  BY <1>5, ProcessEndsTypes
     DEF JoinAnalyze, TypeOK, env, dirRows, fileRows, walker, slots, analyzer
<1>6. CASE Exit
  BY <1>6, ProcessEndsTypes DEF Exit, TypeOK, env, dirRows, fileRows
<1>7. CASE StartFault
  BY <1>7, ProcessEndsTypes DEF StartFault, stale_file_sweep, TypeOK, env, dirRows
<1>8. CASE Crash
  <2>1. disk' \in [Files -> Copies \cup {Torn}]
    BY <1>8 DEF Crash, TypeOK, Empty
  <2> QED
    BY <1>8, <2>1, ProcessEndsTypes DEF Crash, TypeOK, dirRows, fileRows
<1> QED
  BY <1>1, <1>2, <1>3, <1>4, <1>5, <1>6, <1>7, <1>8 DEF MainStep

\* A walk never invents a state.
LEMMA ResetStateType ==
  ASSUME NEW st \in DirectoryState, NEW changed \in BOOLEAN
  PROVE  /\ ResetState(st, changed) \in DirectoryState
         /\ ~changed /\ st \notin {"sync_failed", "analyze_failed"}
              => ResetState(st, changed) = st
BY DEF ResetState, reset_state_for_failed

LEMMA WalkTypeOK == TypeOK /\ WalkStep => TypeOK'
<1> SUFFICES ASSUME TypeOK, WalkStep PROVE TypeOK'
  OBVIOUS
<1>1. ASSUME NEW d \in Dirs, WalkManifest(d) PROVE TypeOK'
  BY <1>1 DEF WalkManifest, TypeOK, env, dirRows, fileRows, main, slots, analyzer
<1>2. ASSUME NEW d \in Dirs, WalkSkip(d) PROVE TypeOK'
  BY <1>2 DEF WalkSkip, TypeOK, env, dirRows, fileRows, main, slots, analyzer
<1>3. CASE WalkUpsert
  <2>1. dirState' \in [Dirs -> DirectoryState]
    <3> DEFINE c == \E f \in FilesOf(wdir) : stored[f] # seen[f]
    <3>1. c \in BOOLEAN
      OBVIOUS
    <3>2. dirState' \in {[dirState EXCEPT ![wdir] = "detected"],
                         [dirState EXCEPT ![wdir] = ResetState(dirState[wdir], c)]}
      BY <1>3 DEF WalkUpsert, upsert_directory
    <3> HIDE DEF c
    <3>3. wdir \in Dirs => ResetState(dirState[wdir], c) \in DirectoryState
      BY <3>1, ResetStateType DEF TypeOK
    <3> QED
      BY <3>2, <3>3 DEF TypeOK
  <2> QED
    <3>1. dirId' \in [Dirs -> Nat] /\ dirSeq' \in Nat
      <4>1. /\ dirId' \in {dirId, [dirId EXCEPT ![wdir] = dirSeq + 1]}
            /\ dirSeq' \in {dirSeq, dirSeq + 1}
        BY <1>3 DEF WalkUpsert, upsert_directory, Burn
      <4> QED
        BY <4>1 DEF TypeOK
    <3>2. stored' \in [Files -> Copies]
      BY <1>3 DEF WalkUpsert, upsert_directory, TypeOK
    <3> QED
      BY <1>3, <2>1, <3>1, <3>2 DEF WalkUpsert, TypeOK, env, fileRows, main, slots, analyzer
<1>4. CASE WalkHashes
  <2>1. hash' \in [Files -> Copies] /\ rows' \subseteq Files
    BY <1>4 DEF WalkHashes, collect_remote_hashes, TypeOK, FilesOf
  <2> QED
    BY <1>4, <2>1 DEF WalkHashes, TypeOK, env, dirRows, main, slots, analyzer
<1>5. CASE WalkDirDone \/ WalkFault
  BY <1>5 DEF WalkDirDone, WalkFault, NothingSeen, TypeOK,
              env, dirRows, fileRows, main, slots, analyzer
<1>6. ASSUME NEW f \in Files, WalkRow(f) PROVE TypeOK'
  BY <1>6 DEF WalkRow, upsert_file_downloads_row, Burn, TypeOK,
              env, dirRows, main, slots, analyzer
<1> QED
  BY <1>1, <1>2, <1>3, <1>4, <1>5, <1>6 DEF WalkStep

\* Shared by the slots' steps on the download's outcome.
LEMMA SlotTypeOK == ASSUME NEW s \in Slots, TypeOK, SlotStep(s) PROVE TypeOK'
<1>1. CASE SlotExit(s)
  BY <1>1 DEF SlotExit, Goto, TypeOK, env, dirRows, fileRows, main, walker, analyzer
<1>2. CASE claim_file(s)
  BY <1>2 DEF claim_file, MarkDownloading, Goto, Eligible, TypeOK, env, dirRows, main, walker, analyzer
<1>3. CASE DownloadOk(s)
  BY <1>3 DEF DownloadOk, Goto, TypeOK, dirRows, fileRows, main, walker, analyzer
<1>4. CASE DownloadErr(s)
  <2>1. disk' \in [Files -> Copies \cup {Torn}]
    <3>1. PICK copy \in {disk[sfile[s]], remote[sfile[s]], None, Torn} \cup Empty :
            disk' = [disk EXCEPT ![sfile[s]] = copy]
      BY <1>4 DEF DownloadErr
    <3>2. sfile[s] \in Files => copy \in Copies \cup {Torn}
      BY <3>1 DEF TypeOK, Empty
    <3> QED
      BY <3>1, <3>2 DEF TypeOK
  <2> QED
    BY <1>4, <2>1 DEF DownloadErr, Goto, TypeOK, dirRows, fileRows, main, walker, analyzer
<1>5. CASE set_file_synced(s)
  BY <1>5 DEF set_file_synced, SetFileState, Goto, TypeOK, env, dirRows, main, walker, analyzer
<1>6. CASE try_complete_directory(s)
  BY <1>6 DEF try_complete_directory, Goto, TypeOK, env, fileRows, main, walker, analyzer
<1>7. CASE set_file_failed(s)
  BY <1>7 DEF set_file_failed, SetFileState, Goto, TypeOK, env, dirRows, main, walker, analyzer
<1>8. CASE SlotPublish(s)
  BY <1>8 DEF SlotPublish, SetDirectoryState, Goto, TypeOK, env, fileRows, main, walker, analyzer
<1>9. CASE SlotFault(s)
  BY <1>9 DEF SlotFault, SetDirectoryState, Goto, TypeOK, env, fileRows, walker, analyzer
<1>10. CASE ClaimLost(s)
  BY <1>10 DEF ClaimLost, MarkDownloading, Eligible, TypeOK, env, dirRows, walker, slots, analyzer
<1> QED
  BY <1>1, <1>2, <1>3, <1>4, <1>5, <1>6, <1>7, <1>8, <1>9, <1>10 DEF SlotStep

LEMMA AnalyzeTypeOK == TypeOK /\ AnalyzeStep => TypeOK'
<1> SUFFICES ASSUME TypeOK, AnalyzeStep PROVE TypeOK'
  OBVIOUS
<1>1. ASSUME NEW d \in Dirs, claim_synced_row(d) PROVE TypeOK'
  BY <1>1 DEF claim_synced_row, TypeOK, env, fileRows, main, walker, slots
<1>2. CASE AnalyzePublish
  BY <1>2 DEF AnalyzePublish, SetDirectoryState, TypeOK, env, fileRows, main, walker, slots
<1>3. CASE AnalyzeFault
  BY <1>3 DEF AnalyzeFault, SetDirectoryState, TypeOK, env, fileRows, walker, slots
<1>4. CASE AnalyzeExit
  BY <1>4 DEF AnalyzeExit, TypeOK, env, dirRows, fileRows, main, walker, slots
<1> QED
  BY <1>1, <1>2, <1>3, <1>4 DEF AnalyzeStep

LEMMA NextTypeOK == TypeOK /\ [Next]_vars => TypeOK'
<1> SUFFICES ASSUME TypeOK, [Next]_vars PROVE TypeOK'
  OBVIOUS
<1>1. ASSUME NEW f \in Files, RemoteChange(f) PROVE TypeOK'
  BY <1>1 DEF RemoteChange, TypeOK, dirRows, fileRows, main, walker, slots, analyzer
<1>2. CASE HoursPass
  BY <1>2 DEF HoursPass, TypeOK, env, dirRows, main, walker, slots, analyzer
<1>3. CASE UNCHANGED vars
  BY <1>3 DEF TypeOK, vars, env, dirRows, fileRows, main, walker, slots, analyzer
<1> QED
  BY <1>1, <1>2, <1>3, MainTypeOK, WalkTypeOK, SlotTypeOK, AnalyzeTypeOK DEF Next

\* The type invariant of the pipeline.
THEOREM TypeCorrect == Spec => []TypeOK
BY InitTypeOK, NextTypeOK, PTL DEF Spec
-----------------------------------------------------------------------------
(* Who holds a file. The strengthening says what every step of a slot      *)
(* knows of the row it holds, and that slots exist only while a run is on. *)

Working == {"fetch", "landed", "broken", "settled", "publish"}

\* A slot holds a file from its claim to the end of process, and has decided
\* its verdict before the directory is looked at.
HoldInv ==
  \A s \in Slots :
    /\ sfile[s] # None <=> spc[s] \in Working
    /\ spc[s] \in {"settled", "publish"} => fileState[sfile[s]] \in {"synced", "failed"}

\* The sweep and the backfill run when no slot does.
PhaseInv ==
  /\ phase \in {"boot", "start"} => \A s \in Slots : spc[s] = "off"
  /\ phase \in {"drainAnalyze", "done"} => \A s \in Slots : spc[s] = "exit"

RowsInv == \A f \in Files : fileState[f] = "none" <=> fileId[f] = 0

ClaimInv == HoldInv /\ PhaseInv /\ RowsInv /\ ClaimExclusive

claimVars == <<fileState, fileId, spc, sfile, phase>>

LEMMA InitClaimInv == Init => ClaimInv
BY DEF Init, ClaimInv, HoldInv, PhaseInv, RowsInv, ClaimExclusive, Working

LEMMA KeepClaimInv == ClaimInv /\ UNCHANGED claimVars => ClaimInv'
BY DEF ClaimInv, HoldInv, PhaseInv, RowsInv, ClaimExclusive, claimVars

\* Most steps touch neither the file rows nor the slots.
LEMMA OtherStepsKeepClaims ==
  ASSUME \/ \E d \in Dirs : WalkManifest(d) \/ WalkSkip(d) \/ claim_synced_row(d)
         \/ WalkUpsert \/ WalkHashes \/ WalkFault \/ WalkDirDone
         \/ AnalyzePublish \/ AnalyzeFault \/ AnalyzeExit
         \/ \E f \in Files : RemoteChange(f)
         \/ HoursPass \/ UNCHANGED vars
  PROVE  UNCHANGED claimVars
<1>1. CASE \E d \in Dirs : WalkManifest(d) \/ WalkSkip(d) \/ claim_synced_row(d)
  BY <1>1 DEF WalkManifest, WalkSkip, claim_synced_row, claimVars, fileRows, main, slots
<1>2. CASE WalkUpsert \/ WalkHashes \/ WalkFault \/ WalkDirDone
  BY <1>2 DEF WalkUpsert, WalkHashes, WalkFault, WalkDirDone, claimVars, fileRows, main, slots
<1>3. CASE AnalyzePublish \/ AnalyzeFault \/ AnalyzeExit
  BY <1>3 DEF AnalyzePublish, AnalyzeFault, AnalyzeExit, claimVars, fileRows, main, slots
<1>4. CASE \E f \in Files : RemoteChange(f)
  BY <1>4 DEF RemoteChange, claimVars, fileRows, main, slots
<1>5. CASE HoursPass \/ UNCHANGED vars
  BY <1>5 DEF HoursPass, vars, claimVars, fileRows, main, slots
<1> QED
  BY <1>1, <1>2, <1>3, <1>4, <1>5

\* When the process is gone, so is every claim on a file.
LEMMA ProcessEndsClaimInv ==
  ASSUME TypeOK, ClaimInv, ProcessEnds, UNCHANGED fileId,
         \A f \in Files : fileState'[f] = "none" <=> fileState[f] = "none"
  PROVE  ClaimInv'
BY DEF ProcessEnds, ClaimInv, HoldInv, PhaseInv, RowsInv, ClaimExclusive, Working

LEMMA SweepKeepsRows ==
  ASSUME TypeOK, stale_file_sweep \/ UNCHANGED fileState
  PROVE  \A f \in Files : fileState'[f] = "none" <=> fileState[f] = "none"
BY DEF stale_file_sweep, TypeOK

LEMMA MainClaimInv ==
  ASSUME TypeOK, ClaimInv, MainStep \/ StartFault \/ Crash PROVE ClaimInv'
<1>1. CASE Boot
  <2>1. RowsInv'
    BY <1>1 DEF Boot, TypeOK, ClaimInv, RowsInv
  <2> QED
    BY <1>1, <2>1 DEF Boot, TypeOK, ClaimInv, HoldInv, PhaseInv, ClaimExclusive, slots, Working
<1>2. CASE StartRun
  <2>1. RowsInv'
    BY <1>2, SweepKeepsRows DEF StartRun, ClaimInv, RowsInv
  <2>2. \A s \in Slots : spc[s] \notin Working /\ sfile[s] = None
    BY <1>2 DEF StartRun, ClaimInv, HoldInv, PhaseInv, Working
  <2> QED
    BY <1>2, <2>1, <2>2 DEF StartRun, TypeOK, ClaimInv, HoldInv, PhaseInv, ClaimExclusive, Working
<1>3. CASE SignalDrain
  BY <1>3 DEF SignalDrain, ClaimInv, HoldInv, PhaseInv, RowsInv, ClaimExclusive, fileRows, slots
<1>4. CASE JoinDownloaders
  <2>1. CASE ProcessEnds
    BY <1>4, <2>1, ProcessEndsClaimInv DEF JoinDownloaders, fileRows
  <2>2. CASE /\ \A s \in Slots : spc[s] = "exit"
             /\ phase' = "drainAnalyze" /\ UNCHANGED slots
    BY <1>4, <2>2 DEF JoinDownloaders, ClaimInv, HoldInv, PhaseInv, RowsInv,
                      ClaimExclusive, fileRows, slots
  <2> QED
    BY <1>4, <2>1, <2>2 DEF JoinDownloaders
<1>5. CASE JoinAnalyze
  <2>1. CASE ProcessEnds
    BY <1>5, <2>1, ProcessEndsClaimInv DEF JoinAnalyze, fileRows
  <2>2. CASE phase' = "done" /\ UNCHANGED slots
    BY <1>5, <2>2 DEF JoinAnalyze, ClaimInv, HoldInv, PhaseInv, RowsInv,
                      ClaimExclusive, fileRows, slots
  <2> QED
    BY <1>5, <2>1, <2>2 DEF JoinAnalyze
<1>6. CASE Exit
  BY <1>6, ProcessEndsClaimInv DEF Exit, fileRows
<1>7. CASE StartFault
  BY <1>7, SweepKeepsRows, ProcessEndsClaimInv DEF StartFault
<1>8. CASE Crash
  BY <1>8, ProcessEndsClaimInv DEF Crash, fileRows
<1> QED
  BY <1>1, <1>2, <1>3, <1>4, <1>5, <1>6, <1>7, <1>8 DEF MainStep

\* A row inserted by the walker is nobody's yet.
LEMMA WalkRowClaimInv ==
  ASSUME TypeOK, ClaimInv, NEW f \in Files, WalkRow(f) PROVE ClaimInv'
<1>1. RowsInv'
  BY DEF WalkRow, upsert_file_downloads_row, TypeOK, ClaimInv, RowsInv
<1>2. \A g \in Files : fileState[g] # "none" => fileState'[g] = fileState[g]
  BY DEF WalkRow, upsert_file_downloads_row, TypeOK, ClaimInv, RowsInv
<1>3. UNCHANGED <<spc, sfile, phase>>
  BY DEF WalkRow, slots, main
<1>4. \A s \in Slots : spc[s] \in Working => sfile[s] \in Files
  BY DEF TypeOK, ClaimInv, HoldInv
<1> QED
  BY <1>1, <1>2, <1>3, <1>4 DEF ClaimInv, HoldInv, PhaseInv, ClaimExclusive, Working

LEMMA SlotClaimInv ==
  ASSUME TypeOK, ClaimInv, NEW s \in Slots, SlotStep(s) PROVE ClaimInv'
<1> USE DEF ClaimInv, HoldInv, PhaseInv, RowsInv, ClaimExclusive, Working
<1>1. CASE SlotExit(s)
  BY <1>1 DEF SlotExit, Goto, TypeOK, fileRows, main
<1>2. CASE claim_file(s)
  <2>1. PICK f \in Eligible :
          /\ fileState' = [fileState EXCEPT ![f] = "downloading"]
          /\ sfile' = [sfile EXCEPT ![s] = f]
    BY <1>2 DEF claim_file, MarkDownloading
  <2>2. f \in Files /\ fileState[f] = "detected"
    BY DEF Eligible
  <2>3. \A t \in Slots : sfile[t] # f
    BY <2>2, ConstantsAssumption DEF TypeOK
  <2>4. /\ spc[s] = "idle" /\ spc' = [spc EXCEPT ![s] = "fetch"]
        /\ UNCHANGED <<fileId, phase>>
    BY <1>2 DEF claim_file, Goto, main
  <2>5. f # None
    BY <2>2, ConstantsAssumption
  <2> QED
    BY <2>1, <2>2, <2>3, <2>4, <2>5 DEF TypeOK
<1>3. CASE DownloadOk(s)
  BY <1>3 DEF DownloadOk, Goto, TypeOK, fileRows, main
<1>4. CASE DownloadErr(s)
  BY <1>4 DEF DownloadErr, Goto, TypeOK, fileRows, main
<1>5. CASE set_file_synced(s)
  BY <1>5 DEF set_file_synced, SetFileState, Goto, TypeOK, main
<1>6. CASE try_complete_directory(s)
  BY <1>6 DEF try_complete_directory, Goto, TypeOK, fileRows, main
<1>7. CASE set_file_failed(s)
  BY <1>7 DEF set_file_failed, SetFileState, Goto, TypeOK, main
<1>8. CASE SlotPublish(s)
  BY <1>8 DEF SlotPublish, Goto, TypeOK, fileRows, main
<1>9. CASE SlotFault(s)
  BY <1>9 DEF SlotFault, Goto, TypeOK, fileRows
<1>10. CASE ClaimLost(s)
  <2>1. PICK f \in Eligible : fileState' = [fileState EXCEPT ![f] = "downloading"]
    BY <1>10 DEF ClaimLost, MarkDownloading
  <2>2. f \in Files /\ fileState[f] = "detected"
    BY DEF Eligible
  <2>3. UNCHANGED <<fileId, phase, spc, sfile>>
    BY <1>10 DEF ClaimLost, slots
  <2> QED
    BY <2>1, <2>2, <2>3 DEF TypeOK
<1> QED
  BY <1>1, <1>2, <1>3, <1>4, <1>5, <1>6, <1>7, <1>8, <1>9, <1>10 DEF SlotStep

LEMMA NextClaimInv == TypeOK /\ ClaimInv /\ [Next]_vars => ClaimInv'
<1> SUFFICES ASSUME TypeOK, ClaimInv, [Next]_vars PROVE ClaimInv'
  OBVIOUS
<1>1. CASE MainStep \/ StartFault \/ Crash
  BY <1>1, MainClaimInv
<1>2. CASE \E f \in Files : WalkRow(f)
  BY <1>2, WalkRowClaimInv
<1>3. CASE \E s \in Slots : SlotStep(s)
  BY <1>3, SlotClaimInv
<1> QED
  BY <1>1, <1>2, <1>3, OtherStepsKeepClaims, KeepClaimInv DEF Next, WalkStep, AnalyzeStep

\* Two slots never download the same file, and the row of a download under
\* way is nobody else's to move: not the sweep's, the backfill's or the walker's.
THEOREM ClaimsAreExclusive == Spec => []ClaimExclusive
<1>1. Spec => [](TypeOK /\ ClaimInv)
  BY InitTypeOK, NextTypeOK, InitClaimInv, NextClaimInv, PTL DEF Spec
<1>2. ClaimInv => ClaimExclusive
  BY DEF ClaimInv
<1> QED
  BY <1>1, <1>2, PTL
-----------------------------------------------------------------------------
(* Fingerprints and rows.                                                  *)

\* The walker works only while the run walks, and holds rows to insert only
\* between recording their fingerprints and leaving the directory.
WalkInv ==
  /\ phase # "walk" => wpc = "off"
  /\ wpc # "rows" => rows = {}
  /\ \A f \in rows : hash[f] # None

TrackInv == WalkInv /\ FingerprintsTracked

trackVars == <<phase, wpc, rows, hash, fileId, faults>>

LEMMA InitTrackInv == Init => TrackInv
BY DEF Init, TrackInv, WalkInv, FingerprintsTracked

\* The end of a process forgets the rows to insert; no harm if there were none.
LEMMA ProcessEndsTrackInv ==
  ASSUME TypeOK, TrackInv, ProcessEnds, UNCHANGED <<hash, fileId>>,
         (faults' = faults /\ rows = {}) \/ faults' = faults + 1
  PROVE  TrackInv'
BY DEF ProcessEnds, TypeOK, TrackInv, WalkInv, FingerprintsTracked

LEMMA MainTrackInv ==
  ASSUME TypeOK, TrackInv, MainStep \/ StartFault \/ Crash PROVE TrackInv'
<1> USE DEF TrackInv, WalkInv
<1>1. CASE Boot
  <2>1. \A f \in Files : hash[f] # None <=> fileId'[f] # 0
    BY <1>1 DEF Boot, TypeOK, FingerprintsTracked
  <2> QED
    BY <1>1, <2>1 DEF Boot, FingerprintsTracked, walker
<1>2. CASE StartRun
  BY <1>2 DEF StartRun, TypeOK, FingerprintsTracked
<1>3. CASE SignalDrain
  BY <1>3 DEF SignalDrain, FingerprintsTracked, fileRows
<1>4. CASE JoinDownloaders
  <2>1. rows = {}
    BY <1>4 DEF JoinDownloaders
  <2>2. CASE ProcessEnds
    BY <1>4, <2>1, <2>2, ProcessEndsTrackInv DEF JoinDownloaders, fileRows
  <2>3. CASE phase' = "drainAnalyze" /\ UNCHANGED walker
    BY <1>4, <2>3 DEF JoinDownloaders, FingerprintsTracked, fileRows, walker
  <2> QED
    BY <1>4, <2>2, <2>3 DEF JoinDownloaders
<1>5. CASE JoinAnalyze
  <2>1. rows = {}
    BY <1>5 DEF JoinAnalyze
  <2>2. CASE ProcessEnds
    BY <1>5, <2>1, <2>2, ProcessEndsTrackInv DEF JoinAnalyze, fileRows
  <2>3. CASE phase' = "done" /\ UNCHANGED walker
    BY <1>5, <2>3 DEF JoinAnalyze, FingerprintsTracked, fileRows, walker
  <2> QED
    BY <1>5, <2>2, <2>3 DEF JoinAnalyze
<1>6. CASE Exit
  <2>1. rows = {}
    BY <1>6 DEF Exit
  <2> QED
    BY <1>6, <2>1, ProcessEndsTrackInv DEF Exit, fileRows
<1>7. CASE StartFault
  BY <1>7, ProcessEndsTrackInv DEF StartFault
<1>8. CASE Crash
  BY <1>8, ProcessEndsTrackInv DEF Crash, fileRows
<1> QED
  BY <1>1, <1>2, <1>3, <1>4, <1>5, <1>6, <1>7, <1>8 DEF MainStep

LEMMA WalkTrackInv == ASSUME TypeOK, TrackInv, WalkStep PROVE TrackInv'
<1> USE DEF TrackInv, WalkInv
<1>1. ASSUME NEW d \in Dirs, WalkManifest(d) \/ WalkSkip(d) PROVE TrackInv'
  BY <1>1 DEF WalkManifest, WalkSkip, FingerprintsTracked, fileRows, main
<1>2. CASE WalkUpsert
  BY <1>2 DEF WalkUpsert, FingerprintsTracked, fileRows, main
<1>3. CASE WalkHashes
  <2>1. phase = "walk"
    BY <1>3 DEF WalkHashes
  <2>2. PICK H \in SUBSET Files :
          /\ \A f \in H : remote[f] # None
          /\ hash' = [f \in Files |-> IF f \in H THEN remote[f] ELSE hash[f]]
          /\ rows' = H
    BY <1>3 DEF WalkHashes, collect_remote_hashes, FilesOf
  <2>3. wpc' = "rows" /\ UNCHANGED <<fileId, phase, faults>> /\ rows = {}
    BY <1>3 DEF WalkHashes, main
  <2> QED
    BY <2>1, <2>2, <2>3 DEF FingerprintsTracked
<1>4. CASE WalkDirDone
  BY <1>4 DEF WalkDirDone, FingerprintsTracked, fileRows, main
<1>5. CASE WalkFault
  BY <1>5 DEF WalkFault, FingerprintsTracked, TypeOK, fileRows
<1>6. ASSUME NEW f \in Files, WalkRow(f) PROVE TrackInv'
  <2>1. /\ fileId' \in [Files -> Nat] /\ fileId'[f] # 0
        /\ \A g \in Files : g # f => fileId'[g] = fileId[g]
    BY <1>6, NextTypeOK DEF WalkRow, upsert_file_downloads_row, TypeOK
  <2>2. hash[f] # None /\ rows' = rows \ {f} /\ UNCHANGED <<hash, phase, wpc, faults>>
    BY <1>6 DEF WalkRow, main
  <2> QED
    BY <1>6, <2>1, <2>2 DEF WalkRow, FingerprintsTracked
<1> QED
  BY <1>1, <1>2, <1>3, <1>4, <1>5, <1>6 DEF WalkStep

\* Slots and the analyzer record no fingerprint and insert no row; a fault of
\* theirs only makes the invariant weaker.
LEMMA OtherStepsTrackInv ==
  ASSUME TypeOK, TrackInv, UNCHANGED <<phase, wpc, rows, hash, fileId>>,
         faults' \in {faults, faults + 1}
  PROVE  TrackInv'
BY DEF TypeOK, TrackInv, WalkInv, FingerprintsTracked

LEMMA NextTrackInv == TypeOK /\ TrackInv /\ [Next]_vars => TrackInv'
<1> SUFFICES ASSUME TypeOK, TrackInv, [Next]_vars PROVE TrackInv'
  OBVIOUS
<1>1. ASSUME NEW s \in Slots, SlotStep(s) PROVE TrackInv'
  <2>1. UNCHANGED <<phase, wpc, rows, hash, fileId>> /\ faults' \in {faults, faults + 1}
    BY <1>1 DEF SlotStep, SlotExit, claim_file, ClaimLost, MarkDownloading, DownloadOk, DownloadErr,
                set_file_synced,
                try_complete_directory, set_file_failed, SlotPublish, SlotFault,
                fileRows, main, walker
  <2> QED
    BY <2>1, OtherStepsTrackInv
<1>2. CASE AnalyzeStep
  <2>1. UNCHANGED <<phase, wpc, rows, hash, fileId>> /\ faults' \in {faults, faults + 1}
    BY <1>2 DEF AnalyzeStep, claim_synced_row, AnalyzePublish, AnalyzeFault, AnalyzeExit,
                fileRows, main, walker
  <2> QED
    BY <2>1, OtherStepsTrackInv
<1>3. CASE (\E f \in Files : RemoteChange(f)) \/ HoursPass \/ UNCHANGED vars
  <2>1. UNCHANGED <<phase, wpc, rows, hash, fileId, faults>>
    BY <1>3 DEF RemoteChange, HoursPass, vars, fileRows, main, walker
  <2> QED
    BY <2>1, OtherStepsTrackInv
<1> QED
  BY <1>1, <1>2, <1>3, MainTrackInv, WalkTrackInv DEF Next

\* No fingerprint is left without a row: by the walker itself when nothing
\* fails, by the backfill of the next open when something did.
THEOREM FingerprintsAreTracked == Spec => []FingerprintsTracked
<1>1. Spec => [](TypeOK /\ TrackInv)
  BY InitTypeOK, NextTypeOK, InitTrackInv, NextTrackInv, PTL DEF Spec
<1>2. TrackInv => FingerprintsTracked
  BY DEF TrackInv
<1> QED
  BY <1>1, <1>2, PTL
-----------------------------------------------------------------------------
(* What is on disk.                                                        *)

\* What SyncedIsVerified says of one file.
Verified(f) ==
  \/ disk[f] = hash[f]
  \/ Empty # {} /\ disk[f] \in Empty \cup {None}

\* A file is verified from the moment download_file returns Ok.
DiskInv ==
  /\ \A f \in Files : fileState[f] = "synced" => Verified(f)
  /\ \A s \in Slots : spc[s] = "landed" => Verified(sfile[s])

IInv == TypeOK /\ ClaimInv /\ TrackInv

LEMMA InitIInv == Init => IInv
BY InitTypeOK, InitClaimInv, InitTrackInv DEF IInv

LEMMA NextIInv == IInv /\ [Next]_vars => IInv'
BY NextTypeOK, NextClaimInv, NextTrackInv DEF IInv

LEMMA InitDiskInv == Init => DiskInv
BY DEF Init, DiskInv

\* The fingerprint of a tracked file is never overwritten.
LEMMA FingerprintStays ==
  ASSUME IInv, [Next]_vars, NEW f \in Files, fileState[f] # "none"
  PROVE  hash'[f] = hash[f]
<1>1. hash[f] # None
  BY DEF IInv, ClaimInv, RowsInv, TrackInv, FingerprintsTracked
<1>2. CASE WalkHashes
  BY <1>1, <1>2 DEF WalkHashes, collect_remote_hashes
<1>3. CASE ~WalkHashes
  <2>1. CASE MainStep \/ StartFault \/ Crash
    BY <2>1 DEF MainStep, Boot, StartRun, SignalDrain, JoinDownloaders, JoinAnalyze, Exit,
                StartFault, Crash, fileRows
  <2>2. CASE WalkStep
    BY <1>3, <2>2 DEF WalkStep, WalkManifest, WalkSkip, WalkUpsert, WalkRow, WalkDirDone,
                      WalkFault, fileRows
  <2>3. CASE \E s \in Slots : SlotStep(s)
    BY <2>3 DEF SlotStep, SlotExit, claim_file, ClaimLost, MarkDownloading, DownloadOk, DownloadErr,
                set_file_synced,
                try_complete_directory, set_file_failed, SlotPublish, SlotFault, fileRows
  <2>4. CASE AnalyzeStep
    BY <2>4 DEF AnalyzeStep, claim_synced_row, AnalyzePublish, AnalyzeFault, AnalyzeExit,
                fileRows
  <2>5. CASE (\E g \in Files : RemoteChange(g)) \/ HoursPass \/ UNCHANGED vars
    BY <2>5 DEF RemoteChange, HoursPass, vars, fileRows
  <2> QED
    BY <2>1, <2>2, <2>3, <2>4, <2>5 DEF Next
<1> QED
  BY <1>2, <1>3

\* A copy that is not being fetched is not touched.
LEMMA DiskStays ==
  ASSUME IInv, [Next]_vars, NEW f \in Files,
         \A s \in Slots : spc[s] = "fetch" => sfile[s] # f
  PROVE  disk'[f] = disk[f]
<1>1. CASE Crash
  <2>1. PICK T \in SUBSET {sfile[s] : s \in {t \in Slots : spc[t] = "fetch"}},
             copy \in {Torn} \cup Empty :
          disk' = [g \in Files |-> IF g \in T THEN copy ELSE disk[g]]
    BY <1>1 DEF Crash
  <2> QED
    BY <2>1
<1>2. CASE MainStep \/ StartFault
  BY <1>2 DEF MainStep, Boot, StartRun, SignalDrain, JoinDownloaders, JoinAnalyze, Exit,
              StartFault, env
<1>3. CASE WalkStep \/ AnalyzeStep
  BY <1>3 DEF WalkStep, WalkManifest, WalkSkip, WalkUpsert, WalkHashes, WalkRow, WalkDirDone,
              WalkFault, AnalyzeStep, claim_synced_row, AnalyzePublish, AnalyzeFault,
              AnalyzeExit, env
<1>4. ASSUME NEW s \in Slots, SlotStep(s) PROVE disk'[f] = disk[f]
  <2>1. CASE DownloadOk(s)
    BY <2>1 DEF DownloadOk, IInv, TypeOK
  <2>2. CASE DownloadErr(s)
    BY <2>2 DEF DownloadErr, IInv, TypeOK
  <2>3. CASE ~DownloadOk(s) /\ ~DownloadErr(s)
    BY <1>4, <2>3 DEF SlotStep, SlotExit, claim_file, ClaimLost, set_file_synced,
                      try_complete_directory,
                      set_file_failed, SlotPublish, SlotFault, env
  <2> QED
    BY <2>1, <2>2, <2>3
<1>5. CASE (\E g \in Files : RemoteChange(g)) \/ HoursPass \/ UNCHANGED vars
  BY <1>5 DEF RemoteChange, HoursPass, vars, env
<1> QED
  BY <1>1, <1>2, <1>3, <1>4, <1>5 DEF Next

\* What download_file checks before it says Ok.
LEMMA OkIsVerified ==
  ASSUME IInv, NEW s \in Slots, DownloadOk(s) PROVE Verified(sfile[s])'
<1> DEFINE f == sfile[s]
<1>1. /\ f \in Files /\ remote[f] \in Contents /\ hash[f] # None
      /\ sfile'[s] = f /\ hash'[f] = hash[f]
  <2>1. f \in Files /\ fileState[f] = "downloading"
    BY DEF DownloadOk, IInv, TypeOK, ClaimInv, HoldInv, ClaimExclusive, Working
  <2> QED
    BY <2>1 DEF DownloadOk, IInv, TypeOK, ClaimInv, RowsInv, TrackInv,
                FingerprintsTracked, fileRows
<1>2. CASE Trusted(f) /\ UNCHANGED disk
  <2>1. CASE Size[remote[f]] = 0
    <3>1. remote[f] \in Empty
      BY <1>1, <2>1 DEF Empty
    <3>2. disk[f] \in Empty \cup {None}
      <4>1. 0 \in Lengths(disk[f])
        BY <1>2, <2>1 DEF Trusted
      <4>2. disk[f] # Torn
        BY <4>1, ConstantsAssumption DEF Lengths
      <4>3. disk[f] \in Contents => Size[disk[f]] = 0
        BY <4>1, <4>2, ConstantsAssumption DEF Lengths
      <4> QED
        BY <1>1, <4>2, <4>3 DEF IInv, TypeOK, Empty
    <3> QED
      BY <1>1, <1>2, <3>1, <3>2 DEF Verified, Empty
  <2>2. CASE Size[remote[f]] # 0
    BY <1>1, <1>2, <2>2 DEF Trusted, Verified
  <2> QED
    BY <2>1, <2>2
<1>3. CASE /\ hash[f] = remote[f]
           /\ disk' = [disk EXCEPT ![f] = remote[f]]
  BY <1>1, <1>3 DEF Verified, IInv, TypeOK
<1> QED
  BY <1>1, <1>2, <1>3 DEF DownloadOk

\* Only the slot that holds a file, and has landed it, marks it synced.
LEMMA WhoSyncs ==
  ASSUME IInv, [Next]_vars, NEW f \in Files,
         fileState'[f] = "synced", fileState[f] # "synced"
  PROVE  \E s \in Slots : set_file_synced(s) /\ sfile[s] = f
<1>1. CASE MainStep \/ StartFault \/ Crash
  BY <1>1 DEF MainStep, Boot, StartRun, stale_file_sweep, SignalDrain, JoinDownloaders,
              JoinAnalyze, Exit, StartFault, Crash, fileRows
<1>2. CASE WalkStep
  BY <1>2 DEF WalkStep, WalkManifest, WalkSkip, WalkUpsert, WalkHashes, WalkRow, WalkDirDone,
              WalkFault, upsert_file_downloads_row, fileRows, IInv, TypeOK
<1>3. ASSUME NEW s \in Slots, SlotStep(s) PROVE set_file_synced(s) /\ sfile[s] = f
  BY <1>3 DEF SlotStep, SlotExit, claim_file, ClaimLost, MarkDownloading, DownloadOk, DownloadErr,
                set_file_synced,
              try_complete_directory, set_file_failed, SetFileState, SlotPublish, SlotFault,
              fileRows, IInv, TypeOK
<1>4. CASE AnalyzeStep
  BY <1>4 DEF AnalyzeStep, claim_synced_row, AnalyzePublish, AnalyzeFault, AnalyzeExit, fileRows
<1>5. CASE (\E g \in Files : RemoteChange(g)) \/ HoursPass \/ UNCHANGED vars
  BY <1>5 DEF RemoteChange, HoursPass, vars, fileRows
<1> QED
  BY <1>1, <1>2, <1>3, <1>4, <1>5 DEF Next

\* A slot lands a file by DownloadOk, and keeps it until it is marked.
LEMMA WhoLands ==
  ASSUME IInv, [Next]_vars, NEW s \in Slots, spc'[s] = "landed"
  PROVE  DownloadOk(s) \/ (spc[s] = "landed" /\ sfile'[s] = sfile[s])
<1>1. CASE MainStep \/ StartFault \/ Crash
  BY <1>1 DEF MainStep, Boot, StartRun, SignalDrain, JoinDownloaders, JoinAnalyze, Exit,
              ProcessEnds, StartFault, Crash, slots
<1>2. CASE WalkStep
  BY <1>2 DEF WalkStep, WalkManifest, WalkSkip, WalkUpsert, WalkHashes, WalkRow, WalkDirDone,
              WalkFault, slots
<1>3. ASSUME NEW t \in Slots, SlotStep(t)
      PROVE  DownloadOk(s) \/ (spc[s] = "landed" /\ sfile'[s] = sfile[s])
  <2>1. CASE DownloadOk(t)
    <3>1. CASE t = s
      BY <2>1, <3>1
    <3>2. CASE t # s
      BY <2>1, <3>2 DEF DownloadOk, Goto, IInv, TypeOK
    <3> QED
      BY <3>1, <3>2
  <2>2. CASE SlotExit(t) \/ claim_file(t) \/ ClaimLost(t) \/ DownloadErr(t)
    BY <2>2 DEF SlotExit, claim_file, ClaimLost, DownloadErr, Goto, slots, IInv, TypeOK
  <2>3. CASE set_file_synced(t) \/ try_complete_directory(t) \/ set_file_failed(t)
    BY <2>3 DEF set_file_synced, try_complete_directory, set_file_failed, Goto, IInv, TypeOK
  <2>4. CASE SlotPublish(t) \/ SlotFault(t)
    BY <2>4 DEF SlotPublish, SlotFault, Goto, IInv, TypeOK
  <2> QED
    BY <1>3, <2>1, <2>2, <2>3, <2>4 DEF SlotStep
<1>4. CASE AnalyzeStep
  BY <1>4 DEF AnalyzeStep, claim_synced_row, AnalyzePublish, AnalyzeFault, AnalyzeExit, slots
<1>5. CASE (\E g \in Files : RemoteChange(g)) \/ HoursPass \/ UNCHANGED vars
  BY <1>5 DEF RemoteChange, HoursPass, vars, slots
<1> QED
  BY <1>1, <1>2, <1>3, <1>4, <1>5 DEF Next

LEMMA NextDiskInv == IInv /\ DiskInv /\ [Next]_vars => DiskInv'
<1> SUFFICES ASSUME IInv, DiskInv, [Next]_vars PROVE DiskInv'
  OBVIOUS
<1>1. ASSUME NEW f \in Files, fileState[f] # "none", Verified(f),
             \A s \in Slots : spc[s] = "fetch" => sfile[s] # f
      PROVE  Verified(f)'
  BY <1>1, FingerprintStays, DiskStays DEF Verified, Empty
<1>2. ASSUME NEW s \in Slots, NEW f, spc[s] = "landed", sfile[s] = f
      PROVE  Verified(f)'
  <2>1. /\ f \in Files /\ fileState[f] = "downloading"
        /\ \A t \in Slots : spc[t] = "fetch" => sfile[t] # f
    BY <1>2 DEF IInv, TypeOK, ClaimInv, HoldInv, ClaimExclusive, Working
  <2>2. Verified(f)
    BY <1>2 DEF DiskInv
  <2> QED
    BY <1>1, <2>1, <2>2
<1>3. ASSUME NEW s \in Slots, spc'[s] = "landed" PROVE Verified(sfile[s])'
  <2>1. CASE DownloadOk(s)
    <3>1. sfile'[s] = sfile[s]
      BY <2>1 DEF DownloadOk
    <3> QED
      BY <2>1, <3>1, OkIsVerified
  <2>2. CASE spc[s] = "landed" /\ sfile'[s] = sfile[s]
    <3>1. PICK f : f = sfile[s]
      OBVIOUS
    <3>2. Verified(f)'
      BY <1>2, <2>2, <3>1
    <3> QED
      BY <2>2, <3>1, <3>2
  <2> QED
    BY <1>3, <2>1, <2>2, WhoLands
<1>4. ASSUME NEW f \in Files, fileState'[f] = "synced" PROVE Verified(f)'
  <2>1. CASE fileState[f] = "synced"
    <3>1. \A s \in Slots : spc[s] = "fetch" => sfile[s] # f
      BY <2>1 DEF IInv, ClaimInv, ClaimExclusive
    <3> QED
      BY <1>1, <2>1, <3>1 DEF DiskInv
  <2>2. CASE fileState[f] # "synced"
    <3>1. PICK s \in Slots : set_file_synced(s) /\ sfile[s] = f
      BY <1>4, <2>2, WhoSyncs
    <3> QED
      BY <1>2, <3>1 DEF set_file_synced
  <2> QED
    BY <2>1, <2>2
<1> QED
  BY <1>3, <1>4 DEF DiskInv

\* A file marked synced is, on disk, what its fingerprint says (or empty): for
\* any number of files, slots, crashes, remote changes and later walks.
THEOREM SyncedFilesAreVerified == Spec => []SyncedIsVerified
<1>1. Spec => [](IInv /\ DiskInv)
  BY InitIInv, NextIInv, InitDiskInv, NextDiskInv, PTL DEF Spec
<1>2. DiskInv => SyncedIsVerified
  BY DEF DiskInv, Verified, SyncedIsVerified
<1> QED
  BY <1>1, <1>2, PTL
-----------------------------------------------------------------------------
(* What a drain leaves. The count a slot reads is out of date as soon as   *)
(* it is read; it is right all the same, because no step taken while the   *)
(* pools drain makes a file claimable again.                               *)

Draining == {"drain", "drainAnalyze", "done"}

\* A slot has left only if nothing was to be claimed, and nothing is since.
DrainInv ==
  /\ \A s \in Slots : spc[s] = "exit" => phase \in Draining /\ Eligible = {}
  /\ apc = "exit" => phase \in {"drainAnalyze", "done"} /\ \A d \in Dirs : dirState[d] # "synced"
  /\ phase = "done" => apc = "exit"

LEMMA InitDrainInv == Init => DrainInv
BY DEF Init, DrainInv

\* Nothing becomes claimable while the pools drain.
LEMMA NoNewWork ==
  ASSUME IInv, [Next]_vars, phase \in Draining, phase' \in Draining
  PROVE  Eligible' \subseteq Eligible
<1>1. CASE MainStep \/ StartFault \/ Crash
  BY <1>1 DEF MainStep, Boot, StartRun, SignalDrain, JoinDownloaders, JoinAnalyze, Exit,
              ProcessEnds, StartFault, Crash, Draining, Eligible, dirRows, fileRows
<1>2. CASE WalkStep
  BY <1>2 DEF WalkStep, WalkManifest, WalkSkip, WalkUpsert, WalkHashes, WalkRow, WalkDirDone,
              WalkFault, Draining, IInv, TrackInv, WalkInv
<1>3. ASSUME NEW s \in Slots, SlotStep(s) PROVE Eligible' \subseteq Eligible
  <2>1. \A f \in Files : fileState'[f] = "detected" => fileState[f] = "detected"
    BY <1>3 DEF SlotStep, SlotExit, claim_file, ClaimLost, MarkDownloading, DownloadOk,
                DownloadErr, set_file_synced, try_complete_directory, set_file_failed,
                SetFileState, SlotPublish, SlotFault, fileRows, IInv, TypeOK
  <2>2. \A d \in Dirs : dirState'[d] = "detected" => dirState[d] = "detected"
    BY <1>3 DEF SlotStep, SlotExit, claim_file, ClaimLost, DownloadOk, DownloadErr,
                set_file_synced, try_complete_directory, set_file_failed, SlotPublish,
                SlotFault, SetDirectoryState, dirRows, IInv, TypeOK
  <2> QED
    BY <2>1, <2>2, ConstantsAssumption DEF Eligible
<1>4. CASE AnalyzeStep
  <2>1. UNCHANGED fileState
    BY <1>4 DEF AnalyzeStep, claim_synced_row, AnalyzePublish, AnalyzeFault, AnalyzeExit, fileRows
  <2>2. \A d \in Dirs : dirState'[d] = "detected" => dirState[d] = "detected"
    BY <1>4 DEF AnalyzeStep, claim_synced_row, AnalyzePublish, AnalyzeFault, AnalyzeExit,
                SetDirectoryState, dirRows, IInv, TypeOK
  <2> QED
    BY <2>1, <2>2, ConstantsAssumption DEF Eligible
<1>5. CASE (\E f \in Files : RemoteChange(f)) \/ HoursPass \/ UNCHANGED vars
  BY <1>5 DEF RemoteChange, HoursPass, vars, dirRows, fileRows, Eligible
<1> QED
  BY <1>1, <1>2, <1>3, <1>4, <1>5 DEF Next

\* Nothing reaches the analyze pool once the downloaders have been joined.
LEMMA NoNewSynced ==
  ASSUME IInv, [Next]_vars, phase \in {"drainAnalyze", "done"}, phase' \in Draining,
         NEW d \in Dirs, dirState[d] # "synced"
  PROVE  dirState'[d] # "synced"
<1>1. CASE MainStep \/ StartFault \/ Crash
  BY <1>1 DEF MainStep, Boot, StartRun, SignalDrain, JoinDownloaders, JoinAnalyze, Exit,
              ProcessEnds, StartFault, Crash, Draining, dirRows
<1>2. CASE WalkStep
  BY <1>2 DEF WalkStep, WalkManifest, WalkSkip, WalkUpsert, WalkHashes, WalkRow, WalkDirDone,
              WalkFault, IInv, TrackInv, WalkInv
<1>3. ASSUME NEW s \in Slots, SlotStep(s) PROVE FALSE
  <2>1. spc[s] = "exit"
    BY DEF IInv, ClaimInv, PhaseInv
  <2> QED
    BY <1>3, <2>1 DEF SlotStep, SlotExit, claim_file, ClaimLost, DownloadOk, DownloadErr,
                      set_file_synced, try_complete_directory, set_file_failed, SlotPublish,
                      SlotFault
<1>4. CASE AnalyzeStep
  BY <1>4 DEF AnalyzeStep, claim_synced_row, AnalyzePublish, AnalyzeFault, AnalyzeExit,
              SetDirectoryState, dirRows, IInv, TypeOK
<1>5. CASE (\E f \in Files : RemoteChange(f)) \/ HoursPass \/ UNCHANGED vars
  BY <1>5 DEF RemoteChange, HoursPass, vars, dirRows
<1> QED
  BY <1>1, <1>2, <1>3, <1>4, <1>5 DEF Next

\* A task that has left stays where it is until the process starts a new run.
LEMMA WhoLeaves ==
  ASSUME IInv, DrainInv, [Next]_vars
  PROVE  /\ \A s \in Slots : spc'[s] = "exit" =>
              /\ phase' \in Draining /\ phase \in Draining
              /\ spc[s] = "exit" \/ Eligible = {}
         /\ apc' = "exit" =>
              /\ phase' \in {"drainAnalyze", "done"} /\ phase \in {"drainAnalyze", "done"}
              /\ apc = "exit" \/ \A d \in Dirs : dirState[d] # "synced"
         /\ phase' = "done" => apc' = "exit"
<1> USE DEF Draining
<1>1. CASE MainStep \/ StartFault \/ Crash
  BY <1>1 DEF MainStep, Boot, StartRun, SignalDrain, JoinDownloaders, JoinAnalyze, Exit,
              ProcessEnds, StartFault, Crash, DrainInv, slots, analyzer
<1>2. CASE WalkStep
  BY <1>2 DEF WalkStep, WalkManifest, WalkSkip, WalkUpsert, WalkHashes, WalkRow, WalkDirDone,
              WalkFault, DrainInv, main, slots, analyzer
<1>3. ASSUME NEW t \in Slots, SlotStep(t)
      PROVE  /\ UNCHANGED <<phase, apc>>
             /\ \A s \in Slots : spc'[s] = "exit" => spc[s] = "exit" \/ SlotExit(t)
  <2>1. CASE SlotExit(t) \/ claim_file(t) \/ ClaimLost(t) \/ DownloadOk(t) \/ DownloadErr(t)
    BY <2>1 DEF SlotExit, claim_file, ClaimLost, DownloadOk, DownloadErr, Goto,
                main, slots, analyzer, IInv, TypeOK
  <2>2. CASE set_file_synced(t) \/ try_complete_directory(t) \/ set_file_failed(t)
    BY <2>2 DEF set_file_synced, try_complete_directory, set_file_failed, Goto,
                main, analyzer, IInv, TypeOK
  <2>3. CASE SlotPublish(t) \/ SlotFault(t)
    BY <2>3 DEF SlotPublish, SlotFault, Goto, main, analyzer, IInv, TypeOK
  <2> QED
    BY <1>3, <2>1, <2>2, <2>3 DEF SlotStep
<1>4. CASE AnalyzeStep
  BY <1>4 DEF AnalyzeStep, claim_synced_row, AnalyzePublish, AnalyzeFault, AnalyzeExit,
              DrainInv, main, slots
<1>5. CASE (\E f \in Files : RemoteChange(f)) \/ HoursPass \/ UNCHANGED vars
  BY <1>5 DEF RemoteChange, HoursPass, vars, DrainInv, main, slots, analyzer
<1>6. CASE \E t \in Slots : SlotStep(t)
  BY <1>3, <1>6 DEF SlotExit, DrainInv
<1> QED
  BY <1>1, <1>2, <1>4, <1>5, <1>6 DEF Next

LEMMA NextDrainInv == IInv /\ DrainInv /\ [Next]_vars => DrainInv'
<1> SUFFICES ASSUME IInv, DrainInv, [Next]_vars PROVE DrainInv'
  OBVIOUS
<1>1. ASSUME NEW s \in Slots, spc'[s] = "exit" PROVE phase' \in Draining /\ Eligible' = {}
  <2>1. phase' \in Draining /\ phase \in Draining /\ Eligible = {}
    BY <1>1, WhoLeaves DEF DrainInv
  <2> QED
    BY <2>1, NoNewWork
<1>2. ASSUME apc' = "exit"
      PROVE  phase' \in {"drainAnalyze", "done"} /\ \A d \in Dirs : dirState'[d] # "synced"
  <2>1. /\ phase' \in {"drainAnalyze", "done"} /\ phase \in {"drainAnalyze", "done"}
        /\ \A d \in Dirs : dirState[d] # "synced"
    BY <1>2, WhoLeaves DEF DrainInv
  <2> QED
    BY <2>1, NoNewSynced DEF Draining
<1>3. phase' = "done" => apc' = "exit"
  BY WhoLeaves
<1> QED
  BY <1>1, <1>2, <1>3 DEF DrainInv

\* When drain_pool returns Ok no file is left to claim, for any number of
\* slots, however their last counts, claims and verdicts interleave.
THEOREM PoolIsDrained == Spec => []DrainedPool
<1>1. Spec => [](IInv /\ DrainInv)
  BY InitIInv, NextIInv, InitDrainInv, NextDrainInv, PTL DEF Spec
<1>2. IInv /\ DrainInv => DrainedPool
  BY ConstantsAssumption DEF IInv, ClaimInv, PhaseInv, DrainInv, DrainedPool
<1> QED
  BY <1>1, <1>2, PTL

\* A finished run leaves no directory waiting for the analyze pool.
THEOREM CascadeIsComplete == Spec => []CascadeComplete
<1>1. Spec => [](IInv /\ DrainInv)
  BY InitIInv, NextIInv, InitDrainInv, NextDrainInv, PTL DEF Spec
<1>2. DrainInv => CascadeComplete
  BY DEF DrainInv, CascadeComplete
<1> QED
  BY <1>1, <1>2, PTL
-----------------------------------------------------------------------------
(* The pipeline implements the file queue: each step of a slot, the walker *)
(* or the main task is a step of FileQueue, or changes nothing it sees.    *)

Holding == {"fetch", "landed", "broken"}

Holds == [s \in Slots |-> IF spc[s] \in Holding THEN sfile[s] ELSE None]

Stranding ==
  \E f \in Files :
    /\ fileState[f] = "detected"
    /\ fileState' = [fileState EXCEPT ![f] = "downloading"]
    /\ UNCHANGED Holds

Losing ==
  \E W \in SUBSET Slots :
    /\ Holds' = [s \in Slots |-> IF s \in W THEN None ELSE Holds[s]]
    /\ UNCHANGED fileState

\* FileQueue's next-state relation in the pipeline's own variables.
QueueStep ==
  \/ \E F \in SUBSET Files :
       /\ \A f \in F : fileState[f] = "none"
       /\ fileState' = [f \in Files |-> IF f \in F THEN "detected" ELSE fileState[f]]
       /\ UNCHANGED Holds
  \/ \E F \in SUBSET Files :
       /\ \A s \in Slots : Holds[s] = None
       /\ \A f \in F : fileState[f] = "downloading"
       /\ fileState' = [f \in Files |-> IF f \in F THEN "detected" ELSE fileState[f]]
       /\ UNCHANGED Holds
  \/ \E s \in Slots, f \in Files :
       /\ Holds[s] = None /\ fileState[f] = "detected"
       /\ fileState' = [fileState EXCEPT ![f] = "downloading"]
       /\ Holds' = [Holds EXCEPT ![s] = f]
  \/ \E s \in Slots, verdict \in {"synced", "failed"} :
       /\ Holds[s] # None
       /\ fileState' = [fileState EXCEPT ![Holds[s]] = verdict]
       /\ Holds' = [Holds EXCEPT ![s] = None]
  \/ Stranding
  \/ Losing
  \/ UNCHANGED <<fileState, Holds>>

LEMMA QueueStepImplements == QueueStep => [Queue!QNext]_(Queue!qvars)
BY DEF QueueStep, Stranding, Losing, Holds, Holding, Queue!QNext, Queue!qvars, Queue!Track, Queue!Recover,
       Queue!Claim, Queue!Settle, Queue!Strand, Queue!Lose

\* The end of a process loses every worker.
LEMMA EndLoses ==
  ASSUME IInv, ProcessEnds, UNCHANGED fileState PROVE QueueStep
<1>1. Holds' = [s \in Slots |-> IF s \in Slots THEN None ELSE Holds[s]]
  BY DEF ProcessEnds, Holds, Holding
<1> QED
  BY <1>1 DEF QueueStep, Losing

\* The sweep runs at the start of a run, when no slot holds anything.
LEMMA SweepRecovers ==
  ASSUME IInv, phase \in {"start", "done"}, stale_file_sweep \/ UNCHANGED fileState,
         \A s \in Slots : spc'[s] \notin Holding
  PROVE  QueueStep
<1>1. \A s \in Slots : Holds[s] = None /\ Holds'[s] = None
  BY DEF IInv, ClaimInv, PhaseInv, Holds, Holding
<1>2. UNCHANGED Holds
  BY <1>1 DEF Holds
<1>3. CASE stale_file_sweep
  BY <1>1, <1>2, <1>3 DEF stale_file_sweep, QueueStep, IInv, TypeOK
<1>4. CASE UNCHANGED fileState
  BY <1>2, <1>4 DEF QueueStep
<1> QED
  BY <1>3, <1>4

LEMMA MainQueueStep ==
  ASSUME IInv, MainStep \/ StartFault \/ Crash PROVE QueueStep
<1>1. CASE Boot
  <2>1. UNCHANGED Holds
    BY <1>1 DEF Boot, Holds, slots
  <2>2. \A f \in Files : fileId[f] = 0 => fileState[f] = "none"
    BY DEF IInv, ClaimInv, RowsInv
  <2> QED
    BY <1>1, <2>1, <2>2 DEF Boot, QueueStep
<1>2. CASE StartRun
  BY <1>2, SweepRecovers DEF StartRun, Holding
<1>3. CASE StartFault
  BY <1>3, SweepRecovers DEF StartFault, ProcessEnds, Holding
<1>4. CASE SignalDrain
  BY <1>4 DEF SignalDrain, QueueStep, Holds, slots, fileRows
<1>5. CASE JoinDownloaders \/ JoinAnalyze \/ Exit \/ Crash
  <2>1. UNCHANGED fileState /\ (ProcessEnds \/ UNCHANGED slots)
    BY <1>5 DEF JoinDownloaders, JoinAnalyze, Exit, Crash, fileRows
  <2>2. CASE UNCHANGED slots
    BY <2>1, <2>2 DEF QueueStep, Holds, slots
  <2> QED
    BY <2>1, <2>2, EndLoses
<1> QED
  BY <1>1, <1>2, <1>3, <1>4, <1>5 DEF MainStep

LEMMA SlotQueueStep ==
  ASSUME IInv, NEW s \in Slots, SlotStep(s) PROVE QueueStep
<1> USE DEF Holding
<1>1. CASE SlotExit(s)
  BY <1>1 DEF SlotExit, Goto, QueueStep, Holds, fileRows, IInv, TypeOK
<1>2. CASE claim_file(s)
  <2>1. PICK f \in Eligible :
          /\ fileState' = [fileState EXCEPT ![f] = "downloading"]
          /\ sfile' = [sfile EXCEPT ![s] = f]
    BY <1>2 DEF claim_file, MarkDownloading
  <2>2. f \in Files /\ fileState[f] = "detected"
    BY DEF Eligible
  <2>3. spc[s] = "idle" /\ spc' = [spc EXCEPT ![s] = "fetch"]
    BY <1>2 DEF claim_file, Goto
  <2>4. Holds[s] = None /\ Holds' = [Holds EXCEPT ![s] = f]
    BY <2>1, <2>3 DEF Holds, IInv, TypeOK
  <2> QED
    BY <2>1, <2>2, <2>4 DEF QueueStep
<1>3. CASE ClaimLost(s)
  <2>1. PICK f \in Eligible : fileState' = [fileState EXCEPT ![f] = "downloading"]
    BY <1>3 DEF ClaimLost, MarkDownloading
  <2>2. f \in Files /\ fileState[f] = "detected"
    BY DEF Eligible
  <2>3. UNCHANGED Holds
    BY <1>3 DEF ClaimLost, Holds, slots
  <2> QED
    BY <2>1, <2>2, <2>3 DEF QueueStep, Stranding
<1>4. CASE DownloadOk(s) \/ DownloadErr(s)
  <2>1. /\ spc[s] = "fetch" /\ UNCHANGED <<sfile, fileState>>
        /\ \E step \in {"landed", "broken"} : spc' = [spc EXCEPT ![s] = step]
    BY <1>4 DEF DownloadOk, DownloadErr, Goto, fileRows
  <2> QED
    BY <2>1 DEF QueueStep, Holds, IInv, TypeOK
<1>5. CASE set_file_synced(s) \/ set_file_failed(s)
  <2>1. PICK verdict \in {"synced", "failed"} :
          fileState' = [fileState EXCEPT ![sfile[s]] = verdict]
    BY <1>5 DEF set_file_synced, set_file_failed, SetFileState
  <2>2. PICK step \in {"settled", "publish"} : spc' = [spc EXCEPT ![s] = step]
    BY <1>5 DEF set_file_synced, set_file_failed, Goto
  <2>3. spc[s] \in {"landed", "broken"} /\ UNCHANGED sfile
    BY <1>5 DEF set_file_synced, set_file_failed
  <2>4. Holds[s] = sfile[s] /\ Holds[s] # None /\ Holds' = [Holds EXCEPT ![s] = None]
    BY <2>2, <2>3 DEF Holds, IInv, TypeOK, ClaimInv, HoldInv, Working
  <2> QED
    BY <2>1, <2>4 DEF QueueStep
<1>6. CASE try_complete_directory(s)
  BY <1>6 DEF try_complete_directory, Goto, QueueStep, Holds, fileRows, IInv, TypeOK
<1>7. CASE SlotPublish(s)
  BY <1>7 DEF SlotPublish, Goto, QueueStep, Holds, fileRows, IInv, TypeOK
<1>8. CASE SlotFault(s)
  <2>1. Holds' = [t \in Slots |-> IF t \in {s} THEN None ELSE Holds[t]]
    BY <1>8 DEF SlotFault, Goto, Holds, IInv, TypeOK
  <2>2. UNCHANGED fileState
    BY <1>8 DEF SlotFault, fileRows
  <2>3. {s} \in SUBSET Slots
    OBVIOUS
  <2>4. Losing
    BY <2>1, <2>2, <2>3 DEF Losing
  <2> QED
    BY <2>4 DEF QueueStep
<1> QED
  BY <1>1, <1>2, <1>3, <1>4, <1>5, <1>6, <1>7, <1>8 DEF SlotStep

LEMMA NextQueueStep == IInv /\ [Next]_vars => QueueStep
<1> SUFFICES ASSUME IInv, [Next]_vars PROVE QueueStep
  OBVIOUS
<1>1. CASE \E f \in Files : WalkRow(f)
  <2>1. PICK f \in Files : WalkRow(f)
    BY <1>1
  <2>2. UNCHANGED Holds
    BY <2>1 DEF WalkRow, Holds, slots
  <2>3. CASE fileId[f] = 0
    <3>1. fileState[f] = "none" /\ fileState' = [fileState EXCEPT ![f] = "detected"]
      BY <2>1, <2>3 DEF WalkRow, upsert_file_downloads_row, IInv, ClaimInv, RowsInv
    <3>2. fileState' = [g \in Files |-> IF g \in {f} THEN "detected" ELSE fileState[g]]
      BY <3>1 DEF IInv, TypeOK
    <3>3. \A g \in {f} : fileState[g] = "none"
      BY <3>1
    <3> QED
      BY <2>2, <3>2, <3>3 DEF QueueStep
  <2>4. CASE fileId[f] # 0
    BY <2>1, <2>2, <2>4 DEF WalkRow, upsert_file_downloads_row, QueueStep
  <2> QED
    BY <2>3, <2>4
<1>2. CASE UNCHANGED claimVars
  BY <1>2 DEF claimVars, QueueStep, Holds
<1>3. CASE \E s \in Slots : SlotStep(s)
  BY <1>3, SlotQueueStep
<1> QED
  BY <1>1, <1>2, <1>3, MainQueueStep, OtherStepsKeepClaims DEF Next, WalkStep, AnalyzeStep

\* The rows of file_downloads, whatever the walker, the drain, the restarts
\* and the directory rows do, are the queue that module FileQueue specifies.
THEOREM ImplementsFileQueue == Spec => QueueSpec
<1>1. Init => Queue!QInit
  BY DEF Init, Queue!QInit
<1>2. IInv /\ [Next]_vars => [Queue!QNext]_(Queue!qvars)
  BY NextQueueStep, QueueStepImplements
<1> QED
  BY <1>1, <1>2, InitIInv, NextIInv, PTL DEF Spec, QueueSpec, Queue!QSpec
=============================================================================
