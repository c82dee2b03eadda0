------------------------------- MODULE Rename -------------------------------
(***************************************************************************)
(* worker_pool.rs, RenameSlotWorker, and rename.rs, rename_directory: the  *)
(* files of one staging directory get their final names, one fs::rename    *)
(* after the other, each followed by two calls that record it in table     *)
(* `files`. A failure or a crash leaves the tree half renamed; the next    *)
(* walk makes the row claimable again and the worker starts from what it   *)
(* then finds on disk.                                                     *)
(*                                                                         *)
(* disk[p] is the file that a path holds, identified by the path it was    *)
(* downloaded to; fs::rename replaces what is at its target. WalkDir lists *)
(* in no particular order, so any video at the root may be the primary     *)
(* one, and the HashMap of renames is emptied in any order. The metadata   *)
(* lookup changes no name; module Library has what becomes of its answer.  *)
(* The codec is never swapped (will_change_codec is false).                *)
(***************************************************************************)
EXTENDS Names, FiniteSets, Functions

CONSTANTS Trees,         \* the trees the downloader may have left
          NoFile,        \* "no primary video" and "no rename in hand"
          MaxFaults,     \* bound on failing calls and crashes
          MaxDownloads   \* bound on the times the remote replaces files

\* Where a file is: at the root of the staging directory or below it.
Paths == [dir : {"root", "sub"}, name : Seq(STRING)]

\* (That the separators are strings is stated for the provers, which do not know it.)
ASSUME RenameAssumption ==
  /\ Separators \cup {group_name} \subseteq STRING
  /\ \A tree \in Trees : IsFiniteSet(tree) /\ tree \subseteq Paths
  /\ NoFile \notin Paths \cup [original : Paths, renamed : Paths]
  /\ MaxFaults \in Nat /\ MaxDownloads \in Nat

VARIABLES
  tree,       \* the files of the directory, by the path they are downloaded to
  disk,       \* what is where in staging
  row,        \* the row of the directory
  pc,         \* the worker: "idle", "scan", "apply", "insert", "update", "fail"
  rename_map, \* the renames still to do, old path to new
  done,       \* the rename in hand, done on disk
  files,      \* table files: <<original_name, renamed_name>> pairs
  faults, downloads

vars == <<tree, disk, row, pc, rename_map, done, files, faults, downloads>>

Empty == <<>>

Fault == faults < MaxFaults /\ faults' = faults + 1
-----------------------------------------------------------------------------
(* The plan.                                                               *)

AtRoot(path) == path.dir = "root"

\* The primary video: any video file at the root.
primary_video(paths) ==
  LET found == {p \in paths : AtRoot(p) /\ is_video_file(p.name)}
  IN  IF found = {} THEN {NoFile} ELSE found

\* Where rename_directory puts the file at `path`.
new_path(path, primary) ==
  [path EXCEPT !.name =
     IF ~is_video_file(@) /\ AtRoot(path) /\ primary # NoFile
     THEN rename_non_video_to_match(@, split_basename(rename_file(primary.name)).stem)
     ELSE rename_file(@)]

RenameMap(paths, primary) ==
  [p \in {p \in paths : new_path(p, primary) # p} |-> new_path(p, primary)]

\* fs::rename: what was at the target is gone.
Renamed(d, old, new) ==
  [p \in (DOMAIN d \cup {new}) \ {old} |-> IF p = new THEN d[old] ELSE d[p]]
-----------------------------------------------------------------------------
Init ==
  /\ tree \in Trees
  /\ disk = [p \in tree |-> p]
  /\ row = "analyzed"
  /\ pc = "idle" /\ rename_map = Empty /\ done = NoFile
  /\ files = {}
  /\ faults = 0 /\ downloads = 0

claim_analyzed_row ==
  /\ row = "analyzed" /\ pc = "idle"
  /\ row' = "renaming"
  /\ pc' = "scan"
  /\ UNCHANGED <<tree, disk, rename_map, done, files, faults, downloads>>

\* The tree is listed, the primary video chosen, every new name computed.
Scan ==
  /\ pc = "scan"
  /\ \E p \in primary_video(DOMAIN disk) : rename_map' = RenameMap(DOMAIN disk, p)
  /\ pc' = "apply"
  /\ UNCHANGED <<tree, disk, row, done, files, faults, downloads>>

\* Mistake: a file that cannot be renamed is cleaned away.
ApplyOrRemove ==
  /\ pc = "apply"
  /\ \E old \in DOMAIN rename_map :
       \/ /\ disk' = Renamed(disk, old, rename_map[old])
          /\ rename_map' = Restrict(rename_map, DOMAIN rename_map \ {old})
          /\ done' = [original |-> old, renamed |-> rename_map[old]]
          /\ pc' = "insert"
          /\ UNCHANGED faults
       \/ /\ Fault /\ pc' = "fail"
          /\ disk' = Restrict(disk, DOMAIN disk \ {old})
          /\ UNCHANGED <<rename_map, done>>
  /\ UNCHANGED <<tree, row, files, downloads>>

\* One rename on disk, or it fails: ENOENT if the source is not there any more.
ApplyRename ==
  /\ pc = "apply"
  /\ \E old \in DOMAIN rename_map :
       \/ /\ old \in DOMAIN disk
          /\ disk' = Renamed(disk, old, rename_map[old])
          /\ rename_map' = Restrict(rename_map, DOMAIN rename_map \ {old})
          /\ done' = [original |-> old, renamed |-> rename_map[old]]
          /\ pc' = "insert"
          /\ UNCHANGED faults
       \/ /\ \/ old \notin DOMAIN disk /\ UNCHANGED faults
             \/ Fault
          /\ pc' = "fail"
          /\ UNCHANGED <<disk, rename_map, done>>
  /\ UNCHANGED <<tree, row, files, downloads>>

\* The audit row, under the old name only.
insert_file ==
  /\ pc = "insert"
  /\ \/ /\ files' = files \cup {[done EXCEPT !.renamed = NoFile]}
        /\ pc' = "update"
        /\ UNCHANGED faults
     \/ Fault /\ pc' = "fail" /\ UNCHANGED files
  /\ UNCHANGED <<tree, disk, row, rename_map, done, downloads>>

update_file_renamed ==
  /\ pc = "update"
  /\ \/ /\ files' = (files \ {[done EXCEPT !.renamed = NoFile]}) \cup {done}
        /\ done' = NoFile
        /\ pc' = "apply"
        /\ UNCHANGED faults
     \/ Fault /\ pc' = "fail" /\ UNCHANGED <<files, done>>
  /\ UNCHANGED <<tree, disk, row, rename_map, downloads>>

\* The worker has let go of the directory.
Leave == pc' = "idle" /\ rename_map' = Empty /\ done' = NoFile

\* Every rename is done: the row becomes renamed, or that call fails and the
\* row stays in flight.
PublishRenamed ==
  /\ pc = "apply" /\ rename_map = Empty
  /\ \/ row' = "renamed" /\ UNCHANGED faults
     \/ Fault /\ UNCHANGED row
  /\ Leave
  /\ UNCHANGED <<tree, disk, files, downloads>>

PublishFailed ==
  /\ pc = "fail"
  /\ \/ row' = "rename_failed" /\ UNCHANGED faults
     \/ Fault /\ UNCHANGED row
  /\ Leave
  /\ UNCHANGED <<tree, disk, files, downloads>>

\* The process dies: the row stays in renaming, nothing sweeps it.
Crash ==
  /\ pc # "idle"
  /\ Fault
  /\ Leave
  /\ UNCHANGED <<tree, disk, row, files, downloads>>
-----------------------------------------------------------------------------
(* The next walk.                                                          *)

\* upsert_directory: a failed rename is tried again.
ResetFailed ==
  /\ row = "rename_failed"
  /\ row' = "analyzed"
  /\ UNCHANGED <<tree, disk, pc, rename_map, done, files, faults, downloads>>

\* The manifest has changed: whatever state the row is in, it starts again, and
\* some files are downloaded again to where they were.
Redownload ==
  /\ pc = "idle" /\ row # "analyzed"
  /\ downloads < MaxDownloads /\ downloads' = downloads + 1
  /\ \E again \in SUBSET tree \ {{}} :
       disk' = [p \in DOMAIN disk \cup again |-> IF p \in again THEN p ELSE disk[p]]
  /\ row' = "analyzed"
  /\ UNCHANGED <<tree, pc, rename_map, done, files, faults>>

Next ==
  \/ claim_analyzed_row \/ Scan \/ ApplyRename
  \/ insert_file \/ update_file_renamed
  \/ PublishRenamed \/ PublishFailed \/ Crash
  \/ ResetFailed \/ Redownload

Spec == Init /\ [][Next]_vars
-----------------------------------------------------------------------------
TypeOK ==
  /\ tree \in Trees
  /\ \A p \in DOMAIN disk : disk[p] \in tree
  /\ row \in {"analyzed", "renaming", "renamed", "rename_failed"}
  /\ pc \in {"idle", "scan", "apply", "insert", "update", "fail"}
  /\ pc # "idle" => row = "renaming"
  /\ DOMAIN rename_map \subseteq DOMAIN disk
  /\ pc \in {"insert", "update"} => done # NoFile

\* Names that keep their extension when they change: those that have one, after more than
\* `.sample`. (README gets the stem of the video as its name; in a second pass what
\* follows the last dot of that is an extension, and the name grows. `.sample.mkv` is
\* .mkv, a name without extension, when the suffix is cut off.)
KeepsExtension(path) ==
  LET base == split_basename(path.name)
  IN  base.ext # <<>> /\ strip_sample_suffix(base.stem) # <<>>

ProperNames == \A f \in tree : KeepsExtension(f)

\* Two files of the tree may be given the same new path.
Collide ==
  \E f, g \in tree : \E p, q \in primary_video(tree) :
    f # g /\ new_path(f, p) = new_path(g, q)

\* Only two files with one new name can cost a file: in a tree of proper names where
\* no two collide, every file that was downloaded is in staging at every moment,
\* however often the rename is interrupted, repeated from a half-renamed tree
\* (with another primary video, perhaps), or mixed with new downloads.
OnlyCollisionsLose == ProperNames /\ Range(disk) # tree => Collide

\* The names of a renamed directory do not tell whether its rename was ever
\* interrupted: they are those of one undisturbed pass over the downloaded tree.
SameAsUninterrupted ==
  row = "renamed" /\ ProperNames =>
    \E primary \in primary_video(tree) :
      /\ DOMAIN disk = {new_path(f, primary) : f \in tree}
      /\ \A p \in DOMAIN disk : p = new_path(disk[p], primary)

\* Names whose title is found again under the new name: those with a word that is no noise
\* (1917-GRP has none: the title is the whole stem), not of the form `group-title` (our group
\* is no group there), and without a second `.sample` (it would be cut off in a second pass).
KeepsTitle(name) ==
  LET meta == parse_release_metadata(name)
  IN  /\ clean_local_title(meta.without_group) # <<>>
      /\ \A g \in meta.group : g.style # "leading_unbracketed"
      /\ ~is_sample(strip_sample_suffix(split_basename(name).stem))

\* The move worker of a later process derives the title from the renamed video
\* (the title found by the rename worker is lost with its process): it is the
\* title of the name it was downloaded under, if the parser takes the configured
\* group for one.
TitleSurvivesRename ==
  row = "renamed" /\ ~Rejected(<<group_name>>) =>
    \A p \in DOMAIN disk :
      LET f == disk[p]
      IN  is_video_file(f.name) /\ KeepsExtension(f) /\ KeepsTitle(f.name)
            => LocalTitle(p.name) = LocalTitle(f.name)
=============================================================================
