------------------------------- MODULE Library ------------------------------
(***************************************************************************)
(* The end of the pipeline: the rename pool and the move pool (one slot    *)
(* each, worker_pool.rs), layout.rs, library.rs, and the Plex scan that    *)
(* follows. run_full does not construct these pools at this commit; they   *)
(* are modelled as the module comment of pipeline.rs says they are to be   *)
(* connected again, over the rows MediaSync leaves `analyzed`.             *)
(*                                                                         *)
(* A directory is its files, numbered as they appear on the remote. What   *)
(* MediaSync does with a new file (detect, download, analyze) is one step  *)
(* here, NewFile: files that were downloaded once are not downloaded       *)
(* again, so staging holds the new file and what was still there. Which    *)
(* names the files get is module Rename.                                   *)
(*                                                                         *)
(* lib maps each existing path of the library to what lies there; owners   *)
(* of the library put directories in it and Tdarr re-encodes in place. Two *)
(* trees are compared by path, size and seconds of mtime of their files,   *)
(* so files that look alike count as the same, whosever they are.          *)
(***************************************************************************)
EXTENDS Naturals, FiniteSets, Functions

CONSTANTS Dirs,          \* the directories
          LayoutAware,   \* those of the categories movies and tvshows, which hold videos
          Likeness,      \* Likeness[d]: how the files of d look; directories of one
                         \* likeness have files of the same paths, sizes and seconds
          Canonicals,    \* what the metadata lookup may answer: [title, year]
          None,          \* "no answer", "no year", "no path", "no directory"
          user,          \* owner of what the pipeline has not put there
          MaxEvents      \* bound on new files, failing calls, crashes, and what
                         \* others do to the library, together

ASSUME LibraryAssumption ==
  /\ LayoutAware \subseteq Dirs /\ DOMAIN Likeness = Dirs
  /\ None \notin Dirs \cup Canonicals /\ user \notin Dirs \cup {None}
  /\ MaxEvents \in Nat

VARIABLES
  row,           \* state of the row
  library_path,  \* column library_path
  stamped,       \* rows with a plex_scan_at
  arrived,       \* how many files the directory has had
  staging,       \* the files in the staging directory, {}: it does not exist
  lib, backups,  \* the library; what lies in `<name>.old.<time>` beside it
  canonical_titles, \* the shared map: None until the rename worker writes to it
  answer,        \* what the last lookup of this run found for the directory
  rpc, rdir,     \* the rename worker
  mpc, mdir, final_library_path, \* the move worker
  unseen,        \* directories Plex has not scanned since they were moved
  events, faults,\* how many of them, and how many failing calls and crashes
  \* History, which no action looks at:
  torn,          \* directories whose staging was removed in part
  overtaken,     \* directories whose row was reset while a worker held it
  mistaken       \* <<d, f>>: file f of d was removed from staging because one that
                 \* looks like it, but is not it, lies in the library

rows   == <<row, library_path, stamped>>
disks  == <<arrived, staging, lib, backups, unseen, torn, overtaken, mistaken>>
titles == <<canonical_titles, answer>>
rename == <<rpc, rdir>>
move   == <<mpc, mdir, final_library_path>>
bounds == <<events, faults>>

vars == <<rows, disks, titles, rename, move, bounds>>

Event == events < MaxEvents /\ events' = events + 1

Fault == Event /\ faults' = faults + 1

\* What lies in the staging directory of d.
Tree(d) == [of |-> d, likeness |-> Likeness[d], files |-> staging[d], encoded |-> FALSE]

\* The manifest: path, size and seconds of mtime of each file. Neither the bytes nor the
\* owner are in it; a re-encoded file has another size and time.
compute_dir_manifest_hash(c) == <<c.likeness, c.files, c.encoded>>

Init ==
  /\ row = [d \in Dirs |-> "analyzed"]
  /\ library_path = [d \in Dirs |-> None]
  /\ stamped = {} /\ unseen = {}
  /\ torn = {} /\ overtaken = {} /\ mistaken = {}
  /\ arrived = [d \in Dirs |-> 1]
  /\ staging = [d \in Dirs |-> {1}]
  /\ lib = <<>> /\ backups = {}
  /\ canonical_titles = [d \in Dirs |-> None]
  /\ answer = [d \in Dirs |-> None]
  /\ rpc = "idle" /\ rdir = None
  /\ mpc = "idle" /\ mdir = None /\ final_library_path = None
  /\ events = 0 /\ faults = 0
-----------------------------------------------------------------------------
(* The rename worker.                                                      *)

claim_analyzed_row ==
  /\ rpc = "idle"
  /\ \E d \in Dirs :
       /\ row[d] = "analyzed"
       /\ row' = [row EXCEPT ![d] = "renaming"]
       /\ rdir' = d
  /\ rpc' = "process"
  /\ UNCHANGED <<library_path, stamped, disks, titles, move, bounds>>

\* rename_directory: if there is a video (an album has none) it is looked up, with an
\* answer or without; the renames work or fail.
RenameDirectory ==
  /\ rpc = "process"
  /\ \/ /\ \E c \in Canonicals \cup {None} :
             /\ c # None => rdir \in LayoutAware /\ staging[rdir] # {}
             /\ answer' = [answer EXCEPT ![rdir] = c]
        /\ rpc' = "write"
        /\ UNCHANGED bounds
     \/ /\ Fault /\ rpc' = "fail"
        /\ UNCHANGED answer
  /\ UNCHANGED <<rows, disks, canonical_titles, rdir, move>>

\* Mistake: the row is published first, the map written after.
WriteTitleLate ==
  /\ rpc = "write"
  /\ \/ /\ row[rdir] = "renaming"
        /\ row' = [row EXCEPT ![rdir] = "renamed"]
        /\ UNCHANGED <<canonical_titles, rpc>>
     \/ /\ row[rdir] # "renaming"
        /\ canonical_titles' = [canonical_titles EXCEPT ![rdir] = answer[rdir]]
        /\ rpc' = "publish"
        /\ UNCHANGED row
  /\ UNCHANGED <<library_path, stamped, disks, answer, rdir, move, bounds>>

\* The answer goes to the shared map before the row becomes claimable.
WriteTitle ==
  /\ rpc = "write"
  /\ canonical_titles' = [canonical_titles EXCEPT ![rdir] = answer[rdir]]
  /\ rpc' = "publish"
  /\ UNCHANGED <<rows, disks, answer, rdir, move, bounds>>

\* A slot whose row failed, or whose call failed, ends; the row stays in flight
\* if that call was to publish it.
PublishRename ==
  \/ /\ rpc = "publish"
     /\ row' = [row EXCEPT ![rdir] = "renamed"]
     /\ rpc' = "idle" /\ rdir' = None
     /\ UNCHANGED <<library_path, stamped, disks, titles, move, bounds>>
  \/ /\ rpc = "fail"
     /\ row' = [row EXCEPT ![rdir] = "rename_failed"]
     /\ rpc' = "halted" /\ rdir' = None
     /\ UNCHANGED <<library_path, stamped, disks, titles, move, bounds>>
  \/ /\ rpc \in {"publish", "fail"}
     /\ Fault
     /\ rpc' = "halted" /\ rdir' = None
     /\ UNCHANGED <<rows, disks, titles, move>>
-----------------------------------------------------------------------------
(* The move worker.                                                        *)

Category(d) == IF d \in LayoutAware THEN "movies" ELSE "music"

Path(category, name) == [category |-> category, name |-> name]

LocalTitle == "lain"   \* every video of the model parses to this title

\* The first free path of: title, title and year, title and the least number.
resolve_destination(category, title, year) ==
  LET Free(path) == path \notin DOMAIN lib
      plain      == Path(category, <<title>>)
      with_year  == Path(category, <<title, year>>)
      numbered   == {n \in 2..999 : Free(Path(category, <<title, n>>))}
  IN  IF Free(plain) THEN plain
      ELSE IF year # None /\ Free(with_year) THEN with_year
      ELSE IF numbered # {}
           THEN Path(category, <<title, CHOOSE n \in numbered : \A m \in numbered : n <= m>>)
      ELSE Path(category, <<title, "timestamp">>)

\* The title found by the rename worker, or parsed from the video in staging,
\* or the name of the directory.
TitleAndYear(d) ==
  IF canonical_titles[d] # None THEN canonical_titles[d]
  ELSE [title |-> IF staging[d] # {} THEN LocalTitle ELSE d, year |-> None]

resolve_library_path(d) ==
  IF d \in LayoutAware
  THEN resolve_destination(Category(d), TitleAndYear(d).title, TitleAndYear(d).year)
  ELSE Path(Category(d), <<d>>)

claim_renamed_row ==
  /\ mpc = "idle"
  /\ \E d \in Dirs :
       /\ row[d] = "renamed"
       /\ row' = [row EXCEPT ![d] = "moving"]
       /\ mdir' = d
  /\ mpc' = "resolve"
  /\ UNCHANGED <<library_path, stamped, disks, titles, rename, final_library_path, bounds>>

Resolve ==
  /\ mpc = "resolve"
  /\ final_library_path' = resolve_library_path(mdir)
  /\ mpc' = "check"
  /\ UNCHANGED <<rows, disks, titles, rename, mdir, bounds>>

\* Mistake: two directories of one release count as identical.
CheckOwner ==
  /\ mpc = "check"
  /\ mpc' = IF final_library_path \notin DOMAIN lib THEN "rename"
            ELSE IF lib[final_library_path].of = mdir THEN "dedup" ELSE "backup"
  /\ UNCHANGED <<rows, disks, titles, rename, mdir, final_library_path, bounds>>

\* Is the path taken, and by a tree of the same manifest? A missing staging directory
\* has the manifest of an empty one.
CheckDestination ==
  /\ mpc = "check"
  /\ mpc' = IF final_library_path \notin DOMAIN lib THEN "rename"
            ELSE IF compute_dir_manifest_hash(lib[final_library_path])
                      = compute_dir_manifest_hash(Tree(mdir))
            THEN "dedup" ELSE "backup"
  /\ UNCHANGED <<rows, disks, titles, rename, mdir, final_library_path, bounds>>

\* What is there passes for identical: staging is removed; if that fails, a part of it is.
RemoveDuplicate ==
  /\ mpc = "dedup"
  /\ \/ /\ staging' = [staging EXCEPT ![mdir] = {}]
        /\ mpc' = "record"
        /\ UNCHANGED <<torn, bounds>>
     \/ /\ Fault /\ mpc' = "fail"
        /\ \E left \in SUBSET staging[mdir] : staging' = [staging EXCEPT ![mdir] = left]
        /\ torn' = torn \cup {mdir}
  /\ mistaken' = IF lib[final_library_path].of = mdir THEN mistaken
                 ELSE mistaken \cup {<<mdir, f>> : f \in staging[mdir] \ staging'[mdir]}
  /\ UNCHANGED <<rows, arrived, lib, backups, unseen, overtaken, titles, rename, mdir,
                 final_library_path>>

\* Mistake: what is in the way is replaced, not kept.
Overwrite ==
  /\ mpc = "backup"
  /\ lib' = Restrict(lib, DOMAIN lib \ {final_library_path})
  /\ mpc' = "rename"
  /\ UNCHANGED <<rows, arrived, staging, backups, unseen, overtaken, torn, mistaken, titles,
                 rename, mdir, final_library_path, bounds>>

\* What is in the way is renamed to `<name>.old.<time>`.
BackUp ==
  /\ mpc = "backup"
  /\ \/ /\ final_library_path \in DOMAIN lib
        /\ backups' = backups \cup {lib[final_library_path]}
        /\ lib' = Restrict(lib, DOMAIN lib \ {final_library_path})
        /\ mpc' = "rename"
        /\ UNCHANGED bounds
     \/ /\ Fault /\ mpc' = "fail"
        /\ UNCHANGED <<lib, backups>>
  /\ UNCHANGED <<rows, arrived, staging, unseen, overtaken, torn, mistaken, titles, rename,
                 mdir, final_library_path>>

\* fs::rename fails on a source that is missing and on a target that is not
\* empty. Plex has not seen what is moved.
MoveTree ==
  /\ mpc = "rename"
  /\ \/ /\ staging[mdir] # {} /\ final_library_path \notin DOMAIN lib
        /\ lib' = [p \in DOMAIN lib \cup {final_library_path} |->
                     IF p = final_library_path THEN Tree(mdir) ELSE lib[p]]
        /\ staging' = [staging EXCEPT ![mdir] = {}]
        /\ unseen' = unseen \cup {mdir}
        /\ mpc' = "record"
        /\ UNCHANGED bounds
     \/ /\ \/ staging[mdir] = {} /\ UNCHANGED bounds
           \/ final_library_path \in DOMAIN lib /\ UNCHANGED bounds
           \/ Fault
        /\ mpc' = "fail"
        /\ UNCHANGED <<lib, staging, unseen>>
  /\ UNCHANGED <<rows, arrived, backups, overtaken, torn, mistaken, titles, rename, mdir,
                 final_library_path>>

set_directory_library_path ==
  /\ mpc = "record"
  /\ \/ /\ library_path' = [library_path EXCEPT ![mdir] = final_library_path]
        /\ mpc' = "publish"
        /\ UNCHANGED bounds
     \/ /\ Fault /\ mpc' = "fail"
        /\ UNCHANGED library_path
  /\ UNCHANGED <<row, stamped, disks, titles, rename, mdir, final_library_path>>

PublishMove ==
  /\ mdir' = None /\ final_library_path' = None
  /\ UNCHANGED <<library_path, stamped, disks, titles, rename>>
  /\ \/ /\ mpc = "publish"
        /\ row' = [row EXCEPT ![mdir] = "in_library"]
        /\ mpc' = "idle" /\ UNCHANGED bounds
     \/ /\ mpc = "fail"
        /\ row' = [row EXCEPT ![mdir] = "move_failed"]
        /\ mpc' = "halted" /\ UNCHANGED bounds
     \/ /\ mpc \in {"publish", "fail"} /\ Fault
        /\ mpc' = "halted" /\ UNCHANGED row
-----------------------------------------------------------------------------
(* The run around them.                                                    *)

Resting == rpc \in {"idle", "halted"} /\ mpc \in {"idle", "halted"}

\* Mistake: every row of the category is stamped, whatever Plex answers.
StampAnyway(d) ==
  /\ Resting
  /\ row[d] = "in_library" /\ d \notin stamped
  /\ stamped' = stamped \cup {d}
  /\ UNCHANGED <<row, library_path, disks, titles, rename, move, bounds>>

\* trigger_plex_scans, once per category and run: Plex scans all of it, the one
\* row that led to the call is stamped; an answer that is an error stamps none.
trigger_plex_scans(d) ==
  /\ Resting
  /\ row[d] = "in_library" /\ d \notin stamped
  /\ \/ /\ stamped' = stamped \cup {d}
        /\ unseen' = {e \in unseen : Category(e) # Category(d)}
        /\ UNCHANGED bounds
     \/ /\ Fault
        /\ UNCHANGED <<stamped, unseen>>
  /\ UNCHANGED <<row, library_path, arrived, staging, lib, backups, overtaken, torn,
                 mistaken, titles, rename, move>>

\* Mistake: move_failed is not among the states the walker resets.
WalkNoMove(d) ==
  /\ row[d] = "rename_failed"
  /\ row' = [row EXCEPT ![d] = "analyzed"]
  /\ UNCHANGED <<library_path, stamped, disks, titles, rename, move, bounds>>

\* upsert_directory with the manifest it knows: the failed phase is tried again.
Walk(d) ==
  /\ row[d] \in {"rename_failed", "move_failed"}
  /\ row' = [row EXCEPT ![d] = IF @ = "rename_failed" THEN "analyzed" ELSE "renamed"]
  /\ UNCHANGED <<library_path, stamped, disks, titles, rename, move, bounds>>

\* A new file on the remote: the row goes back to the start, whoever holds it, the
\* file is downloaded, the row is analyzed.
NewFile(d) ==
  /\ Event
  /\ arrived' = [arrived EXCEPT ![d] = @ + 1]
  /\ staging' = [staging EXCEPT ![d] = @ \cup {arrived'[d]}]
  /\ overtaken' = IF d \in {rdir, mdir} THEN overtaken \cup {d} ELSE overtaken
  /\ row' = [row EXCEPT ![d] = "analyzed"]
  /\ UNCHANGED <<library_path, stamped, lib, backups, unseen, torn, mistaken, titles,
                 rename, move, faults>>

Forget ==
  /\ canonical_titles' = [d \in Dirs |-> None]
  /\ answer' = [d \in Dirs |-> None]

\* The next run starts both slots again, with a new map of titles.
NextRun ==
  /\ Resting /\ "halted" \in {rpc, mpc}
  /\ rpc' = "idle" /\ mpc' = "idle"
  /\ Forget
  /\ UNCHANGED <<rows, disks, rdir, mdir, final_library_path, bounds>>

\* Mistake: the move slot comes back with the row it held.
CrashKeepsRow ==
  /\ ~Resting
  /\ Fault
  /\ rpc' = "halted" /\ rdir' = None
  /\ mpc' = "halted"
  /\ Forget
  /\ UNCHANGED <<rows, disks, mdir, final_library_path>>

\* The process dies: rows in flight stay so.
Crash ==
  /\ ~Resting
  /\ Fault
  /\ rpc' = "halted" /\ rdir' = None
  /\ mpc' = "halted" /\ mdir' = None /\ final_library_path' = None
  /\ Forget
  /\ UNCHANGED <<rows, disks>>

\* Somebody puts a directory where d would go: a copy of what is in staging, times
\* included; other files of the same paths, sizes and seconds; or any other files.
UserAdds(d) ==
  /\ Event
  /\ LET path      == resolve_library_path(d)
         lookalike == [Tree(d) EXCEPT !.of = user]
         stranger  == [of |-> user, likeness |-> user, files |-> {1}, encoded |-> FALSE]
     IN  \E c \in {Tree(d), lookalike, stranger} :
           /\ path \notin DOMAIN lib /\ c.files # {}
           /\ lib' = [p \in DOMAIN lib \cup {path} |-> IF p = path THEN c ELSE lib[p]]
  /\ UNCHANGED <<rows, arrived, staging, backups, unseen, overtaken, torn, mistaken, titles,
                 rename, move, faults>>

\* Tdarr re-encodes a directory of the library.
Reencode(path) ==
  /\ Event
  /\ lib' = [lib EXCEPT ![path].encoded = TRUE]
  /\ UNCHANGED <<rows, arrived, staging, backups, unseen, overtaken, torn, mistaken, titles,
                 rename, move, faults>>

RenameStep == claim_analyzed_row \/ RenameDirectory \/ WriteTitle \/ PublishRename

MoveStep ==
  \/ claim_renamed_row \/ Resolve \/ CheckDestination
  \/ RemoveDuplicate \/ BackUp \/ MoveTree
  \/ set_directory_library_path \/ PublishMove

Next ==
  \/ RenameStep \/ MoveStep \/ NextRun \/ Crash
  \/ \E d \in Dirs : trigger_plex_scans(d) \/ Walk(d) \/ NewFile(d) \/ UserAdds(d)
  \/ \E path \in DOMAIN lib : Reencode(path)

Spec == Init /\ [][Next]_vars

\* The slots are tasks the runtime runs; runs follow each other.
FairSpec ==
  /\ Spec
  /\ WF_vars(RenameStep) /\ WF_vars(MoveStep) /\ WF_vars(NextRun)
  /\ \A d \in Dirs : WF_vars(Walk(d)) /\ SF_vars(trigger_plex_scans(d))
-----------------------------------------------------------------------------
TypeOK ==
  /\ row \in [Dirs -> {"analyzed", "renaming", "renamed", "rename_failed",
                       "moving", "in_library", "move_failed"}]
  /\ stamped \subseteq Dirs /\ unseen \subseteq Dirs /\ torn \subseteq Dirs /\ overtaken \subseteq Dirs
  /\ arrived \in [Dirs -> 1..1 + MaxEvents]
  /\ staging \in [Dirs -> SUBSET (1..1 + MaxEvents)]
  /\ \A p \in DOMAIN lib : lib[p].of \in Dirs \cup {user}
  /\ mistaken \subseteq Dirs \X (1..1 + MaxEvents)
  /\ canonical_titles \in [Dirs -> Canonicals \cup {None}]
  /\ answer \in [Dirs -> Canonicals \cup {None}]
  /\ rpc \in {"idle", "process", "write", "publish", "fail", "halted"}
  /\ mpc \in {"idle", "resolve", "check", "dedup", "backup", "rename", "record",
              "publish", "fail", "halted"}
  /\ (rdir = None) = (rpc \in {"idle", "halted"})
  /\ (mdir = None) = (mpc \in {"idle", "halted"})

\* c holds file f of d, or, for a lookalike, one that its manifest cannot tell from f.
Holds(c, d, f) == c.of = d /\ f \in c.files

LooksLike(c, d, f) == c.of # d /\ c.likeness = Likeness[d] /\ f \in c.files

\* Only a lookalike costs a file: every file that was ever downloaded exists, in staging, in
\* the library or in a backup beside it, whatever was in the way, however often a move was
\* interrupted or repeated; except those that were removed for duplicates of somebody else's
\* files of the same paths, sizes and seconds, and these lie there. (A file that is downloaded
\* after its directory was found to be a duplicate, and before that is removed, is removed too.)
OnlyLookalikesLose ==
  \A d \in Dirs \ overtaken : \A f \in 1..arrived[d] :
    \/ f \in staging[d]
    \/ \E c \in Range(lib) \cup backups : Holds(c, d, f)
    \/ <<d, f>> \in mistaken /\ \E c \in Range(lib) \cup backups : LooksLike(c, d, f)

\* Nothing in the library is destroyed, whoever put it there, also under a worker whose row was
\* reset: each step leaves it in its place or in a backup (re-encoded at most).
LibraryKept ==
  [][\A c \in Range(lib) \cup backups :
       {c, [c EXCEPT !.encoded = TRUE]} \cap (Range(lib') \cup backups') # {}]_vars

\* A row in the library leads to its own directory, or to the lookalike its files were taken
\* for. No other row leads there, and the file the row was last reset for is in it, or what
\* looks like it (unless removing a duplicate failed half-way, or the row was reset under a
\* worker, which then published its own state).
OwnPlace ==
  \A d \in Dirs : row[d] = "in_library" =>
    /\ library_path[d] \in DOMAIN lib
    /\ \/ lib[library_path[d]].of = d
       \/ \E f \in 1..arrived[d] :
            <<d, f>> \in mistaken /\ LooksLike(lib[library_path[d]], d, f)
    /\ d \notin torn \cup overtaken => arrived[d] \in lib[library_path[d]].files
    /\ \A e \in Dirs : row[e] = "in_library" /\ library_path[e] = library_path[d] => e = d

\* A directory whose title was found in this run is moved under that title: the
\* move worker, which is woken by the row, reads the map the rename worker wrote.
CanonicalTitleUsed ==
  mpc \in {"check", "rename"} /\ mdir \in LayoutAware \ overtaken /\ answer[mdir] # None =>
    final_library_path.name[1] = answer[mdir].title

\* Without a failing call, and while no row is reset under a worker, every directory
\* gets to the library, and again with each new file, whatever else is put there. (A
\* move that cannot be repeated fails for ever, and its slot ends with it.)
Shelved ==
  \A d \in Dirs :
    row[d] = "analyzed" ~> row[d] = "in_library" \/ faults > 0 \/ overtaken # {}

\* A directory that is in the library for the first time is scanned by Plex.
IngestReachesPlex ==
  \A d \in Dirs : row[d] = "in_library" /\ d \notin stamped
                    ~> d \notin unseen \/ row[d] # "in_library"
=============================================================================
