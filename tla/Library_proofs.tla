---------------------------- MODULE Library_proofs ---------------------------
(***************************************************************************)
(* Proofs about Library: no file is lost on the way to the library or in   *)
(* it but to a lookalike, a row leads to its own directory or to the       *)
(* lookalike it was taken for, and the title that was looked up is the one *)
(* it goes under, for any directories, likenesses, answers, failures and   *)
(* arrivals.                                                               *)
(***************************************************************************)
EXTENDS Library, FiniteSetTheorems, TLAPS

Copies == [of : Dirs \cup {user}, likeness : {Likeness[d] : d \in Dirs} \cup {user},
           files : (SUBSET Nat) \ {{}}, encoded : BOOLEAN]

TypeInv ==
  /\ TypeOK
  /\ rdir \in Dirs \cup {None} /\ mdir \in Dirs \cup {None}
  /\ events \in 0..MaxEvents
  /\ \A d \in Dirs : arrived[d] <= 1 + events
  /\ \A p \in DOMAIN lib : lib[p] \in Copies

\* The row a worker holds is in its state, unless it was reset meanwhile; it is not in
\* the library before the move worker says so.
WorkerInv ==
  /\ rdir # None /\ rdir \notin overtaken => row[rdir] = "renaming"
  /\ mdir # None => row[mdir] # "in_library" /\ (mdir \notin overtaken => row[mdir] = "moving")

\* The shared map says what the last lookup said, but for the moment before it is
\* written; the move worker works with what it says.
TitleInv ==
  /\ \A d \in Dirs : canonical_titles[d] = answer[d] \/ (rpc = "write" /\ rdir = d)
  /\ mpc \in {"check", "backup", "rename"} /\ mdir \in LayoutAware \ overtaken
       /\ answer[mdir] # None => final_library_path.name[1] = answer[mdir].title

\* Staging holds files that arrived: none, or the last one among them.
StagingInv ==
  \A d \in Dirs : /\ staging[d] \subseteq 1..arrived[d]
                  /\ staging[d] # {} /\ d \notin torn => arrived[d] \in staging[d]

\* Some file of d was removed because one in c looks like it.
TakenFor(c, d) == \E f \in 1..arrived[d] : <<d, f>> \in mistaken /\ LooksLike(c, d, f)

\* Once the tree is moved, or the destination passed for identical, the destination is a
\* copy of the directory or looks like one; what is then removed has its like there.
CopyInv ==
  /\ mpc \in {"dedup", "record", "publish"} =>
       /\ final_library_path \in DOMAIN lib
       /\ mdir \notin torn \cup overtaken => arrived[mdir] \in lib[final_library_path].files
  /\ mpc = "dedup" =>
       /\ lib[final_library_path].likeness = Likeness[mdir]
       /\ staging[mdir] \cap lib[final_library_path].files # {}
       /\ mdir \notin overtaken => staging[mdir] \subseteq lib[final_library_path].files
  /\ mpc \in {"record", "publish"} =>
       lib[final_library_path].of = mdir \/ TakenFor(lib[final_library_path], mdir)

IInv == TypeInv /\ WorkerInv /\ TitleInv /\ StagingInv /\ CopyInv /\ OnlyLookalikesLose
-----------------------------------------------------------------------------
(* Facts about the operators.                                              *)

LEMMA Names == /\ None \notin Dirs /\ None \notin Canonicals /\ user \notin Dirs
               /\ LayoutAware \subseteq Dirs /\ DOMAIN Likeness = Dirs /\ MaxEvents \in Nat
BY LibraryAssumption

LEMMA TitleKept ==
  ASSUME NEW category, NEW title, NEW year
  PROVE  /\ resolve_destination(category, title, year).name[1] = title
         /\ resolve_destination(category, title, year).category = category
BY DEF resolve_destination, Path

\* The least number that is free exists if one is.
LEMMA Least == ASSUME NEW S \in SUBSET Nat, S # {} PROVE \E n \in S : \A m \in S : n <= m
<1> DEFINE R == OpToRel(<, Nat)
<1>1. PICK n \in S : \A m \in S : ~ (<<m, n>> \in R)
  BY NatLessThanWellFounded, WFMin
<1>2. \A m \in S : ~ (m < n) BY <1>1 DEF OpToRel
<1> QED BY <1>2

\* The numbers that are free for a title. While there is one, the title goes where
\* nothing is.
Numbers(category, title) == {n \in 2..999 : Path(category, <<title, n>>) \notin DOMAIN lib}

LEMMA FreeDestination ==
  ASSUME NEW category, NEW title, NEW year, Numbers(category, title) # {}
  PROVE  resolve_destination(category, title, year) \notin DOMAIN lib
<1> DEFINE plain == Path(category, <<title>>)
           with_year == Path(category, <<title, year>>)
           numbered == Numbers(category, title)
           least == CHOOSE n \in numbered : \A m \in numbered : n <= m
<1>1. resolve_destination(category, title, year) =
        IF plain \notin DOMAIN lib THEN plain
        ELSE IF year # None /\ with_year \notin DOMAIN lib THEN with_year
        ELSE IF numbered # {} THEN Path(category, <<title, least>>)
        ELSE Path(category, <<title, "timestamp">>)
  BY DEF resolve_destination, Numbers
<1>2. numbered \in SUBSET Nat BY DEF Numbers
<1>3. \A n \in numbered : Path(category, <<title, n>>) \notin DOMAIN lib BY DEF Numbers
<1> HIDE DEF numbered
<1>4. \E n \in numbered : \A m \in numbered : n <= m BY <1>2, Least DEF numbered
<1>5. least \in numbered BY <1>4
<1> HIDE DEF least, plain, with_year
<1> QED BY <1>1, <1>3, <1>5

LEMMA Put ==
  ASSUME NEW p, NEW c,
         lib' = [q \in DOMAIN lib \cup {p} |-> IF q = p THEN c ELSE lib[q]]
  PROVE  /\ DOMAIN lib' = DOMAIN lib \cup {p} /\ lib'[p] = c
         /\ \A q \in DOMAIN lib \ {p} : lib'[q] = lib[q]
OBVIOUS
-----------------------------------------------------------------------------
(* What a step leaves alone.                                               *)

LEMMA SameWorker == WorkerInv /\ UNCHANGED <<rdir, mdir, row, overtaken>> => WorkerInv'
BY DEF WorkerInv

LEMMA SameTitle ==
  TitleInv /\ UNCHANGED <<canonical_titles, answer, rpc, rdir, mpc, mdir, overtaken,
                          final_library_path>> => TitleInv'
BY DEF TitleInv

LEMMA SameStaging == StagingInv /\ UNCHANGED <<staging, torn, arrived>> => StagingInv'
BY DEF StagingInv

LEMMA SameCopy ==
  CopyInv /\ UNCHANGED <<mpc, mdir, final_library_path, lib, arrived, staging, torn, overtaken,
                         mistaken>> => CopyInv'
BY DEF CopyInv, TakenFor, LooksLike

\* e is c, apart from its encoding.
Same(c, e) == e.of = c.of /\ e.likeness = c.likeness /\ e.files = c.files

LEMMA SameFiles ==
  ASSUME OnlyLookalikesLose, UNCHANGED <<overtaken, arrived, staging, mistaken>>,
         \A c \in Range(lib) \cup backups : \E e \in Range(lib') \cup backups' : Same(c, e)
  PROVE  OnlyLookalikesLose'
<1> SUFFICES ASSUME NEW d \in Dirs \ overtaken, NEW f \in 1..arrived[d], f \notin staging[d]
             PROVE  \/ \E c \in Range(lib') \cup backups' : Holds(c, d, f)
                    \/ /\ <<d, f>> \in mistaken
                       /\ \E c \in Range(lib') \cup backups' : LooksLike(c, d, f)
  BY DEF OnlyLookalikesLose
<1>1. PICK c \in Range(lib) \cup backups :
        Holds(c, d, f) \/ (<<d, f>> \in mistaken /\ LooksLike(c, d, f))
  BY DEF OnlyLookalikesLose
<1>2. PICK e \in Range(lib') \cup backups' : Same(c, e) OBVIOUS
<1> QED BY <1>1, <1>2 DEF Same, Holds, LooksLike

LEMMA Frame ==
  ASSUME IInv, UNCHANGED <<overtaken, torn, mistaken, arrived, staging, lib, backups>>
  PROVE  /\ StagingInv' /\ OnlyLookalikesLose'
         /\ UNCHANGED <<rdir, mdir, row>> => WorkerInv'
         /\ UNCHANGED <<mpc, mdir, final_library_path>> => CopyInv'
         /\ UNCHANGED <<canonical_titles, answer, rpc, rdir, mpc, mdir, final_library_path>>
              => TitleInv'
<1>1. \A c \in Range(lib) \cup backups : \E e \in Range(lib') \cup backups' : Same(c, e)
  BY DEF Same, Range
<1> QED BY <1>1, SameWorker, SameTitle, SameStaging, SameCopy, SameFiles DEF IInv

LEMMA FaultFacts == ASSUME TypeInv, UNCHANGED bounds \/ Event \/ Fault
                    PROVE  events' \in 0..MaxEvents /\ events <= events'
BY Names DEF TypeInv, Fault, Event, bounds
-----------------------------------------------------------------------------
(* The rename worker.                                                      *)

LEMMA ClaimAnalyzedStep == ASSUME IInv, claim_analyzed_row PROVE IInv'
<1> USE DEF IInv
<1>1. PICK d \in Dirs : row[d] = "analyzed" /\ row' = [row EXCEPT ![d] = "renaming"] /\ rdir' = d
  BY DEF claim_analyzed_row
<1>2. /\ rpc = "idle" /\ rpc' = "process"
      /\ UNCHANGED <<library_path, stamped, disks, titles, move, bounds>>
      /\ UNCHANGED <<overtaken, torn, mistaken, arrived, staging, lib, backups>>
  BY DEF claim_analyzed_row, disks
<1>3. TypeInv' BY <1>1, <1>2, Names DEF TypeInv, TypeOK, disks, titles, move, bounds
<1>4. WorkerInv' BY <1>1, <1>2 DEF WorkerInv, TypeInv, TypeOK, move
<1>5. TitleInv' BY <1>1, <1>2 DEF TitleInv, titles, move
<1>6. CopyInv' BY <1>2, SameCopy DEF move
<1> QED BY <1>2, <1>3, <1>4, <1>5, <1>6, Frame

LEMMA RenameDirectoryStep == ASSUME IInv, RenameDirectory PROVE IInv'
<1> USE DEF IInv
<1>1. /\ rpc = "process" /\ rpc' \in {"write", "fail"} /\ rdir \in Dirs
      /\ UNCHANGED <<rows, disks, canonical_titles, rdir, move>>
      /\ UNCHANGED <<row, overtaken, torn, mistaken, arrived, staging, lib, backups, mdir, mpc>>
      /\ UNCHANGED <<rdir, final_library_path>>
  BY DEF RenameDirectory, rows, disks, move, TypeInv, TypeOK
<1>2. \/ rpc' = "fail" /\ UNCHANGED answer
      \/ /\ rpc' = "write"
         /\ \E c \in Canonicals \cup {None} : answer' = [answer EXCEPT ![rdir] = c]
  BY DEF RenameDirectory
<1>3. events' \in 0..MaxEvents /\ events <= events' BY FaultFacts DEF RenameDirectory
<1>4. answer' \in [Dirs -> Canonicals \cup {None}] BY <1>2 DEF TypeInv, TypeOK
<1>5. TypeInv' BY <1>1, <1>3, <1>4, Names DEF TypeInv, TypeOK, rows, disks, move
<1>6. TitleInv'
  <2>1. mdir # None /\ mdir = rdir => mdir \in overtaken BY DEF WorkerInv
  <2>2. \A d \in Dirs : canonical_titles'[d] = answer'[d] \/ (rpc' = "write" /\ rdir' = d)
    BY <1>1, <1>2 DEF TitleInv, TypeInv, TypeOK
  <2>3. mdir \in Dirs => answer'[mdir] = answer[mdir] \/ mdir = rdir
    BY <1>1, <1>2 DEF TypeInv, TypeOK
  <2> QED BY <1>1, <2>1, <2>2, <2>3, Names DEF TitleInv
<1> QED BY <1>1, <1>5, <1>6, Frame

LEMMA WriteTitleStep == ASSUME IInv, WriteTitle PROVE IInv'
<1> USE DEF IInv
<1>1. /\ rpc = "write" /\ rpc' = "publish" /\ rdir \in Dirs
      /\ canonical_titles' = [canonical_titles EXCEPT ![rdir] = answer[rdir]]
      /\ UNCHANGED <<rows, disks, answer, rdir, move, bounds>>
      /\ UNCHANGED <<row, overtaken, torn, mistaken, arrived, staging, lib, backups, mdir, mpc>>
      /\ UNCHANGED <<rdir, final_library_path>>
  BY DEF WriteTitle, rows, disks, move, TypeInv, TypeOK
<1>2. TypeInv' BY <1>1, Names DEF TypeInv, TypeOK, rows, disks, move, bounds
<1>3. TitleInv' BY <1>1 DEF TitleInv, TypeInv, TypeOK
<1> QED BY <1>1, <1>2, <1>3, Frame

LEMMA PublishRenameStep == ASSUME IInv, PublishRename PROVE IInv'
<1> USE DEF IInv
<1>1. /\ rpc \in {"publish", "fail"} /\ rpc' \in {"idle", "halted"} /\ rdir \in Dirs /\ rdir' = None
      /\ UNCHANGED <<library_path, stamped, disks, titles, move>>
      /\ UNCHANGED <<overtaken, torn, mistaken, arrived, staging, lib, backups, mdir, mpc>>
      /\ row' \in {row, [row EXCEPT ![rdir] = "renamed"], [row EXCEPT ![rdir] = "rename_failed"]}
  BY DEF PublishRename, rows, disks, move, TypeInv, TypeOK
<1>2. events' \in 0..MaxEvents /\ events <= events' BY FaultFacts DEF PublishRename
<1>3. TypeInv' BY <1>1, <1>2, Names DEF TypeInv, TypeOK, disks, titles, move
<1>4. WorkerInv' BY <1>1, Names DEF WorkerInv, TypeInv, TypeOK
<1>5. TitleInv' BY <1>1 DEF TitleInv, titles, move
<1>6. CopyInv' BY <1>1, SameCopy DEF move
<1> QED BY <1>1, <1>3, <1>4, <1>5, <1>6, Frame
-----------------------------------------------------------------------------
(* The move worker.                                                        *)

LEMMA ClaimRenamedStep == ASSUME IInv, claim_renamed_row PROVE IInv'
<1> USE DEF IInv
<1>1. PICK d \in Dirs : row[d] = "renamed" /\ row' = [row EXCEPT ![d] = "moving"] /\ mdir' = d
  BY DEF claim_renamed_row
<1>2. /\ mpc = "idle" /\ mpc' = "resolve"
      /\ UNCHANGED <<library_path, stamped, disks, titles, rename, final_library_path, bounds>>
      /\ UNCHANGED <<overtaken, torn, mistaken, arrived, staging, lib, backups>>
  BY DEF claim_renamed_row, disks
<1>3. TypeInv' BY <1>1, <1>2, Names DEF TypeInv, TypeOK, disks, titles, rename, bounds
<1>4. WorkerInv' BY <1>1, <1>2 DEF WorkerInv, TypeInv, TypeOK, rename
<1>5. TitleInv' BY <1>1, <1>2 DEF TitleInv, titles, rename
<1>6. CopyInv' BY <1>2 DEF CopyInv
<1> QED BY <1>2, <1>3, <1>4, <1>5, <1>6, Frame

LEMMA ResolveStep == ASSUME IInv, Resolve PROVE IInv'
<1> USE DEF IInv
<1>1. /\ mpc = "resolve" /\ mpc' = "check" /\ mdir \in Dirs
      /\ final_library_path' = resolve_library_path(mdir)
      /\ UNCHANGED <<rows, disks, titles, rename, mdir, bounds>>
      /\ UNCHANGED <<row, overtaken, torn, mistaken, arrived, staging, lib, backups, rdir, rpc>>
      /\ UNCHANGED <<canonical_titles, answer, mdir>>
  BY DEF Resolve, rows, disks, rename, titles, TypeInv, TypeOK
<1>2. TypeInv' BY <1>1 DEF TypeInv, TypeOK, rows, disks, titles, bounds
<1>3. TitleInv'
  <2> SUFFICES ASSUME mdir \in LayoutAware \ overtaken, answer[mdir] # None
               PROVE  final_library_path'.name[1] = answer[mdir].title
    BY <1>1 DEF TitleInv
  <2>1. mdir # rdir BY <1>1, Names DEF WorkerInv
  <2>2. canonical_titles[mdir] = answer[mdir] BY <1>1, <2>1 DEF TitleInv
  <2>3. TitleAndYear(mdir) = answer[mdir] BY <2>2 DEF TitleAndYear
  <2> QED BY <1>1, <2>3, TitleKept DEF resolve_library_path
<1>4. CopyInv' BY <1>1 DEF CopyInv
<1> QED BY <1>1, <1>2, <1>3, <1>4, Frame

LEMMA CheckDestinationStep == ASSUME IInv, CheckDestination PROVE IInv'
<1> USE DEF IInv
<1>1. /\ mpc = "check" /\ mpc' \in {"rename", "dedup", "backup"} /\ mdir \in Dirs
      /\ UNCHANGED <<rows, disks, titles, rename, mdir, final_library_path, bounds>>
      /\ UNCHANGED <<row, overtaken, torn, mistaken, arrived, staging, lib, backups, rdir, rpc>>
      /\ UNCHANGED <<canonical_titles, answer, mdir, final_library_path>>
  BY DEF CheckDestination, rows, disks, rename, titles, TypeInv, TypeOK
<1>2. TypeInv' BY <1>1 DEF TypeInv, TypeOK, rows, disks, titles, bounds
<1>3. TitleInv' BY <1>1 DEF TitleInv
<1>4. CopyInv'
  <2>1. mpc' = "dedup" => /\ final_library_path \in DOMAIN lib
                          /\ lib[final_library_path].likeness = Likeness[mdir]
                          /\ lib[final_library_path].files = staging[mdir]
    <3> DEFINE c == lib[final_library_path]
    <3>1. mpc' = "dedup" => final_library_path \in DOMAIN lib /\
            <<c.likeness, c.files, c.encoded>> = <<Tree(mdir).likeness, Tree(mdir).files, Tree(mdir).encoded>>
      BY <1>1 DEF CheckDestination, compute_dir_manifest_hash
    <3>2. Tree(mdir).likeness = Likeness[mdir] /\ Tree(mdir).files = staging[mdir] BY DEF Tree
    <3> HIDE DEF c
    <3>3. mpc' = "dedup" => c.likeness = Likeness[mdir] /\ c.files = staging[mdir] BY <3>1, <3>2
    <3> QED BY <3>1, <3>3 DEF c
  <2>2. mpc' = "dedup" => staging[mdir] # {} BY <2>1 DEF TypeInv, Copies
  <2> QED BY <1>1, <2>1, <2>2 DEF CopyInv, StagingInv
<1> QED BY <1>1, <1>2, <1>3, <1>4, Frame

LEMMA RemoveDuplicateStep == ASSUME IInv, RemoveDuplicate PROVE IInv'
<1> USE DEF IInv
<1> DEFINE there == lib[final_library_path]
<1>1. /\ mpc = "dedup" /\ mdir \in Dirs
      /\ UNCHANGED <<rows, arrived, lib, backups, unseen, overtaken, titles, rename, mdir,
                     final_library_path>>
      /\ UNCHANGED <<row, rdir, rpc, canonical_titles, answer>>
  BY DEF RemoveDuplicate, rows, rename, titles, TypeInv, TypeOK
<1>2. PICK left \in SUBSET staging[mdir] :
        /\ staging' = [staging EXCEPT ![mdir] = left]
        /\ \/ left = {} /\ mpc' = "record" /\ UNCHANGED torn
           \/ mpc' = "fail" /\ torn' = torn \cup {mdir}
  BY <1>1 DEF RemoveDuplicate
<1>3. /\ staging'[mdir] = left /\ \A d \in Dirs \ {mdir} : staging'[d] = staging[d]
      /\ staging \in [Dirs -> SUBSET (1..1 + MaxEvents)]
      /\ staging' \in [Dirs -> SUBSET (1..1 + MaxEvents)]
      /\ staging[mdir] \subseteq 1..1 + MaxEvents
  BY <1>1, <1>2 DEF TypeInv, TypeOK
<1>4. mistaken \subseteq mistaken' /\ mistaken' \subseteq mistaken \cup ({mdir} \X staging[mdir])
  BY DEF RemoveDuplicate
<1>5. there.of # mdir => \A f \in staging[mdir] \ left : <<mdir, f>> \in mistaken'
  BY <1>3 DEF RemoveDuplicate
<1>6. TypeInv'
  <2>1. events' \in 0..MaxEvents /\ events <= events' BY FaultFacts DEF RemoveDuplicate
  <2>2. mistaken' \subseteq Dirs \X (1..1 + MaxEvents) BY <1>1, <1>3, <1>4 DEF TypeInv, TypeOK
  <2> QED BY <1>1, <1>2, <1>3, <2>1, <2>2 DEF TypeInv, TypeOK, rows, titles
<1>7. WorkerInv' BY <1>1, SameWorker
<1>8. TitleInv' BY <1>1, <1>2 DEF TitleInv
<1>9. StagingInv' BY <1>1, <1>2, <1>3 DEF StagingInv
<1>10. CopyInv'
  <2> SUFFICES ASSUME mpc' = "record", there.of # mdir
               PROVE  \E f \in 1..arrived[mdir] : <<mdir, f>> \in mistaken' /\ LooksLike(there, mdir, f)
    BY <1>1, <1>2 DEF CopyInv, TakenFor, LooksLike
  <2>1. PICK f \in staging[mdir] : f \in there.files BY <1>1 DEF CopyInv
  <2>2. f \in 1..arrived[mdir] BY <1>1 DEF StagingInv
  <2>3. <<mdir, f>> \in mistaken' BY <1>2, <1>5
  <2>4. LooksLike(there, mdir, f) BY <1>1, <2>1 DEF CopyInv, LooksLike
  <2> QED BY <2>2, <2>3, <2>4
<1>11. OnlyLookalikesLose'
  <2> SUFFICES ASSUME NEW d \in Dirs \ overtaken, NEW f \in 1..arrived[d], f \notin staging'[d]
               PROVE  \/ \E c \in Range(lib) \cup backups : Holds(c, d, f)
                      \/ /\ <<d, f>> \in mistaken'
                         /\ \E c \in Range(lib) \cup backups : LooksLike(c, d, f)
    BY <1>1 DEF OnlyLookalikesLose, Holds, LooksLike
  <2>1. CASE f \notin staging[d] BY <1>4, <2>1 DEF OnlyLookalikesLose
  <2>2. CASE f \in staging[d]
    <3>1. d = mdir /\ f \notin left BY <1>3, <2>2
    <3>2. there \in Range(lib) /\ f \in there.files BY <1>1, <2>2, <3>1 DEF CopyInv, Range
    <3>3. CASE there.of = mdir BY <3>1, <3>2, <3>3 DEF Holds
    <3>4. CASE there.of # mdir
      BY <1>1, <1>5, <2>2, <3>1, <3>2, <3>4 DEF CopyInv, LooksLike
    <3> QED BY <3>3, <3>4
  <2> QED BY <2>1, <2>2
<1> QED BY <1>6, <1>7, <1>8, <1>9, <1>10, <1>11

LEMMA BackUpStep == ASSUME IInv, BackUp PROVE IInv'
<1> USE DEF IInv
<1>1. /\ mpc = "backup" /\ mpc' \in {"rename", "fail"} /\ mdir \in Dirs
      /\ UNCHANGED <<rows, arrived, staging, unseen, overtaken, torn, mistaken, titles, rename,
                     mdir, final_library_path>>
      /\ UNCHANGED <<row, rdir, rpc, canonical_titles, answer>>
  BY DEF BackUp, rows, rename, titles, TypeInv, TypeOK
<1>2. events' \in 0..MaxEvents /\ events <= events' BY FaultFacts DEF BackUp
<1>3. \/ UNCHANGED <<lib, backups>>
      \/ /\ final_library_path \in DOMAIN lib
         /\ backups' = backups \cup {lib[final_library_path]}
         /\ DOMAIN lib' = DOMAIN lib \ {final_library_path}
         /\ \A q \in DOMAIN lib' : lib'[q] = lib[q]
  BY DEF BackUp, Restrict
<1>4. TypeInv' BY <1>1, <1>2, <1>3 DEF TypeInv, TypeOK, Copies, rows, titles
<1>5. WorkerInv' BY <1>1, SameWorker
<1>6. TitleInv' BY <1>1 DEF TitleInv
<1>7. StagingInv' BY <1>1, SameStaging
<1>8. CopyInv' BY <1>1 DEF CopyInv
<1>9. OnlyLookalikesLose'
  <2>1. Range(lib) \cup backups \subseteq Range(lib') \cup backups' BY <1>3 DEF Range
  <2> QED BY <1>1, <2>1, SameFiles DEF Same
<1> QED BY <1>4, <1>5, <1>6, <1>7, <1>8, <1>9

LEMMA MoveTreeStep == ASSUME IInv, MoveTree PROVE IInv'
<1> USE DEF IInv
<1>1. /\ mpc = "rename" /\ mdir \in Dirs
      /\ UNCHANGED <<rows, arrived, backups, overtaken, torn, mistaken, titles, rename, mdir,
                     final_library_path>>
      /\ UNCHANGED <<row, rdir, rpc, canonical_titles, answer>>
  BY DEF MoveTree, rows, rename, titles, TypeInv, TypeOK
<1>2. events' \in 0..MaxEvents /\ events <= events' BY FaultFacts DEF MoveTree
<1>3. CASE mpc' = "fail" /\ UNCHANGED <<lib, staging, unseen>>
  <2>1. TypeInv' BY <1>1, <1>2, <1>3 DEF TypeInv, TypeOK, rows, titles
  <2>2. TitleInv' BY <1>1, <1>3 DEF TitleInv
  <2>3. CopyInv' BY <1>3 DEF CopyInv
  <2> QED BY <1>1, <1>3, <2>1, <2>2, <2>3, Frame
<1>4. CASE /\ staging[mdir] # {} /\ final_library_path \notin DOMAIN lib
           /\ lib' = [p \in DOMAIN lib \cup {final_library_path} |->
                        IF p = final_library_path THEN Tree(mdir) ELSE lib[p]]
           /\ staging' = [staging EXCEPT ![mdir] = {}]
           /\ unseen' = unseen \cup {mdir} /\ mpc' = "record"
  <2> DEFINE p == final_library_path
             c == Tree(mdir)
  <2>1. /\ DOMAIN lib' = DOMAIN lib \cup {p} /\ lib'[p] = c
        /\ \A q \in DOMAIN lib \ {p} : lib'[q] = lib[q]
    BY <1>4, Put
  <2>2. c \in Copies /\ c.of = mdir /\ c.files = staging[mdir]
    BY <1>1, <1>4, Names DEF Tree, Copies, TypeInv, TypeOK
  <2>3. c \in Range(lib') /\ Range(lib) \subseteq Range(lib') BY <1>4, <2>1 DEF Range
  <2> HIDE DEF c
  <2>4. TypeInv' BY <1>1, <1>2, <1>4, <2>1, <2>2 DEF TypeInv, TypeOK, Copies, rows, titles
  <2>5. WorkerInv' BY <1>1, SameWorker
  <2>6. TitleInv' BY <1>1, <1>4 DEF TitleInv
  <2>7. StagingInv'
    <3>1. \A d \in Dirs : staging'[d] = IF d = mdir THEN {} ELSE staging[d]
      BY <1>4 DEF TypeInv, TypeOK
    <3> QED BY <1>1, <3>1 DEF StagingInv
  <2>8. CopyInv' BY <1>1, <1>4, <2>1, <2>2 DEF CopyInv, StagingInv
  <2>9. OnlyLookalikesLose'
    <3> SUFFICES ASSUME NEW d \in Dirs \ overtaken, NEW f \in 1..arrived[d], f \notin staging'[d]
                 PROVE  \/ \E e \in Range(lib') \cup backups' : Holds(e, d, f)
                        \/ /\ <<d, f>> \in mistaken
                           /\ \E e \in Range(lib') \cup backups' : LooksLike(e, d, f)
      BY <1>1 DEF OnlyLookalikesLose
    <3>1. CASE f \notin staging[d] BY <1>1, <2>3, <3>1 DEF OnlyLookalikesLose
    <3>2. CASE f \in staging[d]
      <4>1. d = mdir BY <1>4, <3>2 DEF TypeInv, TypeOK
      <4> QED BY <2>2, <2>3, <3>2, <4>1 DEF Holds
    <3> QED BY <3>1, <3>2
  <2> QED BY <2>4, <2>5, <2>6, <2>7, <2>8, <2>9
<1> QED BY <1>3, <1>4 DEF MoveTree

LEMMA RecordStep == ASSUME IInv, set_directory_library_path PROVE IInv'
<1> USE DEF IInv
<1>1. /\ mpc = "record" /\ mpc' \in {"publish", "fail"} /\ mdir \in Dirs
      /\ UNCHANGED <<row, stamped, disks, titles, rename, mdir, final_library_path>>
      /\ UNCHANGED <<overtaken, torn, mistaken, arrived, staging, lib, backups>>
      /\ UNCHANGED <<rdir, rpc, canonical_titles, answer>>
  BY DEF set_directory_library_path, disks, rename, titles, TypeInv, TypeOK
<1>2. events' \in 0..MaxEvents /\ events <= events' BY FaultFacts DEF set_directory_library_path
<1>3. TypeInv' BY <1>1, <1>2 DEF TypeInv, TypeOK, disks, titles
<1>4. TitleInv' BY <1>1 DEF TitleInv
<1>5. CopyInv' BY <1>1 DEF CopyInv, TakenFor, LooksLike
<1> QED BY <1>1, <1>3, <1>4, <1>5, Frame

LEMMA PublishMoveStep == ASSUME IInv, PublishMove PROVE IInv'
<1> USE DEF IInv
<1>1. /\ mpc \in {"publish", "fail"} /\ mpc' \in {"idle", "halted"} /\ mdir \in Dirs
      /\ mdir' = None
      /\ UNCHANGED <<library_path, stamped, disks, titles, rename>>
      /\ UNCHANGED <<overtaken, torn, mistaken, arrived, staging, lib, backups>>
      /\ UNCHANGED <<rdir, rpc, canonical_titles, answer>>
      /\ row' \in {row, [row EXCEPT ![mdir] = "in_library"], [row EXCEPT ![mdir] = "move_failed"]}
  BY DEF PublishMove, disks, rename, titles, TypeInv, TypeOK
<1>2. events' \in 0..MaxEvents /\ events <= events' BY FaultFacts DEF PublishMove
<1>3. TypeInv' BY <1>1, <1>2, Names DEF TypeInv, TypeOK, disks, titles
<1>4. WorkerInv'
  <2>1. rdir # None /\ rdir = mdir => rdir \in overtaken BY DEF WorkerInv
  <2> QED BY <1>1, <2>1 DEF WorkerInv, TypeInv, TypeOK
<1>5. TitleInv' BY <1>1 DEF TitleInv
<1>6. CopyInv' BY <1>1 DEF CopyInv
<1> QED BY <1>1, <1>3, <1>4, <1>5, <1>6, Frame
-----------------------------------------------------------------------------
(* The run around the workers.                                             *)

LEMMA ScanStep == ASSUME IInv, NEW d \in Dirs, trigger_plex_scans(d) PROVE IInv'
<1> USE DEF IInv
<1>1. /\ UNCHANGED <<row, library_path, arrived, staging, lib, backups>>
      /\ UNCHANGED <<overtaken, torn, mistaken, titles, rename, move>>
      /\ UNCHANGED <<rdir, rpc, canonical_titles, answer, mpc, mdir, final_library_path>>
      /\ stamped' \subseteq stamped \cup {d} /\ unseen' \subseteq unseen
  BY DEF trigger_plex_scans, titles, rename, move
<1>2. events' \in 0..MaxEvents /\ events <= events' BY FaultFacts DEF trigger_plex_scans
<1>3. TypeInv' BY <1>1, <1>2 DEF TypeInv, TypeOK
<1> QED BY <1>1, <1>3, Frame

LEMMA WalkStep == ASSUME IInv, NEW d \in Dirs, Walk(d) PROVE IInv'
<1> USE DEF IInv
<1>1. /\ UNCHANGED <<library_path, stamped, disks, titles, rename, move, bounds>>
      /\ UNCHANGED <<overtaken, torn, mistaken, arrived, staging, lib, backups>>
      /\ UNCHANGED <<rdir, rpc, canonical_titles, answer, mpc, mdir, final_library_path>>
      /\ row[d] \in {"rename_failed", "move_failed"}
      /\ row' \in {[row EXCEPT ![d] = "analyzed"], [row EXCEPT ![d] = "renamed"]}
  BY DEF Walk, disks, titles, rename, move
<1>2. TypeInv' BY <1>1 DEF TypeInv, TypeOK, disks, bounds
<1>3. WorkerInv' BY <1>1 DEF WorkerInv, TypeInv, TypeOK
<1> QED BY <1>1, <1>2, <1>3, Frame

\* A file arrives: a worker that holds the directory is overtaken.
LEMMA NewFileStep == ASSUME IInv, NEW d \in Dirs, NewFile(d) PROVE IInv'
<1> USE DEF IInv
<1>1. /\ UNCHANGED <<library_path, stamped, lib, backups, unseen, torn, mistaken, titles>>
      /\ UNCHANGED <<rename, move>>
      /\ UNCHANGED <<rdir, rpc, canonical_titles, answer, mpc, mdir, final_library_path>>
      /\ events < MaxEvents /\ events' = events + 1
      /\ arrived' = [arrived EXCEPT ![d] = @ + 1]
      /\ staging' = [staging EXCEPT ![d] = @ \cup {arrived'[d]}]
      /\ overtaken' \subseteq Dirs /\ overtaken \subseteq overtaken'
      /\ d \in {rdir, mdir} => d \in overtaken'
      /\ row' = [row EXCEPT ![d] = "analyzed"]
  BY DEF NewFile, Event, titles, rename, move, TypeInv, TypeOK
<1>2. /\ arrived \in [Dirs -> 1..1 + MaxEvents] /\ arrived[d] <= 1 + events
      /\ events \in Nat /\ MaxEvents \in Nat
      /\ staging \in [Dirs -> SUBSET (1..1 + MaxEvents)]
      /\ row \in [Dirs -> {"analyzed", "renaming", "renamed", "rename_failed",
                           "moving", "in_library", "move_failed"}]
  BY Names DEF TypeInv, TypeOK
<1>3. arrived[d] + 1 \in 1..1 + MaxEvents BY <1>1, <1>2
<1>4. /\ arrived' \in [Dirs -> 1..1 + MaxEvents]
      /\ \A e \in Dirs : arrived'[e] = IF e = d THEN arrived[d] + 1 ELSE arrived[e]
  BY <1>1, <1>2, <1>3
<1>5. /\ staging' \in [Dirs -> SUBSET (1..1 + MaxEvents)]
      /\ \A e \in Dirs : staging'[e] = IF e = d THEN staging[d] \cup {arrived[d] + 1} ELSE staging[e]
  BY <1>1, <1>2, <1>3, <1>4
<1>6. TypeInv'
  <2>1. \A e \in Dirs : arrived'[e] <= 1 + events'
    BY <1>1, <1>2, <1>4 DEF TypeInv
  <2>2. TypeOK' BY <1>1, <1>2, <1>4, <1>5 DEF TypeInv, TypeOK, titles
  <2> QED BY <1>1, <1>2, <2>1, <2>2 DEF TypeInv
<1>7. WorkerInv' BY <1>1, <1>2 DEF WorkerInv, TypeInv
<1>8. TitleInv' BY <1>1 DEF TitleInv
<1>9. StagingInv'
  <2>1. \A e \in Dirs : arrived[e] \in Nat BY <1>2
  <2> QED BY <1>1, <1>4, <1>5, <2>1 DEF StagingInv
<1>10. CopyInv'
  <2>1. mdir \in Dirs /\ mdir \notin overtaken' => /\ arrived'[mdir] = arrived[mdir]
                                                  /\ staging'[mdir] = staging[mdir]
    BY <1>1, <1>4, <1>5
  <2>2. mpc \in {"dedup", "record", "publish"} => mdir \in Dirs BY DEF TypeInv, TypeOK
  <2>3. mdir \in Dirs => /\ staging[mdir] \subseteq staging'[mdir]
                         /\ 1..arrived[mdir] \subseteq 1..arrived'[mdir]
    BY <1>2, <1>4, <1>5
  <2>4. \A c : mdir \in Dirs /\ TakenFor(c, mdir) => TakenFor(c, mdir)'
    BY <1>1, <2>3 DEF TakenFor, LooksLike
  <2> QED BY <1>1, <2>1, <2>2, <2>3, <2>4 DEF CopyInv
<1>11. OnlyLookalikesLose'
  <2> SUFFICES ASSUME NEW e \in Dirs \ overtaken', NEW f \in 1..arrived'[e], f \notin staging'[e]
               PROVE  \/ \E c \in Range(lib) \cup backups : Holds(c, e, f)
                      \/ /\ <<e, f>> \in mistaken
                         /\ \E c \in Range(lib) \cup backups : LooksLike(c, e, f)
    BY <1>1 DEF OnlyLookalikesLose, Holds, LooksLike
  <2>1. CASE f \in 1..arrived[e]
    <3>1. f \notin staging[e] BY <1>5
    <3> QED BY <1>1, <2>1, <3>1 DEF OnlyLookalikesLose
  <2>2. CASE f \notin 1..arrived[e]
    <3>1. arrived[e] \in Nat BY <1>2
    <3>2. e = d /\ f = arrived[d] + 1
      <4>1. e = d BY <1>4, <2>2
      <4>2. f \in 1..arrived[d] + 1 BY <1>4, <4>1
      <4> QED BY <2>2, <3>1, <4>1, <4>2
    <3> QED BY <1>5, <3>2
  <2> QED BY <2>1, <2>2
<1> QED BY <1>6, <1>7, <1>8, <1>9, <1>10, <1>11

LEMMA NextRunStep == ASSUME IInv, NextRun PROVE IInv'
<1> USE DEF IInv
<1>1. /\ UNCHANGED <<rows, disks, rdir, mdir, final_library_path, bounds>>
      /\ UNCHANGED <<row, overtaken, torn, mistaken, arrived, staging, lib, backups>>
      /\ rdir = None /\ mdir = None /\ rpc' = "idle" /\ mpc' = "idle"
      /\ canonical_titles' = [d \in Dirs |-> None] /\ answer' = [d \in Dirs |-> None]
  BY DEF NextRun, Forget, Resting, rows, disks, TypeInv, TypeOK
<1>2. TypeInv' BY <1>1 DEF TypeInv, TypeOK, rows, disks, bounds
<1>3. TitleInv' BY <1>1 DEF TitleInv
<1>4. CopyInv' BY <1>1 DEF CopyInv
<1> QED BY <1>1, <1>2, <1>3, <1>4, Frame

LEMMA CrashStep == ASSUME IInv, Crash PROVE IInv'
<1> USE DEF IInv
<1>1. /\ UNCHANGED <<rows, disks>>
      /\ UNCHANGED <<row, overtaken, torn, mistaken, arrived, staging, lib, backups>>
      /\ rdir' = None /\ mdir' = None /\ rpc' = "halted" /\ mpc' = "halted"
      /\ canonical_titles' = [d \in Dirs |-> None] /\ answer' = [d \in Dirs |-> None]
  BY DEF Crash, Forget, rows, disks
<1>2. events' \in 0..MaxEvents /\ events <= events' BY FaultFacts DEF Crash
<1>3. TypeInv' BY <1>1, <1>2 DEF TypeInv, TypeOK, rows, disks
<1>4. WorkerInv' BY <1>1 DEF WorkerInv
<1>5. TitleInv' BY <1>1 DEF TitleInv
<1>6. CopyInv' BY <1>1 DEF CopyInv
<1> QED BY <1>1, <1>3, <1>4, <1>5, <1>6, Frame

\* Somebody adds a directory to the library, or changes one there: no copy goes.
LEMMA UserAddsStep == ASSUME IInv, NEW d \in Dirs, UserAdds(d) PROVE IInv'
<1> USE DEF IInv
<1>1. /\ UNCHANGED <<rows, arrived, staging, backups, unseen, overtaken, torn, mistaken, titles>>
      /\ UNCHANGED <<rename, move>>
      /\ UNCHANGED <<row, rdir, rpc, canonical_titles, answer, mpc, mdir, final_library_path>>
  BY DEF UserAdds, rows, rename, titles, move
<1>2. events' \in 0..MaxEvents /\ events <= events' BY FaultFacts DEF UserAdds
<1> DEFINE path == resolve_library_path(d)
<1>3. PICK c \in Copies :
        /\ path \notin DOMAIN lib
        /\ lib' = [p \in DOMAIN lib \cup {path} |-> IF p = path THEN c ELSE lib[p]]
  <2> DEFINE lookalike == [Tree(d) EXCEPT !.of = user]
             stranger  == [of |-> user, likeness |-> user, files |-> {1}, encoded |-> FALSE]
  <2>1. PICK c \in {Tree(d), lookalike, stranger} :
          /\ path \notin DOMAIN lib /\ c.files # {}
          /\ lib' = [p \in DOMAIN lib \cup {path} |-> IF p = path THEN c ELSE lib[p]]
    BY DEF UserAdds
  <2>2. staging[d] \in SUBSET Nat BY Names DEF TypeInv, TypeOK
  <2>3. stranger \in Copies BY DEF Copies
  <2>4. staging[d] # {} => Tree(d) \in Copies /\ lookalike \in Copies BY <2>2 DEF Tree, Copies
  <2>5. Tree(d).files = staging[d] /\ lookalike.files = staging[d] BY DEF Tree
  <2>6. c \in Copies BY <2>1, <2>3, <2>4, <2>5
  <2> QED BY <2>1, <2>6
<1> HIDE DEF path
<1>4. /\ DOMAIN lib' = DOMAIN lib \cup {path} /\ lib'[path] = c
      /\ \A q \in DOMAIN lib \ {path} : lib'[q] = lib[q]
  BY <1>3, Put
<1>5. Range(lib) \subseteq Range(lib') BY <1>3, <1>4 DEF Range
<1>6. TypeInv' BY <1>1, <1>2, <1>4 DEF TypeInv, TypeOK, Copies, rows, titles
<1>7. TitleInv' BY <1>1, SameTitle
<1>8. CopyInv' BY <1>1, <1>3, <1>4 DEF CopyInv, TakenFor, LooksLike
<1>9. OnlyLookalikesLose' BY <1>1, <1>5, SameFiles DEF Same
<1> QED BY <1>1, <1>6, <1>7, <1>8, <1>9, SameWorker, SameStaging

LEMMA ReencodeStep == ASSUME IInv, NEW path \in DOMAIN lib, Reencode(path) PROVE IInv'
<1> USE DEF IInv
<1>1. /\ UNCHANGED <<rows, arrived, staging, backups, unseen, overtaken, torn, mistaken, titles>>
      /\ UNCHANGED <<rename, move>>
      /\ UNCHANGED <<row, rdir, rpc, canonical_titles, answer, mpc, mdir, final_library_path>>
  BY DEF Reencode, rows, rename, titles, move
<1>2. events' \in 0..MaxEvents /\ events <= events' BY FaultFacts DEF Reencode
<1>3. /\ DOMAIN lib' = DOMAIN lib
      /\ \A q \in DOMAIN lib : /\ lib'[q] \in Copies /\ lib[q].of \in Dirs \cup {user}
                               /\ Same(lib[q], lib'[q])
  BY DEF Reencode, TypeInv, Copies, Same
<1>4. TypeInv'
  <2>1. \A p \in DOMAIN lib' : lib'[p].of \in Dirs \cup {user} BY <1>3 DEF Same
  <2>2. TypeOK' BY <1>1, <2>1 DEF TypeInv, TypeOK, rows, titles
  <2>3. \A d \in Dirs : arrived[d] <= 1 + events' BY <1>2, Names DEF TypeInv, TypeOK
  <2> QED BY <1>1, <1>2, <1>3, <2>2, <2>3 DEF TypeInv
<1>5. TitleInv' BY <1>1, SameTitle
<1>6. CopyInv' BY <1>1, <1>3 DEF CopyInv, TakenFor, LooksLike, Same
<1>7. OnlyLookalikesLose'
  <2>1. \A c \in Range(lib) : \E e \in Range(lib') : Same(c, e) BY <1>3 DEF Range
  <2> QED BY <1>1, <2>1, SameFiles DEF Same
<1> QED BY <1>1, <1>4, <1>5, <1>6, <1>7, SameWorker, SameStaging

LEMMA StutterStep == ASSUME IInv, UNCHANGED vars PROVE IInv'
<1>1. /\ UNCHANGED <<row, library_path, stamped, arrived, staging, lib, backups, unseen, torn>>
      /\ UNCHANGED <<overtaken, mistaken, canonical_titles, answer, rpc, rdir, mpc, mdir>>
      /\ UNCHANGED <<final_library_path, events, faults>>
  BY DEF vars, rows, disks, titles, rename, move, bounds
<1>2. TypeInv' BY <1>1 DEF IInv, TypeInv, TypeOK
<1> QED BY <1>1, <1>2, Frame DEF IInv

LEMMA Initially == Init => IInv
<1> SUFFICES ASSUME Init PROVE IInv OBVIOUS
<1>1. DOMAIN lib = {} BY DEF Init
<1>2. TypeInv BY <1>1, Names DEF Init, TypeInv, TypeOK
<1> QED BY <1>1, <1>2 DEF IInv, Init, WorkerInv, TitleInv, StagingInv, CopyInv,
                           OnlyLookalikesLose

LEMMA Inductive == IInv /\ [Next]_vars => IInv'
<1> SUFFICES ASSUME IInv, [Next]_vars PROVE IInv' OBVIOUS
<1>1. CASE RenameStep
  BY <1>1, ClaimAnalyzedStep, RenameDirectoryStep, WriteTitleStep, PublishRenameStep
     DEF RenameStep
<1>2. CASE MoveStep
  BY <1>2, ClaimRenamedStep, ResolveStep, CheckDestinationStep, RemoveDuplicateStep, BackUpStep,
     MoveTreeStep, RecordStep, PublishMoveStep DEF MoveStep
<1> QED BY <1>1, <1>2, NextRunStep, CrashStep, ScanStep, WalkStep, NewFileStep, UserAddsStep,
           ReencodeStep, StutterStep DEF Next
-----------------------------------------------------------------------------
(* The place of a row, while there is a number left for its title.         *)

\* Where the layout may put d.
Belongs(d, path) ==
  IF d \in LayoutAware THEN path.category = "movies" ELSE path = Path("music", <<d>>)

\* A row in the library is where it belongs; the move worker is about to put its
\* directory where no other row leads.
PathInv ==
  /\ DOMAIN library_path = Dirs
  /\ \A d \in Dirs : row[d] = "in_library" => Belongs(d, library_path[d])
  /\ mpc \in {"check", "dedup", "backup", "rename", "record", "publish"} =>
       /\ Belongs(mdir, final_library_path)
       /\ \A d \in Dirs \ {mdir} : row[d] = "in_library" => library_path[d] # final_library_path
  /\ mpc = "publish" => library_path[mdir] = final_library_path

\* resolve_destination still finds a number for every title it may be asked for. (When
\* 2 to 999 are taken it falls back to the time of day, and does not look.)
NumbersLeft ==
  \A title \in {c.title : c \in Canonicals} \cup {LocalTitle} \cup Dirs :
    Numbers("movies", title) # {}

\* Which rows are in the library: the move worker alone adds one.
LEMMA RowsInLibrary ==
  ASSUME IInv, [Next]_vars
  PROVE  \A d \in Dirs : row'[d] = "in_library" =>
           \/ row[d] = "in_library" /\ arrived'[d] = arrived[d]
           \/ mpc = "publish" /\ d = mdir /\ PublishMove
<1> SUFFICES ASSUME NEW d \in Dirs, row'[d] = "in_library"
             PROVE  \/ row[d] = "in_library" /\ arrived'[d] = arrived[d]
                    \/ mpc = "publish" /\ d = mdir /\ PublishMove
  OBVIOUS
<1>1. /\ row \in [Dirs -> {"analyzed", "renaming", "renamed", "rename_failed",
                           "moving", "in_library", "move_failed"}]
      /\ rdir \in Dirs \cup {None} /\ mdir \in Dirs \cup {None}
      /\ (rdir = None) = (rpc \in {"idle", "halted"})
      /\ (mdir = None) = (mpc \in {"idle", "halted"})
      /\ arrived \in [Dirs -> 1..1 + MaxEvents]
  BY DEF IInv, TypeInv, TypeOK
<1>2. CASE RenameStep
  BY <1>1, <1>2 DEF RenameStep, claim_analyzed_row, RenameDirectory, WriteTitle, PublishRename,
                    rows, disks
<1>3. CASE MoveStep
  <2>1. CASE PublishMove BY <1>1, <2>1 DEF PublishMove, disks
  <2>2. CASE claim_renamed_row \/ Resolve \/ CheckDestination \/ set_directory_library_path
    BY <1>1, <2>2 DEF claim_renamed_row, Resolve, CheckDestination, set_directory_library_path,
                      rows, disks
  <2>3. CASE RemoveDuplicate \/ BackUp \/ MoveTree
    BY <1>1, <2>3 DEF RemoveDuplicate, BackUp, MoveTree, rows
  <2> QED BY <1>3, <2>1, <2>2, <2>3 DEF MoveStep
<1>4. CASE NextRun \/ Crash BY <1>1, <1>4 DEF NextRun, Crash, rows, disks
<1>5. CASE \E e \in Dirs : trigger_plex_scans(e) \/ Walk(e)
  BY <1>1, <1>5 DEF trigger_plex_scans, Walk, disks
<1>6. CASE \E e \in Dirs : NewFile(e) BY <1>1, <1>6 DEF NewFile
<1>7. CASE \E e \in Dirs : UserAdds(e) BY <1>7 DEF UserAdds, rows
<1>8. CASE \E path \in DOMAIN lib : Reencode(path) BY <1>8 DEF Reencode, rows
<1>9. CASE UNCHANGED vars BY <1>9 DEF vars, rows, disks
<1> QED BY <1>2, <1>3, <1>4, <1>5, <1>6, <1>7, <1>8, <1>9 DEF Next

\* What lies in the library stays there, with its owner and its files, unless the move
\* worker backs it up.
LEMMA CopiesStay ==
  ASSUME IInv, [Next]_vars, NEW p \in DOMAIN lib, mpc # "backup" \/ p # final_library_path
  PROVE  p \in DOMAIN lib' /\ Same(lib[p], lib'[p])
<1> USE DEF Same
<1>1. CASE UNCHANGED lib BY <1>1
<1>2. CASE MoveTree BY <1>2, Put DEF MoveTree
<1>3. CASE BackUp BY <1>3 DEF BackUp, Restrict
<1>4. ASSUME NEW d \in Dirs, UserAdds(d)
      PROVE  p \in DOMAIN lib' /\ Same(lib[p], lib'[p])
  BY <1>4 DEF UserAdds
<1>5. ASSUME NEW path \in DOMAIN lib, Reencode(path)
      PROVE  p \in DOMAIN lib' /\ Same(lib[p], lib'[p])
  BY <1>5 DEF Reencode, IInv, TypeInv, Copies
<1>6. CASE RenameStep
  BY <1>1, <1>6 DEF RenameStep, claim_analyzed_row, RenameDirectory, WriteTitle, PublishRename, disks
<1>7. CASE MoveStep /\ ~MoveTree /\ ~BackUp
  BY <1>1, <1>7 DEF MoveStep, claim_renamed_row, Resolve, CheckDestination, RemoveDuplicate,
                    set_directory_library_path, PublishMove, disks
<1>8. CASE NextRun \/ Crash BY <1>1, <1>8 DEF NextRun, Crash, disks
<1>9. CASE \E d \in Dirs : trigger_plex_scans(d) \/ Walk(d) \/ NewFile(d)
  BY <1>1, <1>9 DEF trigger_plex_scans, Walk, NewFile, disks
<1>10. CASE UNCHANGED vars BY <1>1, <1>10 DEF vars, disks
<1> QED BY <1>2, <1>3, <1>4, <1>5, <1>6, <1>7, <1>8, <1>9, <1>10 DEF Next

\* What a step does to the rest of what OwnPlace speaks of.
LEMMA StepShape ==
  ASSUME IInv, [Next]_vars
  PROVE  /\ torn \subseteq torn' /\ overtaken \subseteq overtaken' /\ mistaken \subseteq mistaken'
         /\ UNCHANGED library_path \/ set_directory_library_path
         /\ mpc' \in {"check", "dedup", "backup", "rename", "record", "publish"} =>
              \/ Resolve
              \/ /\ mpc \in {"check", "dedup", "backup", "rename", "record", "publish"}
                 /\ UNCHANGED <<mdir, final_library_path>>
                 /\ mpc' = "publish" => mpc = "publish" \/ set_directory_library_path
<1>1. CASE RenameStep
  BY <1>1 DEF RenameStep, claim_analyzed_row, RenameDirectory, WriteTitle, PublishRename, disks,
              move, rows
<1>2. CASE MoveStep
  BY <1>2 DEF MoveStep, claim_renamed_row, Resolve, CheckDestination, RemoveDuplicate, BackUp,
              MoveTree, set_directory_library_path, PublishMove, disks, rows
<1>3. CASE NextRun \/ Crash BY <1>3 DEF NextRun, Crash, disks, rows
<1>4. CASE \E d \in Dirs : trigger_plex_scans(d) \/ Walk(d) \/ NewFile(d) \/ UserAdds(d)
  BY <1>4 DEF trigger_plex_scans, Walk, NewFile, UserAdds, disks, move, rows
<1>5. CASE \E path \in DOMAIN lib : Reencode(path) BY <1>5 DEF Reencode, move, rows
<1>6. CASE UNCHANGED vars BY <1>6 DEF vars, disks, move, rows
<1> QED BY <1>1, <1>2, <1>3, <1>4, <1>5, <1>6 DEF Next

LEMMA OwnPlaceStep ==
  ASSUME IInv, PathInv, OwnPlace, [Next]_vars
  PROVE  OwnPlace'
<1> DEFINE in(d) == row[d] = "in_library"
           new(d) == mpc = "publish" /\ d = mdir /\ PublishMove
           taken(c, d) == \E f \in 1..arrived'[d] : <<d, f>> \in mistaken' /\ LooksLike(c, d, f)
<1>1. \A d \in Dirs : in(d)' => (in(d) /\ arrived'[d] = arrived[d]) \/ new(d)
  BY RowsInLibrary
<1>2. torn \subseteq torn' /\ overtaken \subseteq overtaken' /\ mistaken \subseteq mistaken'
  BY StepShape
<1>3. ASSUME NEW d \in Dirs, in(d), arrived'[d] = arrived[d]
      PROVE  /\ d # mdir /\ library_path'[d] = library_path[d]
             /\ library_path[d] \in DOMAIN lib'
             /\ lib'[library_path[d]].of = d \/ taken(lib'[library_path[d]], d)
             /\ d \notin torn' \cup overtaken' => arrived'[d] \in lib'[library_path[d]].files
  <2>1. d # mdir BY <1>3, Names DEF IInv, WorkerInv
  <2>2. library_path'[d] = library_path[d]
    BY <2>1, StepShape DEF set_directory_library_path, PathInv
  <2>3. /\ library_path[d] \in DOMAIN lib
        /\ lib[library_path[d]].of = d \/ TakenFor(lib[library_path[d]], d)
        /\ d \notin torn \cup overtaken => arrived[d] \in lib[library_path[d]].files
    BY <1>3 DEF OwnPlace, TakenFor
  <2>4. mpc = "backup" => library_path[d] # final_library_path BY <1>3, <2>1 DEF PathInv
  <2>5. /\ library_path[d] \in DOMAIN lib'
        /\ Same(lib[library_path[d]], lib'[library_path[d]])
    BY <2>3, <2>4, CopiesStay
  <2>6. lib'[library_path[d]].of = d \/ taken(lib'[library_path[d]], d)
    BY <1>2, <1>3, <2>3, <2>5 DEF TakenFor, LooksLike, Same
  <2> QED BY <1>2, <1>3, <2>1, <2>2, <2>3, <2>5, <2>6 DEF Same
<1>4. ASSUME NEW d \in Dirs, new(d)
      PROVE  /\ d = mdir /\ library_path'[d] = final_library_path
             /\ final_library_path \in DOMAIN lib'
             /\ lib'[final_library_path].of = d \/ taken(lib'[final_library_path], d)
             /\ d \notin torn' \cup overtaken' => arrived'[d] \in lib'[final_library_path].files
             /\ \A e \in Dirs \ {d} : in(e) => library_path[e] # final_library_path
  <2>1. UNCHANGED <<library_path, arrived, lib, torn, overtaken, mistaken>>
    BY <1>4 DEF PublishMove, disks
  <2>2. library_path[d] = final_library_path BY <1>4 DEF PathInv
  <2>3. /\ final_library_path \in DOMAIN lib
        /\ lib[final_library_path].of = d \/ TakenFor(lib[final_library_path], d)
        /\ d \notin torn \cup overtaken => arrived[d] \in lib[final_library_path].files
    BY <1>4 DEF IInv, CopyInv
  <2>4. \A e \in Dirs \ {d} : in(e) => library_path[e] # final_library_path
    BY <1>4 DEF PathInv
  <2> QED BY <1>4, <2>1, <2>2, <2>3, <2>4 DEF TakenFor, LooksLike
<1>5. ASSUME NEW d \in Dirs, in(d)', NEW e \in Dirs, in(e)', library_path'[e] = library_path'[d]
      PROVE  e = d
  <2>1. CASE in(d) /\ in(e) /\ arrived'[d] = arrived[d] /\ arrived'[e] = arrived[e]
    BY <1>3, <1>5, <2>1 DEF OwnPlace
  <2>2. CASE new(d) /\ new(e) BY <2>2
  <2>3. CASE new(d) /\ in(e) /\ arrived'[e] = arrived[e] BY <1>3, <1>4, <1>5, <2>3
  <2>4. CASE new(e) /\ in(d) /\ arrived'[d] = arrived[d] BY <1>3, <1>4, <1>5, <2>4
  <2> QED BY <1>1, <1>5, <2>1, <2>2, <2>3, <2>4
<1> QED BY <1>1, <1>3, <1>4, <1>5 DEF OwnPlace, TakenFor

\* Resolve leads to a path where no row leads: what it finds free, or the place of an
\* album, which no other directory goes to.
LEMMA ResolveApart ==
  ASSUME IInv, PathInv, OwnPlace, NumbersLeft, Resolve
  PROVE  /\ Belongs(mdir, final_library_path')
         /\ \A d \in Dirs \ {mdir} : row[d] = "in_library" => library_path[d] # final_library_path'
<1>1. mdir \in Dirs /\ final_library_path' = resolve_library_path(mdir)
  BY DEF Resolve, IInv, TypeInv, TypeOK
<1>2. CASE mdir \in LayoutAware
  <2> DEFINE t == TitleAndYear(mdir).title
             y == TitleAndYear(mdir).year
  <2>1. final_library_path' = resolve_destination("movies", t, y)
    BY <1>1, <1>2 DEF resolve_library_path, Category
  <2>2. canonical_titles[mdir] \in Canonicals \cup {None} BY <1>1 DEF IInv, TypeInv, TypeOK
  <2>3. t \in {c.title : c \in Canonicals} \cup {LocalTitle} \cup Dirs
    BY <1>1, <2>2 DEF TitleAndYear
  <2> HIDE DEF t, y
  <2>4. Numbers("movies", t) # {} BY <2>3 DEF NumbersLeft
  <2>5. resolve_destination("movies", t, y) \notin DOMAIN lib
    BY <2>4, FreeDestination
  <2>6. final_library_path'.category = "movies" BY <2>1, TitleKept
  <2> QED BY <1>2, <2>1, <2>5, <2>6 DEF Belongs, OwnPlace
<1>3. CASE mdir \notin LayoutAware
  <2>1. final_library_path' = Path("music", <<mdir>>)
    BY <1>1, <1>3 DEF resolve_library_path, Category
  <2>2. ASSUME NEW d \in Dirs \ {mdir}, row[d] = "in_library"
        PROVE  library_path[d] # Path("music", <<mdir>>)
    <3>1. Belongs(d, library_path[d]) BY <2>2 DEF PathInv
    <3>2. CASE d \in LayoutAware BY <3>1, <3>2 DEF Belongs, Path
    <3>3. CASE d \notin LayoutAware
      <4>1. library_path[d] = Path("music", <<d>>) BY <3>1, <3>3 DEF Belongs
      <4>2. Path("music", <<d>>).name[1] = d /\ Path("music", <<mdir>>).name[1] = mdir
        BY DEF Path
      <4> QED BY <4>1, <4>2
    <3> QED BY <3>2, <3>3
  <2> QED BY <1>3, <2>1, <2>2 DEF Belongs
<1> QED BY <1>2, <1>3

LEMMA PathStep ==
  ASSUME IInv, PathInv, OwnPlace, NumbersLeft, [Next]_vars
  PROVE  PathInv'
<1> DEFINE placed == {"check", "dedup", "backup", "rename", "record", "publish"}
<1>1. \A d \in Dirs : row'[d] = "in_library" =>
        \/ row[d] = "in_library"
        \/ mpc = "publish" /\ d = mdir /\ PublishMove
  BY RowsInLibrary
<1>2. UNCHANGED library_path \/ set_directory_library_path BY StepShape
<1>3. DOMAIN library_path' = Dirs BY <1>2 DEF set_directory_library_path, PathInv
<1>4. \A d \in Dirs \ {mdir} : library_path'[d] = library_path[d]
  BY <1>2 DEF set_directory_library_path, PathInv
<1>5. \A d \in Dirs : row[d] = "in_library" => d # mdir
  BY Names DEF IInv, WorkerInv
<1>6. \A d \in Dirs : row'[d] = "in_library" => Belongs(d, library_path'[d])
  <2>1. PublishMove /\ mpc = "publish" /\ mdir \in Dirs =>
          Belongs(mdir, library_path[mdir]) /\ UNCHANGED library_path
    BY DEF PublishMove, PathInv
  <2> QED BY <1>1, <1>4, <1>5, <2>1 DEF PathInv
<1>7. ASSUME mpc' \in placed
      PROVE  /\ Belongs(mdir', final_library_path')
             /\ \A d \in Dirs \ {mdir'} :
                  row'[d] = "in_library" => library_path'[d] # final_library_path'
             /\ mpc' = "publish" => library_path'[mdir'] = final_library_path'
  <2>1. \A d \in Dirs : row'[d] = "in_library" => row[d] = "in_library"
    BY <1>1, <1>7 DEF PublishMove
  <2>2. CASE Resolve
    <3>1. mdir' = mdir /\ mpc' = "check" BY <2>2 DEF Resolve
    <3> QED BY <1>4, <2>1, <2>2, <3>1, ResolveApart
  <2>3. CASE /\ mpc \in placed /\ UNCHANGED <<mdir, final_library_path>>
             /\ mpc' = "publish" => mpc = "publish" \/ set_directory_library_path
    <3>1. Belongs(mdir', final_library_path') BY <2>3 DEF PathInv
    <3>2. \A d \in Dirs \ {mdir'} :
            row'[d] = "in_library" => library_path'[d] # final_library_path'
      BY <1>4, <2>1, <2>3 DEF PathInv
    <3>3. mdir \in Dirs BY <2>3 DEF IInv, TypeInv, TypeOK
    <3>4. mpc' = "publish" => library_path'[mdir'] = final_library_path'
      BY <1>2, <2>3, <3>3 DEF set_directory_library_path, PathInv
    <3> QED BY <3>1, <3>2, <3>4
  <2> QED BY <1>7, <2>2, <2>3, StepShape
<1> QED BY <1>3, <1>6, <1>7 DEF PathInv
-----------------------------------------------------------------------------
(* A number is left as long as directories and events are few.             *)

\* The directories with something in staging.
Full == {d \in Dirs : staging[d] # {}}

\* A path of the library was taken by the move of a directory, whose staging is empty
\* until a file arrives, or by somebody else.
CountInv ==
  /\ IsFiniteSet(DOMAIN lib)
  /\ Cardinality(DOMAIN lib) + Cardinality(Full) <= Cardinality(Dirs) + events

LEMMA OneMore ==
  ASSUME NEW S, IsFiniteSet(S), NEW x
  PROVE  /\ IsFiniteSet(S \cup {x})
         /\ Cardinality(S) \in Nat /\ Cardinality(S \cup {x}) \in Nat
         /\ Cardinality(S \cup {x}) <= Cardinality(S) + 1
<1>1. /\ IsFiniteSet(S \cup {x})
      /\ \/ Cardinality(S \cup {x}) = Cardinality(S)
         \/ Cardinality(S \cup {x}) = Cardinality(S) + 1
  BY FS_AddElement
<1>2. Cardinality(S) \in Nat /\ Cardinality(S \cup {x}) \in Nat BY <1>1, FS_CardinalityType
<1> QED BY <1>1, <1>2

LEMMA SubFull ==
  ASSUME IsFiniteSet(Dirs), NEW S \in SUBSET Dirs
  PROVE  IsFiniteSet(S) /\ Cardinality(S) \in Nat /\ Cardinality(S) <= Cardinality(Dirs)
BY FS_Subset, FS_CardinalityType

\* The staging directories do not fill up, or an event has happened.
LEMMA FullStep ==
  ASSUME IInv, [Next]_vars, IsFiniteSet(Dirs)
  PROVE  \/ Full' \subseteq Full
         \/ /\ events' = events + 1 /\ UNCHANGED lib
            /\ \E d \in Dirs : Full' \subseteq Full \cup {d}
<1>1. CASE UNCHANGED staging BY <1>1 DEF Full
<1>2. ASSUME NEW d \in Dirs, NewFile(d)
      PROVE  /\ events' = events + 1 /\ UNCHANGED lib
             /\ \E e \in Dirs : Full' \subseteq Full \cup {e}
  <2>1. events' = events + 1 /\ UNCHANGED lib BY <1>2 DEF NewFile, Event
  <2>2. \A e \in Dirs \ {d} : staging'[e] = staging[e]
    BY <1>2 DEF NewFile, IInv, TypeInv, TypeOK
  <2>3. Full' \subseteq Full \cup {d} BY <2>2 DEF Full
  <2> QED BY <2>1, <2>3
<1>3. CASE RemoveDuplicate \/ MoveTree
  <2>1. mdir \in Dirs BY <1>3 DEF RemoveDuplicate, MoveTree, IInv, TypeInv, TypeOK
  <2>2. \E left \in SUBSET staging[mdir] : staging' = [staging EXCEPT ![mdir] = left]
    <3>1. staging = [staging EXCEPT ![mdir] = staging[mdir]] BY <2>1 DEF IInv, TypeInv, TypeOK
    <3> QED BY <1>3, <3>1 DEF RemoveDuplicate, MoveTree
  <2>3. PICK left \in SUBSET staging[mdir] : staging' = [staging EXCEPT ![mdir] = left] BY <2>2
  <2>4. staging'[mdir] \subseteq staging[mdir] BY <2>1, <2>3 DEF IInv, TypeInv, TypeOK
  <2>5. \A e \in Dirs \ {mdir} : staging'[e] = staging[e] BY <2>3 DEF IInv, TypeInv, TypeOK
  <2>6. \A e \in Dirs : staging'[e] \subseteq staging[e] BY <2>4, <2>5
  <2> QED BY <2>6 DEF Full
<1>4. CASE RenameStep
  BY <1>1, <1>4 DEF RenameStep, claim_analyzed_row, RenameDirectory, WriteTitle, PublishRename, disks
<1>5. CASE MoveStep /\ ~MoveTree /\ ~RemoveDuplicate
  BY <1>1, <1>5 DEF MoveStep, claim_renamed_row, Resolve, CheckDestination, BackUp,
                    set_directory_library_path, PublishMove, disks
<1>6. CASE NextRun \/ Crash BY <1>1, <1>6 DEF NextRun, Crash, disks
<1>7. CASE \E d \in Dirs : trigger_plex_scans(d) \/ Walk(d) \/ UserAdds(d)
  BY <1>1, <1>7 DEF trigger_plex_scans, Walk, UserAdds, disks
<1>8. CASE \E path \in DOMAIN lib : Reencode(path) BY <1>1, <1>8 DEF Reencode
<1>9. CASE UNCHANGED vars BY <1>1, <1>9 DEF vars, disks
<1> QED BY <1>2, <1>3, <1>4, <1>5, <1>6, <1>7, <1>8, <1>9 DEF Next

\* A path is added by the move that empties staging, or with an event.
LEMMA PathsStep ==
  ASSUME IInv, [Next]_vars
  PROVE  \/ DOMAIN lib' \subseteq DOMAIN lib
         \/ /\ \E p : DOMAIN lib' = DOMAIN lib \cup {p}
            /\ \/ events' = events + 1 /\ UNCHANGED staging
               \/ UNCHANGED events /\ mdir \in Full /\ Full' = Full \ {mdir}
<1>1. CASE UNCHANGED lib BY <1>1
<1>2. CASE MoveTree
  <2>1. mdir \in Dirs BY <1>2 DEF MoveTree, IInv, TypeInv, TypeOK
  <2>2. \/ UNCHANGED lib
        \/ /\ \E p : DOMAIN lib' = DOMAIN lib \cup {p}
           /\ staging[mdir] # {} /\ staging' = [staging EXCEPT ![mdir] = {}] /\ UNCHANGED events
    BY <1>2 DEF MoveTree, bounds
  <2> QED BY <1>1, <2>1, <2>2 DEF Full, IInv, TypeInv, TypeOK
<1>3. CASE BackUp BY <1>3 DEF BackUp, Restrict
<1>4. ASSUME NEW d \in Dirs, UserAdds(d)
      PROVE  /\ \E p : DOMAIN lib' = DOMAIN lib \cup {p}
             /\ events' = events + 1 /\ UNCHANGED staging
  BY <1>4 DEF UserAdds, Event
<1>5. ASSUME NEW path \in DOMAIN lib, Reencode(path)
      PROVE  DOMAIN lib' \subseteq DOMAIN lib
  BY <1>5 DEF Reencode
<1>6. CASE RenameStep
  BY <1>1, <1>6 DEF RenameStep, claim_analyzed_row, RenameDirectory, WriteTitle, PublishRename, disks
<1>7. CASE MoveStep /\ ~MoveTree /\ ~BackUp
  BY <1>1, <1>7 DEF MoveStep, claim_renamed_row, Resolve, CheckDestination, RemoveDuplicate,
                    set_directory_library_path, PublishMove, disks
<1>8. CASE NextRun \/ Crash BY <1>1, <1>8 DEF NextRun, Crash, disks
<1>9. CASE \E d \in Dirs : trigger_plex_scans(d) \/ Walk(d) \/ NewFile(d)
  BY <1>1, <1>9 DEF trigger_plex_scans, Walk, NewFile, disks
<1>10. CASE UNCHANGED vars BY <1>1, <1>10 DEF vars, disks
<1> QED BY <1>2, <1>3, <1>4, <1>5, <1>6, <1>7, <1>8, <1>9, <1>10 DEF Next

\* The count of events never goes back.
LEMMA EventsStep ==
  ASSUME IInv, [Next]_vars
  PROVE  events' \in 0..MaxEvents /\ events <= events'
<1>0. TypeInv BY DEF IInv
<1>1. CASE UNCHANGED bounds \/ Event \/ Fault BY <1>0, <1>1, FaultFacts
<1>2. CASE RenameStep
  BY <1>1, <1>2 DEF RenameStep, claim_analyzed_row, RenameDirectory, WriteTitle, PublishRename
<1>3. CASE MoveStep
  BY <1>1, <1>3 DEF MoveStep, claim_renamed_row, Resolve, CheckDestination, RemoveDuplicate, BackUp,
                    MoveTree, set_directory_library_path, PublishMove
<1>4. CASE NextRun \/ Crash BY <1>1, <1>4 DEF NextRun, Crash
<1>5. CASE \E d \in Dirs : trigger_plex_scans(d) \/ Walk(d) \/ NewFile(d) \/ UserAdds(d)
  BY <1>1, <1>5 DEF trigger_plex_scans, Walk, NewFile, UserAdds
<1>6. CASE \E path \in DOMAIN lib : Reencode(path) BY <1>1, <1>6 DEF Reencode
<1>7. CASE UNCHANGED vars BY <1>1, <1>7 DEF vars
<1> QED BY <1>2, <1>3, <1>4, <1>5, <1>6, <1>7 DEF Next

LEMMA CountStep ==
  ASSUME IInv, CountInv, [Next]_vars, IsFiniteSet(Dirs)
  PROVE  CountInv'
<1> DEFINE paths == Cardinality(DOMAIN lib)
           full == Cardinality(Full)
           paths1 == Cardinality(DOMAIN lib')
           full1 == Cardinality(Full')
           dirs == Cardinality(Dirs)
<1>1. /\ IsFiniteSet(Full) /\ full \in Nat /\ dirs \in Nat
      /\ IsFiniteSet(Full') /\ full1 \in Nat
  BY SubFull, FS_CardinalityType DEF Full
<1>2. IsFiniteSet(DOMAIN lib) /\ paths \in Nat /\ paths + full <= dirs + events
  BY FS_CardinalityType DEF CountInv
<1>3. PICK e \in Nat : events' = e /\ events <= e BY EventsStep
<1>4. events \in Nat BY Names DEF IInv, TypeInv
<1>5. /\ IsFiniteSet(DOMAIN lib') /\ paths1 \in Nat
      /\ \/ paths1 <= paths
         \/ /\ paths1 <= paths + 1
            /\ \/ e = events + 1 /\ UNCHANGED staging
               \/ e = events /\ full1 = full - 1
  <2>1. CASE DOMAIN lib' \subseteq DOMAIN lib
    BY <1>2, <2>1, FS_Subset, FS_CardinalityType
  <2>2. ASSUME NEW p, DOMAIN lib' = DOMAIN lib \cup {p}
        PROVE  IsFiniteSet(DOMAIN lib') /\ paths1 \in Nat /\ paths1 <= paths + 1
    BY <1>2, <2>2, OneMore
  <2>3. mdir \in Full /\ Full' = Full \ {mdir} => full1 = full - 1
    BY <1>1, FS_RemoveElement
  <2> QED BY <1>3, <2>1, <2>2, <2>3, PathsStep
<1>6. \/ full1 <= full
      \/ e = events + 1 /\ full1 <= full + 1 /\ UNCHANGED lib
  <2>1. CASE Full' \subseteq Full BY <1>1, <2>1, FS_Subset
  <2>2. ASSUME NEW d \in Dirs, Full' \subseteq Full \cup {d}
        PROVE  full1 <= full + 1
    <3>1. /\ IsFiniteSet(Full \cup {d}) /\ Cardinality(Full \cup {d}) \in Nat
          /\ Cardinality(Full \cup {d}) <= full + 1
      BY <1>1, OneMore
    <3>2. full1 <= Cardinality(Full \cup {d}) BY <2>2, <3>1, FS_Subset
    <3> QED BY <1>1, <3>1, <3>2
  <2> QED BY <1>3, <2>1, <2>2, FullStep
<1>7. UNCHANGED staging => full1 = full BY DEF Full
<1>8. UNCHANGED lib => paths1 = paths OBVIOUS
<1> HIDE DEF paths, full, paths1, full1, dirs
<1>9. paths1 + full1 <= dirs + e BY <1>1, <1>2, <1>3, <1>4, <1>5, <1>6, <1>7, <1>8
<1> USE DEF paths, full, paths1, full1, dirs
<1> QED BY <1>3, <1>5, <1>9 DEF CountInv

LEMMA FiniteRange == IsFiniteSet(2..999) /\ Cardinality(2..999) = 998
<1> DEFINE a == 2  b == 999
<1>1. a \in Int /\ b \in Int /\ ~(a > b) /\ b - a + 1 = 998 OBVIOUS
<1>2. /\ IsFiniteSet(a..b)
      /\ Cardinality(a..b) = IF a > b THEN 0 ELSE b - a + 1
  <2> HIDE DEF a, b
  <2> QED BY <1>1, FS_Interval
<1> QED BY <1>1, <1>2

\* 998 numbers for a title cannot all be taken by fewer paths.
LEMMA FewPaths ==
  ASSUME IsFiniteSet(DOMAIN lib), Cardinality(DOMAIN lib) < 998
  PROVE  NumbersLeft
<1>1. ASSUME NEW title, Numbers("movies", title) = {} PROVE FALSE
  <2> DEFINE P(n) == Path("movies", <<title, n>>)
             f == [n \in 2..999 |-> P(n)]
  <2>1. \A n : P(n).name = <<title, n>> BY DEF Path
  <2>2. \A n : <<title, n>>[2] = n OBVIOUS
  <2>3. \A n \in 2..999 : P(n) \in DOMAIN lib BY <1>1 DEF Numbers
  <2> HIDE DEF P
  <2>4. f \in [2..999 -> DOMAIN lib] BY <2>3
  <2>5. IsFiniteSet(2..999) /\ Cardinality(2..999) = 998 BY FiniteRange
  <2>6. \A x \in 2..999 : f[x] = P(x) OBVIOUS
  <2> DEFINE numbers == 2..999
  <2> HIDE DEF f, numbers
  <2>7. /\ IsFiniteSet(numbers) /\ Cardinality(DOMAIN lib) < Cardinality(numbers)
        /\ f \in [numbers -> DOMAIN lib] /\ \A x \in numbers : f[x] = P(x)
    <3>1. IsFiniteSet(numbers) /\ Cardinality(numbers) = 998 BY <2>5 DEF numbers
    <3>2. f \in [numbers -> DOMAIN lib] BY <2>4 DEF numbers
    <3>3. \A x \in numbers : f[x] = P(x) BY <2>6 DEF numbers
    <3> QED BY <3>1, <3>2, <3>3
  <2>8. PICK x, y \in numbers : x # y /\ f[x] = f[y] BY <2>7, FS_PigeonHole
  <2>9. P(x) = P(y) BY <2>7, <2>8
  <2>10. P(x).name[2] = x /\ P(y).name[2] = y BY <2>1, <2>2
  <2> QED BY <2>8, <2>9, <2>10
<1> QED BY <1>1 DEF NumbersLeft
-----------------------------------------------------------------------------
(* What lies in the library.                                               *)

\* c is still there, re-encoded at most.
Remains(c) == {c, [c EXCEPT !.encoded = TRUE]} \cap (Range(lib') \cup backups') # {}

\* A step that leaves what is in the library where it is, apart from its encoding.
LEMMA InPlace ==
  ASSUME DOMAIN lib \subseteq DOMAIN lib', backups \subseteq backups',
         \A p \in DOMAIN lib : lib'[p] \in {lib[p], [lib[p] EXCEPT !.encoded = TRUE]}
  PROVE  \A c \in Range(lib) \cup backups : Remains(c)
BY DEF Remains, Range

LEMMA KeptStep ==
  ASSUME IInv, [Next]_vars PROVE \A c \in Range(lib) \cup backups : Remains(c)
<1>1. CASE UNCHANGED <<lib, backups>> BY <1>1, InPlace
<1>2. CASE BackUp /\ ~UNCHANGED <<lib, backups>>
  <2>1. /\ final_library_path \in DOMAIN lib
        /\ backups' = backups \cup {lib[final_library_path]}
        /\ lib' = Restrict(lib, DOMAIN lib \ {final_library_path})
    BY <1>2 DEF BackUp
  <2>2. /\ DOMAIN lib' = DOMAIN lib \ {final_library_path}
        /\ \A p \in DOMAIN lib' : lib'[p] = lib[p]
    BY <2>1 DEF Restrict
  <2> QED BY <2>1, <2>2 DEF Remains, Range
<1>3. CASE MoveTree /\ ~UNCHANGED <<lib, backups>>
  <2>1. /\ final_library_path \notin DOMAIN lib /\ backups' = backups
        /\ lib' = [p \in DOMAIN lib \cup {final_library_path} |->
                     IF p = final_library_path THEN Tree(mdir) ELSE lib[p]]
    BY <1>3 DEF MoveTree
  <2> QED BY <2>1, Put, InPlace
<1>4. ASSUME NEW d \in Dirs, UserAdds(d) PROVE \A c \in Range(lib) \cup backups : Remains(c)
  <2>1. PICK path, c : /\ path \notin DOMAIN lib /\ backups' = backups
                       /\ lib' = [p \in DOMAIN lib \cup {path} |-> IF p = path THEN c ELSE lib[p]]
    BY <1>4 DEF UserAdds
  <2> QED BY <2>1, Put, InPlace
<1>5. ASSUME NEW path \in DOMAIN lib, Reencode(path)
      PROVE  \A c \in Range(lib) \cup backups : Remains(c)
  <2>1. backups' = backups /\ lib' = [lib EXCEPT ![path].encoded = TRUE]
    BY <1>5 DEF Reencode
  <2>2. DOMAIN lib' = DOMAIN lib BY <2>1
  <2>3. \A p \in DOMAIN lib : lib'[p] \in {lib[p], [lib[p] EXCEPT !.encoded = TRUE]}
    BY <2>1
  <2> QED BY <2>1, <2>2, <2>3, InPlace
<1>6. CASE RenameStep
  BY <1>1, <1>6 DEF RenameStep, claim_analyzed_row, RenameDirectory, WriteTitle, PublishRename,
                    disks
<1>7. CASE MoveStep
  BY <1>1, <1>2, <1>3, <1>7 DEF MoveStep, claim_renamed_row, Resolve, CheckDestination,
     RemoveDuplicate, set_directory_library_path, PublishMove, disks
<1>8. CASE NextRun \/ Crash \/ UNCHANGED vars
  BY <1>1, <1>8 DEF NextRun, Crash, vars, disks
<1>9. CASE \E d \in Dirs : trigger_plex_scans(d) \/ Walk(d) \/ NewFile(d)
  BY <1>1, <1>9 DEF trigger_plex_scans, Walk, NewFile, disks
<1> QED BY <1>4, <1>5, <1>6, <1>7, <1>8, <1>9 DEF Next
-----------------------------------------------------------------------------
(* The theorems.                                                           *)

\* The types; a worker holds a row exactly while it works on one.
THEOREM TypeCorrect == Spec => []TypeOK
<1>1. IInv => TypeOK BY DEF IInv, TypeInv
<1> QED BY <1>1, Initially, Inductive, PTL DEF Spec

\* A file is lost between staging and the library (move_to_library) only to a lookalike that
\* lies there, which has the same manifest: whatever is in the way, fails, dies or arrives.
THEOREM LookalikesAloneLose == Spec => []OnlyLookalikesLose
<1>1. IInv => OnlyLookalikesLose BY DEF IInv
<1> QED BY <1>1, Initially, Inductive, PTL DEF Spec

\* What is in the way of a move is never destroyed (move_to_library backs it up), and neither
\* is anything else in the library.
THEOREM LibraryIsKept == Spec => LibraryKept
<1>1. IInv /\ [Next]_vars =>
        [\A c \in Range(lib) \cup backups :
           {c, [c EXCEPT !.encoded = TRUE]} \cap (Range(lib') \cup backups') # {}]_vars
  BY KeptStep DEF Remains
<1> QED BY <1>1, Initially, Inductive, PTL DEF Spec, LibraryKept

\* The title the rename worker looked up is the one the move worker uses
\* (RenameSlotWorker, MoveSlotWorker and the map they share).
THEOREM TitleReachesMove == Spec => []CanonicalTitleUsed
<1>1. IInv => CanonicalTitleUsed BY DEF IInv, TitleInv, CanonicalTitleUsed
<1> QED BY <1>1, Initially, Inductive, PTL DEF Spec

\* Each row of the library leads to a place of its own, where its directory is, or the
\* lookalike its files were taken for by the manifests, as long as resolve_destination has a
\* number left.
THEOREM PlaceIsOwn == Spec /\ []NumbersLeft => []OwnPlace
<1>1. Init => PathInv /\ OwnPlace BY DEF Init, PathInv, OwnPlace
<1>2. IInv /\ PathInv /\ OwnPlace /\ NumbersLeft /\ [Next]_vars => (PathInv /\ OwnPlace)'
  BY OwnPlaceStep, PathStep
<1> QED BY <1>1, <1>2, Initially, Inductive, PTL DEF Spec

\* With fewer than 998 directories and events it always has.
THEOREM PlaceIsOwnAmongFew ==
  ASSUME IsFiniteSet(Dirs), Cardinality(Dirs) + MaxEvents < 998
  PROVE  Spec => []OwnPlace
<1>1. Init => CountInv
  <2> SUFFICES ASSUME Init PROVE CountInv OBVIOUS
  <2>1. DOMAIN lib = {} /\ events = 0 BY DEF Init
  <2>2. Cardinality(Full) \in Nat /\ Cardinality(Full) <= Cardinality(Dirs)
    BY SubFull DEF Full
  <2>3. Cardinality(Dirs) \in Nat BY FS_CardinalityType
  <2> QED BY <2>1, <2>2, <2>3, FS_EmptySet DEF CountInv
<1>2. IInv /\ CountInv /\ [Next]_vars => CountInv' BY CountStep
<1>3. IInv /\ CountInv => NumbersLeft
  <2> SUFFICES ASSUME IInv, CountInv PROVE NumbersLeft OBVIOUS
  <2>1. /\ Cardinality(Full) \in Nat /\ Cardinality(DOMAIN lib) \in Nat
        /\ Cardinality(Dirs) \in Nat /\ events \in Nat /\ MaxEvents \in Nat /\ events <= MaxEvents
    BY SubFull, FS_CardinalityType, Names DEF Full, CountInv, IInv, TypeInv
  <2> QED BY <2>1, FewPaths DEF CountInv
<1> QED BY <1>1, <1>2, <1>3, Initially, Inductive, PlaceIsOwn, PTL DEF Spec

=============================================================================
