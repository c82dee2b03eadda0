---------------------------- MODULE Rename_proofs ----------------------------
(***************************************************************************)
(* Proofs about Rename and Names: for any trees, faults and downloads, a   *)
(* rename that is interrupted and repeated ends where an undisturbed one   *)
(* ends, only two files with one new name can cost a file, and a video has *)
(* the title of its download also under its new name.                      *)
(***************************************************************************)
EXTENDS Rename, SequenceTheorems, WellFoundedInduction, TLAPS

Name == Seq(STRING)

\* Where a file of the tree may be: where it was downloaded to, or where a rename puts it.
Places(f) == {f} \cup {new_path(f, q) : q \in primary_video(tree)}

TypeInv ==
  /\ TypeOK
  /\ DOMAIN disk \subseteq Paths
  /\ \A p \in DOMAIN rename_map : rename_map[p] \in Paths

\* Whatever a path holds, it is one of the places of that; each file has a path at one
\* of its places (that another file is at, if they collide).
PlacesInv ==
  /\ \A p \in DOMAIN disk : p \in Places(disk[p])
  /\ \A f \in tree : \E p \in DOMAIN disk : p \in Places(f)

\* With this primary video, all that is not in the map has its new name.
Plan(primary) ==
  /\ \A p \in DOMAIN rename_map : rename_map[p] = new_path(p, primary) /\ rename_map[p] # p
  /\ \A p \in DOMAIN disk \ DOMAIN rename_map : new_path(p, primary) = p

\* The plan of the worker is one that the downloaded tree could have led to, even if
\* it was made for a tree half renamed.
PlanInv ==
  /\ pc \in {"apply", "insert", "update"} => \E primary \in primary_video(tree) : Plan(primary)
  /\ row = "renamed" =>
       \E primary \in primary_video(tree) : \A p \in DOMAIN disk : new_path(p, primary) = p

IInv == TypeInv /\ (ProperNames => PlacesInv /\ PlanInv)
-----------------------------------------------------------------------------
(* Sequences.                                                              *)

LEMMA Greatest ==
  ASSUME NEW S \in SUBSET Nat, NEW bound \in Nat, \A n \in S : n <= bound, S # {}
  PROVE  Max(S) \in S /\ \A n \in S : n <= Max(S)
<1> DEFINE R == OpToRel(<, Nat)
           T == {k \in 0..bound : bound - k \in S}
<1>1. T \subseteq Nat /\ T # {}
  <2>1. PICK n \in S : TRUE OBVIOUS
  <2>2. n \in Nat /\ n <= bound OBVIOUS
  <2>3. bound - n \in 0..bound /\ bound - (bound - n) = n BY <2>2
  <2>4. bound - n \in T BY <2>3
  <2>5. T \subseteq Nat OBVIOUS
  <2> HIDE DEF T
  <2> QED BY <2>4, <2>5
<1>2. PICK t \in T : \A u \in T : ~ (<<u, t>> \in R)
  BY <1>1, NatLessThanWellFounded, WFMin
<1>3. \A u \in T : ~ (u < t) BY <1>1, <1>2 DEF OpToRel
<1>4. PICK n \in S : n = bound - t OBVIOUS
<1>5. \A m \in S : n >= m
  <2> SUFFICES ASSUME NEW m \in S PROVE n >= m OBVIOUS
  <2>1. m \in Nat /\ m <= bound /\ t \in Nat OBVIOUS
  <2>2. bound - m \in 0..bound /\ bound - (bound - m) = m BY <2>1
  <2>3. ~ (bound - m < t) BY <1>3, <2>2
  <2> QED BY <1>4, <2>1, <2>3
<1>6. \E x \in S : \A y \in S : x >= y BY <1>5
<1> HIDE DEF R, T
<1>7. Max(S) \in S /\ \A y \in S : Max(S) >= y BY <1>6 DEF Max
<1>8. Max(S) \in Nat /\ \A y \in S : y \in Nat BY <1>7
<1> QED BY <1>7, <1>8

\* A part of a name is a name, whatever the bounds of the part are.
LEMMA PartOfName ==
  ASSUME NEW s \in Name, NEW m \in Nat, NEW n \in Int, m >= 1, n <= Len(s)
  PROVE  /\ SubSeq(s, m, n) \in Name
         /\ Len(SubSeq(s, m, n)) = IF m <= n THEN n - m + 1 ELSE 0
         /\ \A i \in 1..n - m + 1 : SubSeq(s, m, n)[i] = s[m + i - 1]
<1>1. \A i \in m..n : s[i] \in STRING BY ElementOfSeq DEF Name
<1> QED BY <1>1, SubSeqProperties DEF Name

LEMMA Concat ==
  ASSUME NEW s \in Name, NEW t \in Name
  PROVE  /\ s \o t \in Name
         /\ Len(s \o t) = Len(s) + Len(t)
         /\ \A i \in 1..Len(s) + Len(t) : (s \o t)[i] = IF i <= Len(s) THEN s[i] ELSE t[i - Len(s)]
BY ConcatProperties DEF Name

LEMMA LenName == ASSUME NEW s \in Name PROVE Len(s) \in Nat /\ DOMAIN s = 1..Len(s)
BY LenProperties DEF Name

LEMMA OneElement == ASSUME NEW S, NEW w, w \in S PROVE <<w>> \in Seq(S)
OBVIOUS

\* A word as a name.
LEMMA Word ==
  ASSUME NEW w, w \in Separators \cup {group_name}
  PROVE  <<w>> \in Name /\ Len(<<w>>) = 1 /\ <<w>>[1] = w
<1>1. w \in STRING BY RenameAssumption
<1>2. <<w>> \in Seq(STRING) BY <1>1, OneElement
<1> QED BY <1>2 DEF Name
-----------------------------------------------------------------------------
(* Names.                                                                  *)

NoDot(ext) == \A i \in DOMAIN ext : ext[i] # "."

\* Both parts are names; the extension has no dot, the stem of a name is not empty.
LEMMA SplitType ==
  ASSUME NEW name \in Name
  PROVE  /\ split_basename(name).stem \in Name
         /\ split_basename(name).ext \in Name
         /\ NoDot(split_basename(name).ext)
         /\ split_basename(name).ext # <<>> => split_basename(name).stem # <<>>
<1> DEFINE dots == {i \in 2..Len(name) : name[i] = "."}
           end == IF dots = {} THEN Len(name) + 1 ELSE Max(dots)
           stem == SubSeq(name, 1, end - 1)
           ext == SubSeq(name, end + 1, Len(name))
<1>1. Len(name) \in Nat BY LenName
<1>2. dots # {} => Max(dots) \in dots /\ \A i \in dots : i <= Max(dots)
  <2>1. dots \in SUBSET Nat /\ \A i \in dots : i <= Len(name) BY <1>1
  <2> HIDE DEF dots
  <2> QED BY <1>1, <2>1, Greatest
<1>3. /\ end \in Nat /\ end >= 1 /\ end <= Len(name) + 1
      /\ \A i \in dots : i <= end
      /\ end <= Len(name) => end >= 2
  BY <1>1, <1>2
<1>4. split_basename(name).stem = stem /\ split_basename(name).ext = ext
  BY DEF split_basename
<1>5. \A i \in 2..Len(name) : i > end => name[i] # "." BY <1>1, <1>3
<1> HIDE DEF dots, end
<1>6. stem \in Name /\ Len(stem) = end - 1 BY <1>1, <1>3, PartOfName
<1>7. /\ ext \in Name
      /\ Len(ext) = IF end + 1 <= Len(name) THEN Len(name) - end ELSE 0
      /\ \A i \in 1..Len(name) - end : ext[i] = name[end + i]
  BY <1>1, <1>3, PartOfName
<1> HIDE DEF stem, ext
<1>8. NoDot(ext)
  <2> SUFFICES ASSUME NEW i \in 1..Len(ext) PROVE ext[i] # "." BY <1>7, LenName DEF NoDot
  <2>1. i \in 1..Len(name) - end BY <1>1, <1>3, <1>7
  <2>2. end + i \in 2..Len(name) /\ end + i > end BY <1>1, <1>3, <2>1
  <2> QED BY <1>5, <1>7, <2>1, <2>2
<1>9. ext # <<>> => stem # <<>>
  <2>1. ext # <<>> => Len(ext) > 0 BY <1>7, EmptySeq DEF Name
  <2>2. ext # <<>> => end >= 2 BY <1>1, <1>3, <1>7, <2>1
  <2> QED BY <1>3, <1>6, <2>2
<1> QED BY <1>4, <1>6, <1>7, <1>8, <1>9

LEMMA BasenameType ==
  ASSUME NEW stem \in Name, NEW ext \in Name PROVE Basename(stem, ext) \in Name
<1>1. <<".">> \in Name BY Word DEF Separators
<1> QED BY <1>1, Concat DEF Basename

\* A stem and an extension with a dot between them are split again where they were joined.
LEMMA SplitOfJoin ==
  ASSUME NEW stem \in Name, NEW ext \in Name, stem # <<>>, NoDot(ext)
  PROVE  /\ stem \o <<".">> \o ext \in Name
         /\ split_basename(stem \o <<".">> \o ext).stem = stem
         /\ split_basename(stem \o <<".">> \o ext).ext = ext
<1> DEFINE dot == <<".">>
           name == stem \o dot \o ext
           dots == {i \in 2..Len(name) : name[i] = "."}
           at == Len(stem) + 1
<1>1. dot \in Name /\ Len(dot) = 1 /\ dot[1] = "." BY Word DEF Separators
<1>2. Len(stem) \in Nat /\ Len(ext) \in Nat /\ Len(stem) >= 1
  BY LenName, EmptySeq DEF Name
<1> HIDE DEF dot
<1>3. /\ stem \o dot \in Name /\ Len(stem \o dot) = at
      /\ \A i \in 1..Len(stem) : (stem \o dot)[i] = stem[i]
      /\ (stem \o dot)[at] = "."
  <2>1. stem \o dot \in Name /\ Len(stem \o dot) = Len(stem) + 1
    <3>1. stem \o dot \in Name /\ Len(stem \o dot) = Len(stem) + Len(dot) BY <1>1, Concat
    <3> QED BY <1>1, <3>1
  <2>2. \A i \in 1..Len(stem) + 1 :
          (stem \o dot)[i] = IF i <= Len(stem) THEN stem[i] ELSE dot[i - Len(stem)]
    <3>1. \A i \in 1..Len(stem) + Len(dot) :
            (stem \o dot)[i] = IF i <= Len(stem) THEN stem[i] ELSE dot[i - Len(stem)]
      BY <1>1, Concat
    <3> QED BY <1>1, <3>1
  <2>3. \A i \in 1..Len(stem) : i \in 1..Len(stem) + 1 /\ i <= Len(stem) BY <1>2
  <2>4. at \in 1..Len(stem) + 1 /\ ~(at <= Len(stem)) /\ at - Len(stem) = 1 BY <1>2
  <2> QED BY <1>1, <2>1, <2>2, <2>3, <2>4
<1>4. /\ name \in Name /\ Len(name) = at + Len(ext)
      /\ \A i \in 1..at : name[i] = (stem \o dot)[i]
      /\ \A i \in 1..Len(ext) : name[at + i] = ext[i]
  <2> DEFINE front == stem \o dot
  <2>0. front \in Name /\ Len(front) = at BY <1>3
  <2>1. name = front \o ext OBVIOUS
  <2> HIDE DEF front, name
  <2>2. name \in Name /\ Len(name) = at + Len(ext) BY <2>0, <2>1, Concat
  <2>3. \A i \in 1..at + Len(ext) : name[i] = IF i <= at THEN front[i] ELSE ext[i - at]
    BY <2>0, <2>1, Concat
  <2>4. \A i \in 1..at : i \in 1..at + Len(ext) /\ i <= at BY <1>2
  <2>5. \A i \in 1..Len(ext) :
          at + i \in 1..at + Len(ext) /\ ~(at + i <= at) /\ (at + i) - at = i
    BY <1>2
  <2>6. \A i \in 1..at : name[i] = front[i] BY <2>3, <2>4
  <2>7. \A i \in 1..Len(ext) : name[at + i] = ext[i]
    <3> SUFFICES ASSUME NEW i \in 1..Len(ext) PROVE name[at + i] = ext[i] OBVIOUS
    <3>1. at + i \in 1..at + Len(ext) /\ ~(at + i <= at) /\ (at + i) - at = i BY <2>5
    <3>2. name[at + i] = ext[(at + i) - at] BY <2>3, <3>1
    <3> QED BY <3>1, <3>2
  <2> QED BY <2>2, <2>6, <2>7 DEF front
<1> HIDE DEF name
<1>5. \A i \in 1..Len(stem) : name[i] = stem[i] BY <1>2, <1>3, <1>4
<1>6. name[at] = "." BY <1>2, <1>3, <1>4
<1>7. \A i \in at + 1..Len(name) : name[i] # "."
  <2> SUFFICES ASSUME NEW i \in at + 1..Len(name) PROVE name[i] # "." OBVIOUS
  <2>1. i - at \in 1..Len(ext) /\ at + (i - at) = i BY <1>2, <1>4
  <2>2. name[i] = ext[i - at] BY <1>4, <2>1
  <2> QED BY <2>1, <2>2, LenName DEF NoDot
<1>8. at \in dots /\ \A i \in dots : at >= i BY <1>2, <1>4, <1>6, <1>7
<1>9. dots # {} /\ Max(dots) = at
  <2>1. dots \subseteq Nat BY <1>2, <1>4
  <2>2. \A x \in dots : (\A y \in dots : x >= y) => x = at BY <1>8, <2>1
  <2> QED BY <1>8, <2>2 DEF Max
<1>10. /\ split_basename(name).stem = SubSeq(name, 1, at - 1)
       /\ split_basename(name).ext = SubSeq(name, at + 1, Len(name))
  BY <1>9 DEF split_basename
<1> HIDE DEF dots
<1>11. SubSeq(name, 1, at - 1) = stem
  <2>1. /\ SubSeq(name, 1, at - 1) \in Name /\ Len(SubSeq(name, 1, at - 1)) = Len(stem)
        /\ \A i \in 1..Len(stem) : SubSeq(name, 1, at - 1)[i] = name[i]
    BY <1>2, <1>4, PartOfName
  <2> QED BY <1>5, <2>1, SeqEqual DEF Name
<1>12. SubSeq(name, at + 1, Len(name)) = ext
  <2>1. /\ SubSeq(name, at + 1, Len(name)) \in Name
        /\ Len(SubSeq(name, at + 1, Len(name))) = Len(ext)
        /\ \A i \in 1..Len(ext) : SubSeq(name, at + 1, Len(name))[i] = name[at + i]
    BY <1>2, <1>4, PartOfName
  <2> QED BY <1>4, <2>1, SeqEqual DEF Name
<1> QED BY <1>4, <1>10, <1>11, <1>12 DEF name, dot

LEMMA SplitOfBasename ==
  ASSUME NEW stem \in Name, NEW ext \in Name, stem # <<>>, ext # <<>>, NoDot(ext)
  PROVE  /\ split_basename(Basename(stem, ext)).stem = stem
         /\ split_basename(Basename(stem, ext)).ext = ext
BY SplitOfJoin DEF Basename

LEMMA StripType ==
  ASSUME NEW stem \in Name PROVE strip_sample_suffix(stem) \in Name
<1>1. Len(stem) \in Nat BY LenName
<1>2. CASE is_sample(stem)
  <2>1. Len(stem) > 1 BY <1>2 DEF is_sample
  <2>2. SubSeq(stem, 1, Len(stem) - 2) \in Name BY <1>1, <2>1, PartOfName
  <2> QED BY <1>2, <2>2 DEF strip_sample_suffix
<1>3. CASE ~is_sample(stem) BY <1>3 DEF strip_sample_suffix
<1> QED BY <1>2, <1>3

\* A group is a part of the stem it is found in.
LEMMA GroupInStem ==
  ASSUME NEW s \in Name, NEW g \in DetectedGroup(s)
  PROVE  g.first \in 1..Len(s) /\ g.last \in 1..Len(s)
<1>1. Len(s) \in Nat /\ DOMAIN s = 1..Len(s) BY LenName
<1>2. CASE g \in detect_leading_bracket(s)
  <2>1. PICK c \in 3..(Len(s) - 1) : g = [style |-> "leading_bracket", first |-> 1, last |-> c]
    BY <1>2 DEF detect_leading_bracket
  <2> QED BY <1>1, <2>1
<1>3. CASE g \in detect_trailing(s)
  <2>1. PICK i \in 1..(Len(s) - 1) : g = [style |-> "trailing", first |-> i + 1, last |-> Len(s)]
    BY <1>3 DEF detect_trailing
  <2> QED BY <1>1, <2>1
<1>4. CASE g \in detect_leading_unbracketed(s)
  <2>1. 2 \in DOMAIN s /\ g = [style |-> "leading_unbracketed", first |-> 1, last |-> 1]
    BY <1>4 DEF detect_leading_unbracketed
  <2> QED BY <1>1, <2>1
<1> QED BY <1>2, <1>3, <1>4 DEF DetectedGroup

LEMMA ContainsConcat ==
  ASSUME NEW s \in Name, NEW t \in Name, NEW w, Contains(s, w) \/ Contains(t, w)
  PROVE  Contains(s \o t, w)
<1>1. Len(s) \in Nat /\ Len(t) \in Nat /\ DOMAIN s = 1..Len(s) /\ DOMAIN t = 1..Len(t) BY LenName
<1>2. /\ DOMAIN (s \o t) = 1..Len(s) + Len(t)
      /\ \A i \in 1..Len(s) + Len(t) : (s \o t)[i] = IF i <= Len(s) THEN s[i] ELSE t[i - Len(s)]
  BY Concat, LenName
<1>3. ASSUME NEW i \in 1..Len(s), s[i] = w PROVE Contains(s \o t, w)
  <2>1. i \in 1..Len(s) + Len(t) /\ i <= Len(s) BY <1>1
  <2>2. (s \o t)[i] = w BY <1>2, <1>3, <2>1
  <2> QED BY <1>2, <2>1, <2>2 DEF Contains
<1>4. ASSUME NEW i \in 1..Len(t), t[i] = w PROVE Contains(s \o t, w)
  <2> DEFINE j == Len(s) + i
  <2>1. j \in 1..Len(s) + Len(t) /\ ~(j <= Len(s)) /\ j - Len(s) = i BY <1>1
  <2> HIDE DEF j
  <2>2. (s \o t)[j] = t[j - Len(s)] BY <1>2, <2>1
  <2>3. (s \o t)[j] = w BY <1>4, <2>1, <2>2
  <2> QED BY <1>2, <2>1, <2>3 DEF Contains
<1> QED BY <1>1, <1>3, <1>4 DEF Contains

LEMMA FewElements ==
  ASSUME NEW S, NEW a \in S, NEW b \in S, NEW c \in S
  PROVE  <<a, b>> \in Seq(S) /\ <<a, b, c>> \in Seq(S)
OBVIOUS

\* What is put in the place of a group, or behind the stem.
LEMMA OurGroup ==
  \A ours \in {<<"[", group_name, "]">>, <<group_name>>, <<"-", group_name>>} :
    ours \in Name /\ Contains(ours, group_name)
<1> DEFINE bracket == <<"[", group_name, "]">>
           plain == <<group_name>>
           dash == <<"-", group_name>>
<1>1. "[" \in STRING /\ "]" \in STRING /\ "-" \in STRING /\ group_name \in STRING
  BY RenameAssumption DEF Separators
<1>2. bracket \in Seq(STRING) /\ dash \in Seq(STRING) BY <1>1, FewElements
<1>3. plain \in Seq(STRING) BY <1>1, OneElement
<1>4. /\ 2 \in DOMAIN bracket /\ bracket[2] = group_name
      /\ 1 \in DOMAIN plain /\ plain[1] = group_name
      /\ 2 \in DOMAIN dash /\ dash[2] = group_name
  OBVIOUS
<1>5. Contains(bracket, group_name) /\ Contains(plain, group_name) /\ Contains(dash, group_name)
  BY <1>4 DEF Contains
<1> QED BY <1>2, <1>3, <1>5 DEF Name

\* The stem a name is parsed by is that of its raw form, unless nothing is left of it.
LEMMA RawParts ==
  ASSUME NEW name \in Name
  PROVE  LET parts == split_basename(name)
             raw   == parse_release_metadata(name).raw
             base  == split_basename(raw)
             stem  == strip_sample_suffix(parts.stem)
         IN  /\ raw \in Name /\ base.stem \in Name /\ base.ext \in Name
             /\ parse_release_metadata(name).group = DetectedGroup(stem)
             /\ stem # <<>> => base.stem = stem /\ base.ext = parts.ext
<1> DEFINE parts == split_basename(name)
           raw   == parse_release_metadata(name).raw
           base  == split_basename(raw)
           stem  == strip_sample_suffix(parts.stem)
<1>1. /\ parts.stem \in Name /\ parts.ext \in Name /\ NoDot(parts.ext) /\ stem \in Name
  BY SplitType, StripType
<1>2. /\ parse_release_metadata(name).group = DetectedGroup(stem)
      /\ raw = IF is_sample(parts.stem) THEN stem \o <<".">> \o parts.ext ELSE name
  BY DEF parse_release_metadata
<1>3. CASE is_sample(parts.stem)
  <2> HIDE DEF parts, stem
  <2>1. raw \in Name
    <3>1. <<".">> \in Name BY Word DEF Separators
    <3>2. stem \o <<".">> \in Name BY <1>1, <3>1, Concat
    <3>3. stem \o <<".">> \o parts.ext \in Name BY <1>1, <3>2, Concat
    <3> QED BY <1>2, <1>3, <3>3
  <2>2. stem # <<>> => base.stem = stem /\ base.ext = parts.ext
    BY <1>1, <1>2, <1>3, SplitOfJoin
  <2> QED BY <1>2, <2>1, <2>2, SplitType DEF parts, stem
<1>4. CASE ~is_sample(parts.stem)
  <2>1. raw = name /\ stem = parts.stem BY <1>2, <1>4 DEF strip_sample_suffix
  <2> QED BY <1>1, <1>2, <2>1
<1> QED BY <1>3, <1>4

\* A swapped name has our group before its extension.
LEMMA Swapped ==
  ASSUME NEW name \in Name
  PROVE  \E stem \in Name :
           /\ Contains(stem, group_name)
           /\ apply_group_swap(name) =
                Basename(stem, split_basename(parse_release_metadata(name).raw).ext)
<1> DEFINE meta == parse_release_metadata(name)
           base == split_basename(meta.raw)
           stem == strip_sample_suffix(split_basename(name).stem)
           new == IF meta.group = {} THEN base.stem \o <<"-", group_name>>
                  ELSE Splice(base.stem, CHOOSE g \in meta.group : TRUE)
<1>1. /\ base.stem \in Name /\ meta.group = DetectedGroup(stem)
      /\ stem # <<>> => base.stem = stem
  BY RawParts
<1>2. stem \in Name BY SplitType, StripType
<1>3. apply_group_swap(name) = Basename(new, base.ext) BY DEF apply_group_swap
<1> HIDE DEF meta, base, stem
<1>4. CASE meta.group = {}
  <2>1. base.stem \o <<"-", group_name>> \in Name
    BY <1>1, OurGroup, Concat
  <2>2. Contains(base.stem \o <<"-", group_name>>, group_name)
    BY <1>1, OurGroup, ContainsConcat
  <2> QED BY <1>3, <1>4, <2>1, <2>2 DEF base, meta
<1>5. CASE meta.group # {}
  <2> DEFINE g == CHOOSE g \in meta.group : TRUE
             ours == IF g.style = "leading_bracket" THEN <<"[", group_name, "]">> ELSE <<group_name>>
             before == SubSeq(base.stem, 1, g.first - 1)
             after == SubSeq(base.stem, g.last + 1, Len(base.stem))
  <2>1. g \in DetectedGroup(stem) BY <1>1, <1>5
  <2>2. g.first \in 1..Len(stem) /\ g.last \in 1..Len(stem) BY <1>2, <2>1, GroupInStem
  <2>3. Len(stem) \in Nat /\ stem # <<>>
    <3>1. Len(stem) \in Nat BY <1>2, LenName
    <3> QED BY <2>2, <3>1, EmptySeq
  <2>4. base.stem = stem BY <1>1, <2>3
  <2>5. ours \in Name /\ Contains(ours, group_name) BY OurGroup
  <2>6. Splice(base.stem, g) = before \o ours \o after BY DEF Splice
  <2> HIDE DEF g, ours
  <2>7. before \in Name /\ after \in Name BY <1>2, <2>2, <2>3, <2>4, PartOfName
  <2> HIDE DEF before, after
  <2>8. before \o ours \in Name /\ Contains(before \o ours, group_name)
    BY <2>5, <2>7, Concat, ContainsConcat
  <2>9. before \o ours \o after \in Name /\ Contains(before \o ours \o after, group_name)
    BY <2>7, <2>8, Concat, ContainsConcat
  <2>10. new = before \o ours \o after BY <1>5, <2>6 DEF g
  <2> HIDE DEF new
  <2> QED BY <1>3, <2>9, <2>10 DEF base, meta
<1> QED BY <1>4, <1>5

\* A new name carries our group, so that it is not swapped again.
LEMMA RenameTwice ==
  ASSUME NEW name \in Name
  PROVE  /\ rename_file(name) \in Name
         /\ rename_file(rename_file(name)) = rename_file(name)
<1>1. CASE Contains(name, group_name) BY <1>1 DEF rename_file
<1>2. CASE ~Contains(name, group_name)
  <2> DEFINE ext == split_basename(parse_release_metadata(name).raw).ext
  <2>1. PICK stem \in Name :
          Contains(stem, group_name) /\ apply_group_swap(name) = Basename(stem, ext)
    BY Swapped
  <2>2. ext \in Name BY RawParts
  <2> HIDE DEF ext
  <2>3. Basename(stem, ext) \in Name BY <2>1, <2>2, BasenameType
  <2>4. Contains(Basename(stem, ext), group_name)
    <3>1. <<".">> \in Name BY Word DEF Separators
    <3>2. stem \o <<".">> \in Name /\ Contains(stem \o <<".">>, group_name)
      BY <2>1, <3>1, Concat, ContainsConcat
    <3>3. Contains(stem \o <<".">> \o ext, group_name) BY <2>2, <3>2, ContainsConcat
    <3> QED BY <2>1, <3>3 DEF Basename
  <2>5. rename_file(name) = Basename(stem, ext) BY <1>2, <2>1 DEF rename_file
  <2> QED BY <2>3, <2>4, <2>5 DEF rename_file
<1> QED BY <1>1, <1>2

LEMMA RenameKeepsExtension ==
  ASSUME NEW f, f.name \in Name, KeepsExtension(f)
  PROVE  /\ split_basename(rename_file(f.name)).ext = split_basename(f.name).ext
         /\ split_basename(rename_file(f.name)).stem \in Name \ {<<>>}
<1> DEFINE name == f.name
           parts == split_basename(name)
           base == split_basename(parse_release_metadata(name).raw)
<1>1. /\ parts.ext # <<>> /\ parts.ext \in Name /\ NoDot(parts.ext)
      /\ parts.stem # <<>> /\ parts.stem \in Name
  BY SplitType DEF KeepsExtension
<1>2. CASE Contains(name, group_name)
  <2>1. rename_file(name) = name BY <1>2 DEF rename_file
  <2> QED BY <1>1, <2>1
<1>3. CASE ~Contains(name, group_name)
  <2>1. base.ext = parts.ext BY RawParts DEF KeepsExtension
  <2>2. PICK stem \in Name :
          Contains(stem, group_name) /\ apply_group_swap(name) = Basename(stem, base.ext)
    BY Swapped
  <2>3. stem # <<>>
    <3>1. DOMAIN stem # {} BY <2>2 DEF Contains
    <3> QED BY <3>1
  <2>4. rename_file(name) = Basename(stem, parts.ext) BY <1>3, <2>1, <2>2 DEF rename_file
  <2> HIDE DEF parts
  <2>5. /\ split_basename(Basename(stem, parts.ext)).stem = stem
        /\ split_basename(Basename(stem, parts.ext)).ext = parts.ext
    BY <1>1, <2>3, SplitOfBasename
  <2> QED BY <2>3, <2>4, <2>5 DEF parts
<1> QED BY <1>2, <1>3
-----------------------------------------------------------------------------
(* New paths.                                                              *)

\* The files that take the name of the primary video, and those that keep theirs.
Follows(f, q) == ~is_video_file(f.name) /\ AtRoot(f) /\ q # NoFile

LEMMA NewPath ==
  ASSUME NEW f \in Paths, NEW q \in Paths \cup {NoFile}
  PROVE  /\ new_path(f, q) \in Paths
         /\ new_path(f, q).dir = f.dir
         /\ Follows(f, q) => new_path(f, q).name =
              Basename(split_basename(rename_file(q.name)).stem, split_basename(f.name).ext)
         /\ ~Follows(f, q) => new_path(f, q).name = rename_file(f.name)
<1> DEFINE name == IF Follows(f, q)
                   THEN Basename(split_basename(rename_file(q.name)).stem, split_basename(f.name).ext)
                   ELSE rename_file(f.name)
<1>1. f.name \in Name /\ f.dir \in {"root", "sub"} /\ f = [dir |-> f.dir, name |-> f.name]
  BY DEF Paths, Name
<1>2. new_path(f, q) = [f EXCEPT !.name = name]
  BY DEF new_path, Follows, rename_non_video_to_match
<1>3. name \in Name
  <2>1. CASE Follows(f, q)
    <3>1. q.name \in Name BY <2>1 DEF Follows, Paths, Name
    <3>2. split_basename(rename_file(q.name)).stem \in Name BY <3>1, RenameTwice, SplitType
    <3>3. split_basename(f.name).ext \in Name BY <1>1, SplitType
    <3> QED BY <2>1, <3>2, <3>3, BasenameType
  <2>2. CASE ~Follows(f, q) BY <1>1, <2>2, RenameTwice
  <2> QED BY <2>1, <2>2
<1> HIDE DEF name
<1>4. new_path(f, q) = [dir |-> f.dir, name |-> name] BY <1>1, <1>2
<1>5. new_path(f, q).dir = f.dir /\ new_path(f, q).name = name /\ new_path(f, q) \in Paths
  BY <1>1, <1>3, <1>4 DEF Paths, Name
<1> QED BY <1>5 DEF name

\* What is a primary video: a video at the root, which exists in the tree.
LEMMA Primary ==
  ASSUME NEW paths, NEW q \in primary_video(paths)
  PROVE  \/ q \in paths /\ AtRoot(q) /\ is_video_file(q.name)
         \/ q = NoFile /\ \A p \in paths : ~(AtRoot(p) /\ is_video_file(p.name))
BY DEF primary_video

\* Under proper names a new path has the extension of the old one.
LEMMA ExtensionKept ==
  ASSUME NEW f \in Paths, KeepsExtension(f),
         NEW q \in Paths \cup {NoFile}, q # NoFile => KeepsExtension(q)
  PROVE  split_basename(new_path(f, q).name).ext = split_basename(f.name).ext
<1>1. f.name \in Name BY DEF Paths, Name
<1>2. CASE Follows(f, q)
  <2>1. q \in Paths /\ q.name \in Name /\ KeepsExtension(q) BY <1>2 DEF Follows, Paths, Name
  <2> DEFINE stem == split_basename(rename_file(q.name)).stem
             ext == split_basename(f.name).ext
  <2>2. stem \in Name \ {<<>>} BY <2>1, RenameKeepsExtension
  <2>3. ext \in Name /\ ext # <<>> /\ NoDot(ext) BY <1>1, SplitType DEF KeepsExtension
  <2>4. new_path(f, q).name = Basename(stem, ext) BY <1>2, NewPath
  <2> HIDE DEF stem, ext
  <2>5. split_basename(Basename(stem, ext)).ext = ext BY <2>2, <2>3, SplitOfBasename
  <2> QED BY <2>4, <2>5 DEF ext
<1>3. CASE ~Follows(f, q) BY <1>1, <1>3, NewPath, RenameKeepsExtension
<1> QED BY <1>2, <1>3
-----------------------------------------------------------------------------
(* Titles.                                                                 *)

LEMMA Least ==
  ASSUME NEW S \in SUBSET Nat, S # {}
  PROVE  Min(S) \in S /\ \A n \in S : Min(S) <= n
<1> DEFINE R == OpToRel(<, Nat)
<1>1. PICK m \in S : \A n \in S : ~ (<<n, m>> \in R)
  BY NatLessThanWellFounded, WFMin
<1>2. \A n \in S : ~ (n < m) BY <1>1 DEF OpToRel
<1>3. \A n \in S : m <= n BY <1>2
<1> HIDE DEF R
<1> QED BY <1>3 DEF Min

Gap(s, i) == i \notin DOMAIN s \/ s[i] \in {".", "_", "-", " "}

Starts(s) == {i \in DOMAIN s : ~Gap(s, i) /\ Gap(s, i - 1)}

Ends(s, i) == {j \in i..Len(s) : Gap(s, j + 1)}

\* A separator at the end of a name changes no token.
LEMMA SeparatorBehind ==
  ASSUME NEW s \in Name PROVE Runs(s \o <<"-">>) = Runs(s)
<1> DEFINE t == s \o <<"-">>
           n == Len(s)
<1>1. n \in Nat /\ DOMAIN s = 1..n BY LenName
<1>2. /\ t \in Name /\ Len(t) = n + 1 /\ DOMAIN t = 1..n + 1
      /\ \A i \in 1..n : t[i] = s[i]
      /\ t[n + 1] = "-"
  <2> DEFINE dash == <<"-">>
  <2>1. dash \in Name /\ Len(dash) = 1 /\ dash[1] = "-" BY Word DEF Separators
  <2> HIDE DEF dash
  <2>2. /\ s \o dash \in Name /\ Len(s \o dash) = n + Len(dash)
        /\ \A i \in 1..n + Len(dash) : (s \o dash)[i] = IF i <= n THEN s[i] ELSE dash[i - n]
    BY <2>1, Concat
  <2>3. \A i \in 1..n : i \in 1..n + 1 /\ i <= n BY <1>1
  <2>4. n + 1 \in 1..n + 1 /\ ~(n + 1 <= n) /\ (n + 1) - n = 1 BY <1>1
  <2>5. (s \o dash)[n + 1] = dash[(n + 1) - n] BY <2>1, <2>2, <2>4
  <2>6. \A i \in 1..n : (s \o dash)[i] = s[i] BY <2>1, <2>2, <2>3
  <2> QED BY <2>1, <2>2, <2>4, <2>5, <2>6, LenName DEF dash
<1> HIDE DEF t, n
<1>3. ASSUME NEW i \in Int PROVE Gap(t, i) <=> Gap(s, i)
  <2>1. CASE i \in 1..n
    <3>1. i \in DOMAIN s /\ i \in DOMAIN t /\ t[i] = s[i] BY <1>1, <1>2, <2>1
    <3> QED BY <3>1 DEF Gap
  <2>2. CASE i = n + 1 BY <1>1, <1>2, <2>2 DEF Gap
  <2>3. CASE i \notin 1..n + 1
    <3>1. i \notin DOMAIN s /\ i \notin DOMAIN t BY <1>1, <1>2, <2>3
    <3> QED BY <3>1 DEF Gap
  <2> QED BY <1>1, <2>1, <2>2, <2>3
<1>4. Starts(t) = Starts(s)
  <2>1. \A i \in 1..n : i - 1 \in Int /\ i \in Int BY <1>1
  <2>2. Gap(t, n + 1) BY <1>2 DEF Gap
  <2> QED BY <1>1, <1>2, <1>3, <2>1, <2>2 DEF Starts
<1>5. ASSUME NEW i \in Starts(s)
      PROVE  SubSeq(t, i, Min(Ends(t, i))) = SubSeq(s, i, Min(Ends(s, i)))
  <2>1. i \in 1..n BY <1>1 DEF Starts
  <2>2. n \in Ends(s, i) /\ Ends(s, i) \subseteq 1..n
    <3>1. n \in i..n /\ i..n \subseteq 1..n /\ n + 1 \notin 1..n BY <1>1, <2>1
    <3>2. Gap(s, n + 1) BY <1>1, <3>1 DEF Gap
    <3> QED BY <3>1, <3>2 DEF Ends, n
  <2>3. Ends(t, i) = Ends(s, i) \cup {n + 1}
    <3>1. Gap(t, n + 2) BY <1>1, <1>2 DEF Gap
    <3>2. i..Len(t) = i..n \cup {n + 1} BY <1>1, <1>2, <2>1
    <3>3. \A j \in i..n : Gap(t, j + 1) <=> Gap(s, j + 1) BY <1>1, <1>3, <2>1
    <3>4. (n + 1) + 1 = n + 2 BY <1>1
    <3> QED BY <3>1, <3>2, <3>3, <3>4 DEF Ends, n
  <2>4. Ends(s, i) \in SUBSET Nat /\ Ends(t, i) \in SUBSET Nat BY <1>1, <2>2, <2>3
  <2> DEFINE e == Min(Ends(s, i))
             d == Min(Ends(t, i))
  <2>5. e \in Ends(s, i) /\ \A j \in Ends(s, i) : e <= j BY <2>2, <2>4, Least
  <2>6. d \in Ends(t, i) /\ \A j \in Ends(t, i) : d <= j BY <2>2, <2>3, <2>4, Least
  <2> HIDE DEF e, d
  <2>7. e \in 1..n /\ d \in Nat /\ e <= n BY <1>1, <2>2, <2>4, <2>5, <2>6
  <2>8. d = e BY <1>1, <2>2, <2>3, <2>5, <2>6, <2>7
  <2>9. SubSeq(t, i, e) = SubSeq(s, i, e)
    <3>1. <<"-">> \in Seq(STRING) BY Word DEF Separators, Name
    <3> QED BY <2>1, <2>7, <3>1, SubSeqOfConcat1 DEF t, n, Name
  <2> QED BY <2>8, <2>9 DEF d, e
<1>6. Runs(s) = {[at |-> i, token |-> SubSeq(s, i, Min(Ends(s, i)))] : i \in Starts(s)}
  BY DEF Runs, Starts, Ends, Gap
<1>7. Runs(t) = {[at |-> i, token |-> SubSeq(t, i, Min(Ends(t, i)))] : i \in Starts(t)}
  BY DEF Runs, Starts, Ends, Gap
<1> QED BY <1>4, <1>5, <1>6, <1>7 DEF t

LEMMA SameRuns ==
  ASSUME NEW s, NEW t, Runs(s) = Runs(t) PROVE clean_local_title(s) = clean_local_title(t)
<1>1. Tokens(s) = Tokens(t) BY DEF Tokens
<1> QED BY <1>1 DEF clean_local_title

\* What is left of a stem without its group.
Without(stem) ==
  IF DetectedGroup(stem) = {} THEN stem
  ELSE LET g == CHOOSE g \in DetectedGroup(stem) : TRUE IN Cut(stem, g.first, g.last)

\* The bracket that opens s closes at c.
Closes(s, c) ==
  /\ c \in 3..(Len(s) - 1)
  /\ s[1] = "[" /\ s[c] = "]"
  /\ \A i \in 1..(c - 1) : s[i] # "]"
  /\ s[c + 1] \in {"_", " ", "."}
  /\ ~Rejected(SubSeq(s, 2, c - 1))

\* What follows i is a group.
Trails(s, i) ==
  /\ i \in 1..(Len(s) - 1)
  /\ s[i] \in {".", "-"}
  /\ \A j \in (i + 1)..Len(s) : s[j] \notin {".", "-", " ", "[", "]"}
  /\ ~Rejected(SubSeq(s, i + 1, Len(s)))

LEMMA Brackets ==
  ASSUME NEW s
  PROVE  detect_leading_bracket(s) =
           {[style |-> "leading_bracket", first |-> 1, last |-> c] : c \in {c \in Int : Closes(s, c)}}
BY DEF detect_leading_bracket, Closes

LEMMA Trailers ==
  ASSUME NEW s
  PROVE  detect_trailing(s) =
           {[style |-> "trailing", first |-> i + 1, last |-> Len(s)] : i \in {i \in Int : Trails(s, i)}}
BY DEF detect_trailing, Trails

\* A group the parser accepts is a word, and not `sample`.
LEMMA OurWord ==
  ASSUME ~Rejected(<<group_name>>) PROVE group_name \notin Separators /\ group_name # "sample"
<1>1. ~is_false_positive_group(<<group_name>>) BY DEF Rejected
<1>2. DOMAIN <<group_name>> = {1} /\ <<group_name>>[1] = group_name OBVIOUS
<1>3. group_name \notin Separators BY <1>1, <1>2 DEF is_false_positive_group
<1>4. group_name \notin FALSE_POSITIVE_GROUPS BY <1>1, <1>2, <1>3 DEF is_false_positive_group
<1> QED BY <1>3, <1>4 DEF FALSE_POSITIVE_GROUPS

LEMMA SampleEnd ==
  ASSUME NEW s \in Name, is_sample(s)
  PROVE  Len(s) > 1 /\ s[Len(s) - 1] = "." /\ s[Len(s)] = "sample"
<1> DEFINE e == SubSeq(s, Len(s) - 1, Len(s))
<1>1. Len(s) \in Nat /\ Len(s) > 1 /\ e = <<".", "sample">> BY LenName DEF is_sample
<1>2. e[1] = "." /\ e[2] = "sample"
  <2>1. <<".", "sample">>[1] = "." /\ <<".", "sample">>[2] = "sample" OBVIOUS
  <2> HIDE DEF e
  <2> QED BY <1>1, <2>1
<1>3. \A i \in 1..2 : e[i] = s[Len(s) - 1 + i - 1]
  <2>1. \A i \in 1..Len(s) - (Len(s) - 1) + 1 : e[i] = s[(Len(s) - 1) + i - 1]
    BY <1>1, PartOfName
  <2> QED BY <1>1, <2>1
<1>4. e[1] = s[Len(s) - 1] /\ e[2] = s[Len(s)] BY <1>1, <1>3
<1> QED BY <1>1, <1>2, <1>4

LEMMA EmptyPart ==
  ASSUME NEW s \in Name, NEW m \in Nat, NEW n \in Int, n < m PROVE SubSeq(s, m, n) = <<>>
BY SubSeqEmpty

LEMMA LastWord ==
  ASSUME NEW s \in Name, NEW w \in STRING, Len(s) > 0, s[Len(s)] = w
  PROVE  SubSeq(s, Len(s), Len(s)) = <<w>>
<1>1. Len(s) \in Nat BY LenName
<1>2. <<w>> \in Seq(STRING) /\ Len(<<w>>) = 1 /\ <<w>>[1] = w BY OneElement
<1>3. /\ SubSeq(s, Len(s), Len(s)) \in Name /\ Len(SubSeq(s, Len(s), Len(s))) = 1
      /\ \A i \in 1..1 : SubSeq(s, Len(s), Len(s))[i] = s[Len(s) + i - 1]
  <2>1. /\ SubSeq(s, Len(s), Len(s)) \in Name
        /\ Len(SubSeq(s, Len(s), Len(s))) = Len(s) - Len(s) + 1
        /\ \A i \in 1..Len(s) - Len(s) + 1 : SubSeq(s, Len(s), Len(s))[i] = s[Len(s) + i - 1]
    BY <1>1, PartOfName
  <2>2. Len(s) - Len(s) + 1 = 1 BY <1>1
  <2> QED BY <2>1, <2>2
<1>4. SubSeq(s, Len(s), Len(s))[1] = w
  <2>1. 1 \in 1..1 /\ Len(s) + 1 - 1 = Len(s) BY <1>1
  <2>2. SubSeq(s, Len(s), Len(s))[1] = s[Len(s) + 1 - 1] BY <1>3, <2>1
  <2> QED BY <2>1, <2>2
<1> DEFINE p == SubSeq(s, Len(s), Len(s))
           q == <<w>>
<1>5. p \in Seq(STRING) /\ q \in Seq(STRING) /\ Len(p) = 1 /\ Len(q) = 1 /\ p[1] = q[1]
  BY <1>2, <1>3, <1>4 DEF Name
<1> HIDE DEF p, q
<1>6. p = q BY <1>5, SeqEqual
<1> QED BY <1>6 DEF p, q

\* Our group behind a dot or a dash at the end of a stem is its group.
LEMMA OursTrails ==
  ASSUME NEW t \in Name, Len(t) > 1, t[Len(t) - 1] \in {".", "-"}, t[Len(t)] = group_name,
         ~Rejected(<<group_name>>), detect_leading_bracket(t) = {}
  PROVE  ~is_sample(t) /\ Without(t) = SubSeq(t, 1, Len(t) - 1)
<1> DEFINE n == Len(t)
           g == [style |-> "trailing", first |-> n, last |-> n]
<1>1. n \in Nat /\ n > 1 BY LenName
<1>2. group_name \notin Separators /\ group_name # "sample" /\ group_name \in STRING
  BY OurWord, RenameAssumption
<1>3. ~is_sample(t) BY <1>2, SampleEnd
<1>4. Trails(t, n - 1)
  <2>1. SubSeq(t, n, n) = <<group_name>> BY <1>1, <1>2, LastWord
  <2>2. (n - 1) + 1 = n /\ n - 1 \in 1..(n - 1) /\ n..n = {n} BY <1>1
  <2> QED BY <1>2, <2>1, <2>2 DEF Trails, Separators
<1>5. \A i \in Int : Trails(t, i) => i = n - 1
  <2> SUFFICES ASSUME NEW i \in 1..(n - 1), Trails(t, i), i # n - 1 PROVE FALSE BY DEF Trails
  <2>1. n - 1 \in (i + 1)..n BY <1>1
  <2> QED BY <2>1 DEF Trails
<1>6. detect_trailing(t) = {g}
  <2>1. {i \in Int : Trails(t, i)} = {n - 1} BY <1>1, <1>4, <1>5
  <2>2. (n - 1) + 1 = n BY <1>1
  <2> QED BY <2>1, <2>2, Trailers
<1>7. DetectedGroup(t) = {g} BY <1>6 DEF DetectedGroup
<1>8. Without(t) = SubSeq(t, 1, n - 1) \o SubSeq(t, n + 1, n)
  <2>1. (CHOOSE x \in {g} : TRUE) = g OBVIOUS
  <2>2. g.first = n /\ g.last = n OBVIOUS
  <2> HIDE DEF g
  <2> QED BY <1>7, <2>1, <2>2 DEF Without, Cut
<1>9. SubSeq(t, n + 1, n) = <<>> BY <1>1, EmptyPart
<1>10. SubSeq(t, 1, n - 1) \in Seq(STRING) BY <1>1, PartOfName DEF Name
<1>11. SubSeq(t, 1, n - 1) \o <<>> = SubSeq(t, 1, n - 1) BY <1>10, ConcatEmptySeq
<1> QED BY <1>3, <1>8, <1>9, <1>11

\* A bracket that closes in the part two stems have in common is found in both.
LEMMA BracketBefore ==
  ASSUME NEW s \in Name, NEW t \in Name, NEW m \in Nat, m <= Len(s), m <= Len(t),
         \A i \in 1..m : s[i] = t[i],
         NEW c \in Int, Closes(t, c), c < m
  PROVE  detect_leading_bracket(s) # {}
<1>1. Len(s) \in Nat /\ Len(t) \in Nat BY LenName
<1>2. c \in 3..(Len(s) - 1) /\ c + 1 \in 1..m /\ c \in 1..m /\ 1 \in 1..m
  <2>1. c \in 3..(Len(t) - 1) BY DEF Closes
  <2> QED BY <1>1, <2>1
<1>3. SubSeq(s, 2, c - 1) = SubSeq(t, 2, c - 1)
  <2> DEFINE p == SubSeq(s, 2, c - 1)
             q == SubSeq(t, 2, c - 1)
  <2>1. c - 1 \in Int /\ c - 1 <= Len(s) /\ c - 1 <= Len(t) /\ 2 <= c - 1 BY <1>1, <1>2
  <2>2. /\ p \in Name /\ Len(p) = (c - 1) - 2 + 1
        /\ \A i \in 1..(c - 1) - 2 + 1 : p[i] = s[2 + i - 1]
    BY <2>1, PartOfName
  <2>3. /\ q \in Name /\ Len(q) = (c - 1) - 2 + 1
        /\ \A i \in 1..(c - 1) - 2 + 1 : q[i] = t[2 + i - 1]
    BY <2>1, PartOfName
  <2>4. \A i \in 1..(c - 1) - 2 + 1 : 2 + i - 1 \in 1..m BY <1>2
  <2> HIDE DEF p, q
  <2>5. \A i \in 1..Len(p) : p[i] = q[i] BY <2>2, <2>3, <2>4
  <2>6. p = q BY <2>2, <2>3, <2>5, SeqEqual DEF Name
  <2> QED BY <2>6 DEF p, q
<1>4. \A i \in 1..(c - 1) : i \in 1..m BY <1>2
<1>5. s[1] = t[1] /\ s[c] = t[c] /\ s[c + 1] = t[c + 1] BY <1>2
<1>6. \A i \in 1..(c - 1) : s[i] # "]" BY <1>4 DEF Closes
<1>7. Closes(s, c) BY <1>2, <1>3, <1>5, <1>6 DEF Closes
<1> QED BY <1>7, Brackets

\* The stem that apply_group_swap gives a name.
NewStem(stem) ==
  IF DetectedGroup(stem) = {} THEN stem \o <<"-", group_name>>
  ELSE Splice(stem, CHOOSE g \in DetectedGroup(stem) : TRUE)

\* Our group is found again under the new name, where the other one was or behind the stem,
\* and without it the same words are left.
Found(stem) ==
  /\ NewStem(stem) \in Name /\ NewStem(stem) # <<>> /\ ~is_sample(NewStem(stem))
  /\ clean_local_title(Without(NewStem(stem))) = clean_local_title(Without(stem))

LEMMA FoundBehind ==
  ASSUME NEW s \in Name, DetectedGroup(s) = {}, s # <<>>, ~Rejected(<<group_name>>)
  PROVE  Found(s)
<1> DEFINE ours == <<"-", group_name>>
           t == s \o ours
           n == Len(s)
<1>1. n \in Nat /\ n >= 1 BY LenName, EmptySeq DEF Name
<1>2. ours \in Name /\ Len(ours) = 2 /\ ours[1] = "-" /\ ours[2] = group_name
  BY OurGroup
<1> HIDE DEF ours
<1>3. /\ t \in Name /\ Len(t) = n + 2
      /\ \A i \in 1..n + 2 : t[i] = IF i <= n THEN s[i] ELSE ours[i - n]
  <2>1. /\ t \in Name /\ Len(t) = n + Len(ours)
        /\ \A i \in 1..n + Len(ours) : t[i] = IF i <= n THEN s[i] ELSE ours[i - n]
    BY <1>2, Concat
  <2> HIDE DEF t
  <2> QED BY <1>2, <2>1
<1> HIDE DEF t
<1>4. t[n + 1] = "-" /\ t[n + 2] = group_name
  <2>1. n + 1 \in 1..n + 2 /\ ~(n + 1 <= n) /\ (n + 1) - n = 1 BY <1>1
  <2>2. n + 2 \in 1..n + 2 /\ ~(n + 2 <= n) /\ (n + 2) - n = 2 BY <1>1
  <2>3. t[n + 1] = ours[(n + 1) - n] BY <1>3, <2>1
  <2>4. t[n + 2] = ours[(n + 2) - n] BY <1>3, <2>2
  <2> QED BY <1>2, <2>1, <2>2, <2>3, <2>4
<1>5. \A i \in 1..n : s[i] = t[i] BY <1>1, <1>3
<1>6. detect_leading_bracket(t) = {}
  <2> SUFFICES ASSUME NEW c \in Int, Closes(t, c) PROVE FALSE BY Brackets
  <2>1. detect_leading_bracket(s) = {} BY DEF DetectedGroup
  <2>2. ~(c < n)
    <3>1. n <= Len(s) /\ n <= Len(t) BY <1>1, <1>3
    <3> QED BY <1>1, <1>3, <1>5, <2>1, <3>1, BracketBefore DEF n
  <2>3. c = n \/ c = n + 1
    <3>1. c \in 3..(Len(t) - 1) BY DEF Closes
    <3> QED BY <1>1, <1>3, <2>2, <3>1
  <2> QED BY <1>4, <2>3 DEF Closes
<1>7. ~is_sample(t) /\ Without(t) = SubSeq(t, 1, n + 1)
  <2>1. Len(t) - 1 = n + 1 /\ Len(t) > 1 BY <1>1, <1>3
  <2>2. t[Len(t) - 1] \in {".", "-"} /\ t[Len(t)] = group_name BY <1>3, <1>4, <2>1
  <2> QED BY <1>3, <1>6, <2>1, <2>2, OursTrails
<1>8. SubSeq(t, 1, n + 1) = s \o <<"-">>
  <2> DEFINE dash == <<"-">>
             p == SubSeq(t, 1, n + 1)
             q == s \o dash
  <2>1. dash \in Name /\ Len(dash) = 1 /\ dash[1] = "-" BY Word DEF Separators
  <2> HIDE DEF dash
  <2>2. /\ q \in Name /\ Len(q) = n + Len(dash)
        /\ \A i \in 1..n + Len(dash) : q[i] = IF i <= n THEN s[i] ELSE dash[i - n]
    BY <2>1, Concat
  <2>3. /\ p \in Name /\ Len(p) = n + 1
        /\ \A i \in 1..(n + 1) - 1 + 1 : p[i] = t[1 + i - 1]
    BY <1>1, <1>3, PartOfName
  <2> HIDE DEF p, q
  <2>4. ASSUME NEW i \in 1..n + 1 PROVE p[i] = q[i]
    <3>1. i \in 1..(n + 1) - 1 + 1 /\ 1 + i - 1 = i /\ i \in 1..n + Len(dash) BY <1>1, <2>1
    <3>2. p[i] = t[i] BY <2>3, <3>1
    <3>3. CASE i <= n
      <4>1. i \in 1..n BY <3>3
      <4> QED BY <1>5, <2>2, <3>1, <3>2, <3>3, <4>1
    <3>4. CASE ~(i <= n)
      <4>1. i = n + 1 /\ i - n = 1 BY <1>1, <3>4
      <4>2. q[i] = dash[i - n] BY <2>2, <3>1, <3>4
      <4> QED BY <1>4, <2>1, <3>2, <4>1, <4>2
    <3> QED BY <3>3, <3>4
  <2>5. p = q
    <3>1. Len(p) = Len(q) BY <2>1, <2>2, <2>3
    <3> QED BY <2>2, <2>3, <2>4, <3>1, SeqEqual DEF Name
  <2> QED BY <2>5 DEF p, q, dash
<1>9. Without(s) = s /\ NewStem(s) = t BY DEF Without, NewStem, t, ours
<1>10. clean_local_title(Without(t)) = clean_local_title(s)
  BY <1>7, <1>8, SeparatorBehind, SameRuns
<1>11. t # <<>>
  <2>1. Len(t) > 0 BY <1>1, <1>3
  <2> QED BY <2>1, EmptySeq
<1> QED BY <1>3, <1>7, <1>9, <1>10, <1>11 DEF Found

LEMMA FoundTrailing ==
  ASSUME NEW s \in Name, NEW i \in Int, Trails(s, i), detect_leading_bracket(s) = {},
         ~Rejected(<<group_name>>),
         (CHOOSE g \in DetectedGroup(s) : TRUE) =
           [style |-> "trailing", first |-> i + 1, last |-> Len(s)],
         DetectedGroup(s) # {}
  PROVE  Found(s)
<1> DEFINE n == Len(s)
           g == CHOOSE g \in DetectedGroup(s) : TRUE
           ours == <<group_name>>
           before == SubSeq(s, 1, i)
           t == before \o ours
<1>1. n \in Nat /\ i \in 1..(n - 1) /\ s[i] \in {".", "-"} BY LenName DEF Trails
<1>2. /\ g.style # "leading_bracket" /\ g.first = i + 1 /\ g.last = n
      /\ (i + 1) - 1 = i
  <2>1. g = [style |-> "trailing", first |-> i + 1, last |-> n] OBVIOUS
  <2> HIDE DEF g
  <2> QED BY <1>1, <2>1
<1> HIDE DEF g
<1>3. before \in Name /\ Len(before) = i /\ \A j \in 1..i : before[j] = s[j]
  <2>1. /\ before \in Name /\ Len(before) = i - 1 + 1
        /\ \A j \in 1..i - 1 + 1 : before[j] = s[1 + j - 1]
    BY <1>1, PartOfName
  <2>2. i - 1 + 1 = i /\ \A j \in 1..i : 1 + j - 1 = j BY <1>1
  <2> QED BY <2>1, <2>2
<1>4. ours \in Name /\ Len(ours) = 1 /\ ours[1] = group_name BY Word
<1>5. SubSeq(s, n + 1, n) = <<>> BY <1>1, EmptyPart
<1>6. Without(s) = before
  <2>1. Without(s) = Cut(s, g.first, g.last) BY DEF Without, g
  <2>2. Without(s) = before \o SubSeq(s, n + 1, n) BY <1>2, <2>1 DEF Cut
  <2>3. before \in Seq(STRING) BY <1>3 DEF Name
  <2> HIDE DEF before
  <2>4. before \o <<>> = before BY <2>3, ConcatEmptySeq
  <2> QED BY <1>5, <2>2, <2>4
<1>7. NewStem(s) = t
  <2>1. NewStem(s) = Splice(s, g) BY DEF NewStem, g
  <2>2. NewStem(s) = before \o ours \o SubSeq(s, n + 1, n) BY <1>2, <2>1 DEF Splice
  <2> HIDE DEF before, ours
  <2>3. before \o ours \in Seq(STRING) BY <1>3, <1>4, Concat DEF Name
  <2>4. (before \o ours) \o <<>> = before \o ours BY <2>3, ConcatEmptySeq
  <2> QED BY <1>5, <2>2, <2>4
<1> HIDE DEF before, ours
<1>8. /\ t \in Name /\ Len(t) = i + 1
      /\ \A j \in 1..i + 1 : t[j] = IF j <= i THEN before[j] ELSE ours[j - i]
  <2>1. /\ t \in Name /\ Len(t) = Len(before) + Len(ours)
        /\ \A j \in 1..Len(before) + Len(ours) :
             t[j] = IF j <= Len(before) THEN before[j] ELSE ours[j - Len(before)]
    BY <1>3, <1>4, Concat
  <2> HIDE DEF t
  <2> QED BY <1>3, <1>4, <2>1
<1> HIDE DEF t
<1>9. \A j \in 1..i : s[j] = t[j] BY <1>1, <1>3, <1>8
<1>10. t[i + 1] = group_name
  <2>1. i + 1 \in 1..i + 1 /\ ~(i + 1 <= i) /\ (i + 1) - i = 1 BY <1>1
  <2>2. t[i + 1] = ours[(i + 1) - i] BY <1>8, <2>1
  <2> QED BY <1>4, <2>1, <2>2
<1>11. t[i] \in {".", "-"} BY <1>1, <1>9
<1>12. detect_leading_bracket(t) = {}
  <2> SUFFICES ASSUME NEW c \in Int, Closes(t, c) PROVE FALSE BY Brackets
  <2>1. ~(c < i)
    <3>1. i \in Nat /\ i <= Len(s) /\ i <= Len(t) BY <1>1, <1>8
    <3> QED BY <1>8, <1>9, <3>1, BracketBefore
  <2>2. c = i
    <3>1. c \in 3..(Len(t) - 1) BY DEF Closes
    <3> QED BY <1>1, <1>8, <2>1, <3>1
  <2> QED BY <1>11, <2>2 DEF Closes
<1>13. ~is_sample(t) /\ Without(t) = SubSeq(t, 1, i)
  <2>1. Len(t) - 1 = i /\ Len(t) > 1 BY <1>1, <1>8
  <2>2. t[Len(t) - 1] \in {".", "-"} /\ t[Len(t)] = group_name BY <1>8, <1>10, <1>11, <2>1
  <2> QED BY <1>8, <1>12, <2>1, <2>2, OursTrails
<1>14. SubSeq(t, 1, i) = before
  <2>1. /\ SubSeq(t, 1, i) \in Name /\ Len(SubSeq(t, 1, i)) = i - 1 + 1
        /\ \A j \in 1..i - 1 + 1 : SubSeq(t, 1, i)[j] = t[1 + j - 1]
    BY <1>1, <1>8, PartOfName
  <2>2. i - 1 + 1 = i /\ \A j \in 1..i : 1 + j - 1 = j BY <1>1
  <2>3. \A j \in 1..i : SubSeq(t, 1, i)[j] = before[j] BY <1>3, <1>9, <2>1, <2>2
  <2>4. Len(SubSeq(t, 1, i)) = Len(before) BY <1>3, <2>1, <2>2
  <2> QED BY <1>3, <2>1, <2>2, <2>3, <2>4, SeqEqual DEF Name
<1>15. t # <<>>
  <2>1. Len(t) > 0 BY <1>1, <1>8
  <2> QED BY <2>1, EmptySeq
<1> QED BY <1>6, <1>7, <1>8, <1>13, <1>14, <1>15 DEF Found

LEMMA FoundInBrackets ==
  ASSUME NEW s \in Name, NEW c \in Int, Closes(s, c), ~is_sample(s),
         ~Rejected(<<group_name>>),
         (CHOOSE g \in DetectedGroup(s) : TRUE) =
           [style |-> "leading_bracket", first |-> 1, last |-> c],
         DetectedGroup(s) # {}
  PROVE  Found(s)
<1> DEFINE n == Len(s)
           g == CHOOSE g \in DetectedGroup(s) : TRUE
           h == [style |-> "leading_bracket", first |-> 1, last |-> 3]
           ours == <<"[", group_name, "]">>
           rest == SubSeq(s, c + 1, n)
           t == ours \o rest
<1>1. n \in Nat /\ c \in 3..(n - 1) BY LenName DEF Closes
<1>2. s[c + 1] \in {"_", " ", "."} BY DEF Closes
<1>3. g.style = "leading_bracket" /\ g.first = 1 /\ g.last = c /\ 1 - 1 = 0
  <2>1. g = [style |-> "leading_bracket", first |-> 1, last |-> c] OBVIOUS
  <2> HIDE DEF g
  <2> QED BY <2>1
<1> HIDE DEF g
<1>4. group_name \notin Separators /\ group_name # "sample" /\ group_name \in STRING
  BY OurWord, RenameAssumption
<1>5. /\ ours \in Name /\ Len(ours) = 3
      /\ ours[1] = "[" /\ ours[2] = group_name /\ ours[3] = "]"
  BY OurGroup
<1>6. /\ rest \in Name /\ Len(rest) = n - c
      /\ \A j \in 1..n - c : rest[j] = s[c + j]
  <2>1. /\ rest \in Name
        /\ Len(rest) = IF c + 1 <= n THEN n - (c + 1) + 1 ELSE 0
        /\ \A j \in 1..n - (c + 1) + 1 : rest[j] = s[(c + 1) + j - 1]
    BY <1>1, PartOfName
  <2>2. c + 1 <= n /\ n - (c + 1) + 1 = n - c /\ \A j \in 1..n - c : (c + 1) + j - 1 = c + j
    BY <1>1
  <2> QED BY <2>1, <2>2
<1>7. SubSeq(s, 1, 0) = <<>> BY EmptyPart
<1>8. Without(s) = rest
  <2>1. Without(s) = Cut(s, g.first, g.last) BY DEF Without, g
  <2>2. Without(s) = SubSeq(s, 1, 0) \o rest BY <1>3, <2>1 DEF Cut
  <2>3. rest \in Seq(STRING) BY <1>6 DEF Name
  <2> HIDE DEF rest
  <2>4. <<>> \o rest = rest BY <2>3, ConcatEmptySeq
  <2> QED BY <1>7, <2>2, <2>4
<1>9. NewStem(s) = t
  <2>1. NewStem(s) = Splice(s, g) BY DEF NewStem, g
  <2>2. NewStem(s) = SubSeq(s, 1, 0) \o ours \o rest BY <1>3, <2>1 DEF Splice
  <2>3. ours \in Seq(STRING) BY <1>5 DEF Name
  <2> HIDE DEF ours, rest
  <2>4. <<>> \o ours = ours BY <2>3, ConcatEmptySeq
  <2> QED BY <1>7, <2>2, <2>4
<1> HIDE DEF ours, rest
<1>10. /\ t \in Name /\ Len(t) = 3 + (n - c)
       /\ \A j \in 1..3 + (n - c) : t[j] = IF j <= 3 THEN ours[j] ELSE rest[j - 3]
  <2>1. /\ t \in Name /\ Len(t) = Len(ours) + Len(rest)
        /\ \A j \in 1..Len(ours) + Len(rest) :
             t[j] = IF j <= Len(ours) THEN ours[j] ELSE rest[j - Len(ours)]
    BY <1>5, <1>6, Concat
  <2> HIDE DEF t
  <2> QED BY <1>5, <1>6, <2>1
<1> HIDE DEF t
<1>11. t[1] = "[" /\ t[2] = group_name /\ t[3] = "]"
  <2>1. 1 \in 1..3 + (n - c) /\ 2 \in 1..3 + (n - c) /\ 3 \in 1..3 + (n - c) BY <1>1
  <2>2. t[1] = ours[1] /\ t[2] = ours[2] /\ t[3] = ours[3] BY <1>10, <2>1
  <2> QED BY <1>5, <2>2
<1>12. \A j \in 1..n - c : t[3 + j] = s[c + j]
  <2> SUFFICES ASSUME NEW j \in 1..n - c PROVE t[3 + j] = s[c + j] OBVIOUS
  <2>1. 3 + j \in 1..3 + (n - c) /\ ~(3 + j <= 3) /\ (3 + j) - 3 = j BY <1>1
  <2>2. t[3 + j] = rest[(3 + j) - 3] BY <1>10, <2>1
  <2> QED BY <1>6, <2>1, <2>2
<1>13. Closes(t, 3)
  <2>1. SubSeq(t, 2, 2) = <<group_name>>
    <3> DEFINE p == SubSeq(t, 2, 2)
               q == <<group_name>>
    <3>1. /\ p \in Name /\ Len(p) = 2 - 2 + 1
          /\ \A j \in 1..2 - 2 + 1 : p[j] = t[2 + j - 1]
      BY <1>1, <1>10, PartOfName
    <3>2. 2 - 2 + 1 = 1 /\ 1 \in 1..1 /\ 2 + 1 - 1 = 2 OBVIOUS
    <3>3. p[1] = t[2 + 1 - 1] BY <3>1, <3>2
    <3>4. q \in Name /\ Len(q) = 1 /\ q[1] = group_name BY Word
    <3> HIDE DEF p, q
    <3>5. p[1] = q[1] BY <1>11, <3>2, <3>3, <3>4
    <3>6. p = q BY <3>1, <3>2, <3>4, <3>5, SeqEqual DEF Name
    <3> QED BY <3>6 DEF p, q
  <2>2. 3 \in 3..(Len(t) - 1) /\ 1 \in 1..n - c BY <1>1, <1>10
  <2>3. t[3 + 1] \in {"_", " ", "."} BY <1>2, <1>12, <2>2
  <2>4. \A j \in 1..(3 - 1) : t[j] # "]"
    <3>1. 1..(3 - 1) = {1, 2} OBVIOUS
    <3> QED BY <1>4, <1>11, <3>1 DEF Separators
  <2>5. ~Rejected(SubSeq(t, 2, 3 - 1))
    <3>1. 3 - 1 = 2 OBVIOUS
    <3> QED BY <2>1, <3>1
  <2> QED BY <1>11, <2>2, <2>3, <2>4, <2>5 DEF Closes
<1>14. \A d \in Int : Closes(t, d) => d = 3
  <2> SUFFICES ASSUME NEW d \in Int, Closes(t, d), d # 3 PROVE FALSE OBVIOUS
  <2>1. d \in 3..(Len(t) - 1) /\ (\A j \in 1..(d - 1) : t[j] # "]") BY DEF Closes
  <2>2. 3 \in 1..(d - 1) BY <2>1
  <2> QED BY <1>11, <2>1, <2>2
<1>15. DetectedGroup(t) = {h}
  <2>1. {d \in Int : Closes(t, d)} = {3} BY <1>13, <1>14
  <2>2. detect_leading_bracket(t) = {h} BY <2>1, Brackets
  <2> QED BY <2>2 DEF DetectedGroup
<1>16. Without(t) = SubSeq(t, 4, Len(t))
  <2>1. (CHOOSE x \in {h} : TRUE) = h OBVIOUS
  <2>2. h.first = 1 /\ h.last = 3 /\ 1 - 1 = 0 /\ 3 + 1 = 4 OBVIOUS
  <2> HIDE DEF h
  <2>3. Without(t) = SubSeq(t, 1, 0) \o SubSeq(t, 4, Len(t)) BY <1>15, <2>1, <2>2 DEF Without, Cut
  <2>4. SubSeq(t, 1, 0) = <<>> BY <1>10, EmptyPart
  <2>5. SubSeq(t, 4, Len(t)) \in Seq(STRING) BY <1>1, <1>10, PartOfName DEF Name
  <2>6. <<>> \o SubSeq(t, 4, Len(t)) = SubSeq(t, 4, Len(t)) BY <2>5, ConcatEmptySeq
  <2> QED BY <2>3, <2>4, <2>6
<1>17. SubSeq(t, 4, Len(t)) = rest
  <2> DEFINE p == SubSeq(t, 4, Len(t))
  <2>1. /\ p \in Name /\ Len(p) = Len(t) - 4 + 1
        /\ \A j \in 1..Len(t) - 4 + 1 : p[j] = t[4 + j - 1]
    BY <1>1, <1>10, PartOfName
  <2>2. Len(t) - 4 + 1 = n - c /\ \A j \in 1..n - c : 4 + j - 1 = 3 + j BY <1>1, <1>10
  <2> HIDE DEF p
  <2>3. \A j \in 1..n - c : p[j] = rest[j] BY <1>6, <1>12, <2>1, <2>2
  <2>4. p = rest BY <1>6, <2>1, <2>2, <2>3, SeqEqual DEF Name
  <2> QED BY <2>4 DEF p
<1>18. ~is_sample(t)
  <2> SUFFICES ASSUME is_sample(t) PROVE FALSE OBVIOUS
  <2>1. t[Len(t) - 1] = "." /\ t[Len(t)] = "sample" BY <1>10, SampleEnd
  <2>2. n - c # 1
    <3> SUFFICES ASSUME n - c = 1 PROVE FALSE OBVIOUS
    <3>1. Len(t) - 1 = 3 BY <1>10
    <3> QED BY <1>11, <2>1, <3>1
  <2>3. n - c > 1 BY <1>1, <2>2
  <2> DEFINE p == SubSeq(t, Len(t) - 1, Len(t))
             q == SubSeq(s, n - 1, n)
  <2>4. p = <<".", "sample">> BY DEF is_sample
  <2>5. /\ p \in Name /\ Len(p) = Len(t) - (Len(t) - 1) + 1
        /\ \A j \in 1..Len(t) - (Len(t) - 1) + 1 : p[j] = t[(Len(t) - 1) + j - 1]
    BY <1>1, <1>10, PartOfName
  <2>6. /\ q \in Name /\ Len(q) = n - (n - 1) + 1
        /\ \A j \in 1..n - (n - 1) + 1 : q[j] = s[(n - 1) + j - 1]
    BY <1>1, PartOfName
  <2> HIDE DEF p, q
  <2>7. Len(t) - (Len(t) - 1) + 1 = 2 /\ n - (n - 1) + 1 = 2 BY <1>1, <1>10
  <2>8. ASSUME NEW j \in 1..2 PROVE p[j] = q[j]
    <3>1. p[j] = t[(Len(t) - 1) + j - 1] /\ q[j] = s[(n - 1) + j - 1] BY <2>5, <2>6, <2>7
    <3>2. /\ (n - c) + j - 2 \in 1..n - c
          /\ (Len(t) - 1) + j - 1 = 3 + ((n - c) + j - 2)
          /\ (n - 1) + j - 1 = c + ((n - c) + j - 2)
      BY <1>1, <1>10, <2>3
    <3>3. t[3 + ((n - c) + j - 2)] = s[c + ((n - c) + j - 2)] BY <1>12, <3>2
    <3> QED BY <3>1, <3>2, <3>3
  <2>9. q = <<".", "sample">>
    <3>1. Len(p) = 2 /\ Len(q) = 2 BY <2>5, <2>6, <2>7
    <3>2. p = q BY <2>5, <2>6, <2>8, <3>1, SeqEqual DEF Name
    <3> QED BY <2>4, <3>2
  <2>10. n > 1 BY <1>1
  <2> QED BY <2>9, <2>10 DEF is_sample, q
<1>19. t # <<>>
  <2>1. Len(t) > 0 BY <1>1, <1>10
  <2> QED BY <2>1, EmptySeq
<1> QED BY <1>8, <1>9, <1>10, <1>16, <1>17, <1>18, <1>19 DEF Found

LEMMA FoundAgain ==
  ASSUME NEW s \in Name, s # <<>>, ~is_sample(s), ~Rejected(<<group_name>>),
         \A g \in DetectedGroup(s) : g.style # "leading_unbracketed"
  PROVE  Found(s)
<1>1. CASE DetectedGroup(s) = {} BY <1>1, FoundBehind
<1>2. CASE DetectedGroup(s) # {}
  <2> DEFINE g == CHOOSE g \in DetectedGroup(s) : TRUE
  <2>1. g \in DetectedGroup(s) BY <1>2
  <2>2. CASE detect_leading_bracket(s) # {}
    <3>1. g \in detect_leading_bracket(s) BY <2>1, <2>2 DEF DetectedGroup
    <3>2. PICK c \in Int :
            Closes(s, c) /\ g = [style |-> "leading_bracket", first |-> 1, last |-> c]
      BY <3>1, Brackets
    <3> QED BY <1>2, <3>2, FoundInBrackets
  <2>3. CASE detect_leading_bracket(s) = {} /\ detect_trailing(s) # {}
    <3>1. g \in detect_trailing(s) BY <2>1, <2>3 DEF DetectedGroup
    <3>2. PICK i \in Int :
            Trails(s, i) /\ g = [style |-> "trailing", first |-> i + 1, last |-> Len(s)]
      <4> HIDE DEF g
      <4>1. g \in {[style |-> "trailing", first |-> i + 1, last |-> Len(s)] :
                     i \in {i \in Int : Trails(s, i)}}
        BY <3>1, Trailers
      <4> QED BY <4>1, Zenon
    <3> QED BY <1>2, <2>3, <3>2, FoundTrailing
  <2>4. CASE detect_leading_bracket(s) = {} /\ detect_trailing(s) = {}
    <3>1. g \in detect_leading_unbracketed(s) BY <2>1, <2>4 DEF DetectedGroup
    <3> HIDE DEF g
    <3>2. g = [style |-> "leading_unbracketed", first |-> 1, last |-> 1]
      BY <3>1 DEF detect_leading_unbracketed
    <3>3. g.style = "leading_unbracketed" BY <3>2
    <3> QED BY <2>1, <3>3
  <2> QED BY <2>2, <2>3, <2>4
<1> QED BY <1>1, <1>2

\* The title that is parsed from the new name of a video is that of its old name.
LEMMA TitleKept ==
  ASSUME NEW f, f.name \in Name, KeepsExtension(f), KeepsTitle(f.name), ~Rejected(<<group_name>>)
  PROVE  LocalTitle(rename_file(f.name)) = LocalTitle(f.name)
<1> DEFINE name == f.name
           parts == split_basename(name)
           stem == strip_sample_suffix(parts.stem)
           base == split_basename(parse_release_metadata(name).raw)
           new == Basename(NewStem(stem), parts.ext)
<1>1. /\ parts.ext # <<>> /\ parts.ext \in Name /\ NoDot(parts.ext)
      /\ stem # <<>> /\ stem \in Name
  BY SplitType, StripType DEF KeepsExtension
<1>2. /\ parse_release_metadata(name).group = DetectedGroup(stem)
      /\ base.stem = stem /\ base.ext = parts.ext
  BY <1>1, RawParts
<1>3. parse_release_metadata(name).without_group = Without(stem)
  BY DEF parse_release_metadata, Without
<1>4. /\ ~is_sample(stem) /\ clean_local_title(Without(stem)) # <<>>
      /\ \A g \in DetectedGroup(stem) : g.style # "leading_unbracketed"
  BY <1>2, <1>3 DEF KeepsTitle
<1>5. CASE Contains(name, group_name) BY <1>5 DEF rename_file
<1>6. CASE ~Contains(name, group_name)
  <2>1. rename_file(name) = new
    <3>1. rename_file(name) = apply_group_swap(name) BY <1>6 DEF rename_file
    <3>2. apply_group_swap(name) =
            Basename(IF DetectedGroup(stem) = {} THEN base.stem \o <<"-", group_name>>
                     ELSE Splice(base.stem, CHOOSE g \in DetectedGroup(stem) : TRUE), base.ext)
      BY <1>2 DEF apply_group_swap
    <3> HIDE DEF base, stem, parts
    <3> QED BY <1>2, <3>1, <3>2 DEF NewStem
  <2> HIDE DEF name, parts, stem, base
  <2>2. /\ NewStem(stem) \in Name /\ NewStem(stem) # <<>> /\ ~is_sample(NewStem(stem))
        /\ clean_local_title(Without(NewStem(stem))) = clean_local_title(Without(stem))
    BY <1>1, <1>4, FoundAgain DEF Found
  <2>3. split_basename(new).stem = NewStem(stem) BY <1>1, <2>2, SplitOfBasename
  <2>4. parse_release_metadata(new).without_group = Without(NewStem(stem))
    BY <2>2, <2>3 DEF parse_release_metadata, Without, strip_sample_suffix
  <2> HIDE DEF new
  <2>5. LocalTitle(new) = clean_local_title(Without(NewStem(stem)))
    BY <1>4, <2>2, <2>4 DEF LocalTitle, clean_title_for_directory
  <2>6. LocalTitle(name) = clean_local_title(Without(stem))
    BY <1>3, <1>4 DEF LocalTitle, clean_title_for_directory
  <2> QED BY <2>1, <2>2, <2>5, <2>6 DEF name
<1> QED BY <1>5, <1>6
-----------------------------------------------------------------------------
(* A tree half renamed.                                                    *)

LEMMA ProperTree ==
  ASSUME tree \in Trees, ProperNames
  PROVE  /\ \A f \in tree : f \in Paths /\ f # NoFile /\ KeepsExtension(f)
         /\ \A q \in primary_video(tree) :
              q \in Paths \cup {NoFile} /\ (q # NoFile => q \in tree /\ KeepsExtension(q))
<1>1. \A f \in tree : f \in Paths /\ f # NoFile /\ KeepsExtension(f)
  BY RenameAssumption DEF ProperNames
<1> QED BY <1>1, Primary

\* A file that has a new name already gets the same one again, whichever video led to it.
LEMMA NamedAgain ==
  ASSUME tree \in Trees, ProperNames, NEW f \in tree, NEW p \in Places(f),
         NEW q \in primary_video(tree)
  PROVE  /\ p \in Paths /\ AtRoot(p) = AtRoot(f)
         /\ is_video_file(p.name) = is_video_file(f.name)
         /\ new_path(p, q) = new_path(f, q)
         /\ new_path(p, q) \in Places(f)
<1>1. f \in Paths /\ KeepsExtension(f) BY ProperTree
<1>2. new_path(f, q) \in Places(f) BY DEF Places
<1>3. CASE p = f BY <1>1, <1>2, <1>3
<1>4. ASSUME NEW r \in primary_video(tree), p = new_path(f, r)
      PROVE  /\ p \in Paths /\ AtRoot(p) = AtRoot(f)
             /\ is_video_file(p.name) = is_video_file(f.name)
             /\ new_path(p, q) = new_path(f, q)
  <2>1. /\ q \in Paths \cup {NoFile} /\ (q # NoFile => KeepsExtension(q))
        /\ r \in Paths \cup {NoFile} /\ (r # NoFile => KeepsExtension(r))
        /\ q = NoFile <=> r = NoFile
    BY ProperTree, Primary
  <2>2. p \in Paths /\ p.dir = f.dir BY <1>1, <1>4, <2>1, NewPath
  <2>3. split_basename(p.name).ext = split_basename(f.name).ext
    BY <1>1, <1>4, <2>1, ExtensionKept
  <2>4. AtRoot(p) = AtRoot(f) /\ is_video_file(p.name) = is_video_file(f.name)
    BY <2>2, <2>3 DEF AtRoot, is_video_file
  <2>5. Follows(p, q) = Follows(f, q) /\ Follows(f, q) = Follows(f, r)
    BY <2>1, <2>4 DEF Follows
  <2>6. new_path(p, q).dir = f.dir /\ new_path(f, q).dir = f.dir
    BY <1>1, <2>1, <2>2, NewPath
  <2>7. new_path(p, q).name = new_path(f, q).name
    <3>1. CASE Follows(f, q)
      <4> DEFINE stem == split_basename(rename_file(q.name)).stem
      <4>1. new_path(f, q).name = Basename(stem, split_basename(f.name).ext)
        BY <1>1, <2>1, <3>1, NewPath
      <4>2. new_path(p, q).name = Basename(stem, split_basename(p.name).ext)
        BY <2>1, <2>2, <2>5, <3>1, NewPath
      <4> QED BY <2>3, <4>1, <4>2
    <3>2. CASE ~Follows(f, q)
      <4>1. new_path(p, q).name = rename_file(p.name) /\ new_path(f, q).name = rename_file(f.name)
        BY <1>1, <2>1, <2>2, <2>5, <3>2, NewPath
      <4>2. p.name = rename_file(f.name) BY <1>1, <1>4, <2>1, <2>5, <3>2, NewPath
      <4>3. f.name \in Name BY <1>1 DEF Paths, Name
      <4> QED BY <4>1, <4>2, <4>3, RenameTwice
    <3> QED BY <3>1, <3>2
  <2>8. new_path(p, q) \in Paths /\ new_path(f, q) \in Paths BY <1>1, <2>1, <2>2, NewPath
  <2> QED BY <2>2, <2>4, <2>6, <2>7, <2>8 DEF Paths
<1> QED BY <1>2, <1>3, <1>4 DEF Places

\* The primary video of a tree half renamed leads to the names that a video of the
\* downloaded tree leads to.
LEMMA SamePlan ==
  ASSUME TypeInv, ProperNames, PlacesInv, NEW r \in primary_video(DOMAIN disk)
  PROVE  \E q \in primary_video(tree) : \A p : new_path(p, r) = new_path(p, q)
<1>1. tree \in Trees /\ (\A p \in DOMAIN disk : disk[p] \in tree) BY DEF TypeInv, TypeOK
<1>2. PICK any \in primary_video(tree) : TRUE BY DEF primary_video
<1>3. CASE r \in DOMAIN disk /\ AtRoot(r) /\ is_video_file(r.name)
  <2> DEFINE h == disk[r]
  <2>1. h \in tree /\ r \in Places(h) BY <1>1, <1>3 DEF PlacesInv
  <2>2. r \in Paths /\ AtRoot(h) /\ is_video_file(h.name) BY <1>1, <1>2, <1>3, <2>1, NamedAgain
  <2>3. h \in primary_video(tree) BY <2>1, <2>2 DEF primary_video
  <2>4. h \in Paths /\ h # NoFile /\ r # NoFile
    BY <1>1, <2>1, <2>2, ProperTree, RenameAssumption
  <2>5. new_path(r, h) = new_path(h, h) BY <1>1, <2>1, <2>3, NamedAgain
  <2>6. rename_file(r.name) = rename_file(h.name)
    BY <1>3, <2>2, <2>4, <2>5, NewPath DEF Follows
  <2>7. \A p : new_path(p, r) = new_path(p, h) BY <2>4, <2>6 DEF new_path
  <2> QED BY <2>3, <2>7
<1>4. CASE r = NoFile /\ \A p \in DOMAIN disk : ~(AtRoot(p) /\ is_video_file(p.name))
  <2>1. \A f \in tree : ~(AtRoot(f) /\ is_video_file(f.name))
    <3> SUFFICES ASSUME NEW f \in tree PROVE ~(AtRoot(f) /\ is_video_file(f.name)) OBVIOUS
    <3>1. PICK p \in DOMAIN disk : p \in Places(f) BY DEF PlacesInv
    <3> QED BY <1>1, <1>2, <1>4, <3>1, NamedAgain
  <2>2. NoFile \in primary_video(tree) BY <2>1 DEF primary_video
  <2> QED BY <1>4, <2>2
<1> QED BY <1>3, <1>4, Primary
-----------------------------------------------------------------------------
(* The steps.                                                              *)

\* The rename that ApplyRename did, seen from the disk.
RenamedOne(old) ==
  /\ old \in DOMAIN rename_map /\ old \in DOMAIN disk
  /\ disk' = Renamed(disk, old, rename_map[old])
  /\ rename_map' = Restrict(rename_map, DOMAIN rename_map \ {old})
  /\ done' = [original |-> old, renamed |-> rename_map[old]]
  /\ pc = "apply" /\ pc' = "insert"
  /\ UNCHANGED <<tree, row, files, downloads, faults>>

\* The rest of what the worker does: the disk is as it was and the map, if it is kept.
KeepsDisk ==
  /\ UNCHANGED <<tree, disk>>
  /\ \/ /\ UNCHANGED rename_map
        /\ pc' \in {"apply", "insert", "update"} => pc \in {"apply", "insert", "update"}
     \/ rename_map' = Empty /\ pc' = "idle"
  /\ row' = "renamed" => row = "renamed" \/ (pc = "apply" /\ rename_map = Empty)

LEMMA StepShape ==
  ASSUME [Next]_vars
  PROVE  KeepsDisk \/ Scan \/ Redownload \/ \E old \in DOMAIN rename_map : RenamedOne(old)
<1>1. CASE claim_analyzed_row BY <1>1 DEF claim_analyzed_row, KeepsDisk
<1>2. CASE ApplyRename BY <1>2 DEF ApplyRename, RenamedOne, KeepsDisk
<1>3. CASE insert_file BY <1>3 DEF insert_file, KeepsDisk
<1>4. CASE update_file_renamed BY <1>4 DEF update_file_renamed, KeepsDisk
<1>5. CASE PublishRenamed BY <1>5 DEF PublishRenamed, Leave, KeepsDisk
<1>6. CASE PublishFailed BY <1>6 DEF PublishFailed, Leave, KeepsDisk
<1>7. CASE Crash BY <1>7 DEF Crash, Leave, KeepsDisk
<1>8. CASE ResetFailed BY <1>8 DEF ResetFailed, KeepsDisk
<1>9. CASE UNCHANGED vars BY <1>9 DEF vars, KeepsDisk
<1> QED BY <1>1, <1>2, <1>3, <1>4, <1>5, <1>6, <1>7, <1>8, <1>9 DEF Next

\* The new path is there, the old one is not; all others hold what they held.
LEMMA RenamedDisk ==
  ASSUME NEW old \in DOMAIN disk, NEW new, disk' = Renamed(disk, old, new), new # old
  PROVE  /\ DOMAIN disk' = (DOMAIN disk \cup {new}) \ {old}
         /\ disk'[new] = disk[old]
         /\ \A p \in DOMAIN disk \ {old, new} : disk'[p] = disk[p]
BY DEF Renamed

LEMMA MapLess ==
  ASSUME NEW old, rename_map' = Restrict(rename_map, DOMAIN rename_map \ {old})
  PROVE  /\ DOMAIN rename_map' = DOMAIN rename_map \ {old}
         /\ \A p \in DOMAIN rename_map \ {old} : rename_map'[p] = rename_map[p]
BY DEF Restrict

LEMMA NoMap == DOMAIN Empty = {}
BY DEF Empty

LEMMA Initially == Init => IInv
<1> SUFFICES ASSUME Init PROVE IInv OBVIOUS
<1>1. DOMAIN disk = tree /\ (\A p \in tree : disk[p] = p) /\ tree \in Trees BY DEF Init
<1>2. tree \subseteq Paths BY <1>1, RenameAssumption
<1>3. rename_map = Empty /\ pc = "idle" /\ row = "analyzed" BY DEF Init
<1>4. TypeInv BY <1>1, <1>2, <1>3, NoMap DEF TypeInv, TypeOK
<1>5. PlacesInv BY <1>1 DEF PlacesInv, Places
<1>6. PlanInv BY <1>3 DEF PlanInv
<1> QED BY <1>4, <1>5, <1>6 DEF IInv

LEMMA TypeStep ==
  ASSUME TypeInv, [Next]_vars
  PROVE  TypeInv'
<1> USE DEF TypeInv, TypeOK
<1>1. CASE claim_analyzed_row BY <1>1 DEF claim_analyzed_row
<1>2. CASE Scan
  <2>1. PICK r \in primary_video(DOMAIN disk) : rename_map' = RenameMap(DOMAIN disk, r)
    BY <1>2 DEF Scan
  <2>2. r \in Paths \cup {NoFile} BY <2>1, Primary
  <2>3. \A p \in DOMAIN disk : new_path(p, r) \in Paths BY <2>2, NewPath
  <2>4. DOMAIN rename_map' \subseteq DOMAIN disk BY <2>1 DEF RenameMap
  <2>5. \A p \in DOMAIN rename_map' : rename_map'[p] \in Paths BY <2>1, <2>3 DEF RenameMap
  <2> QED BY <1>2, <2>4, <2>5 DEF Scan
<1>3. ASSUME NEW old \in DOMAIN rename_map, RenamedOne(old) PROVE TypeInv'
  <2> DEFINE new == rename_map[old]
  <2>1. old \in DOMAIN disk /\ old \in Paths /\ new \in Paths /\ disk[old] \in tree
    BY <1>3 DEF RenamedOne
  <2>2. DOMAIN disk' = (DOMAIN disk \cup {new}) \ {old}
    BY <1>3 DEF RenamedOne, Renamed
  <2>3. \A p \in DOMAIN disk' : disk'[p] \in tree
    BY <1>3, <2>1 DEF RenamedOne, Renamed
  <2>4. /\ DOMAIN rename_map' = DOMAIN rename_map \ {old}
        /\ \A p \in DOMAIN rename_map \ {old} : rename_map'[p] = rename_map[p]
    BY <1>3, MapLess DEF RenamedOne
  <2>5. done' # NoFile
    <3>1. done' \in [original : Paths, renamed : Paths] BY <1>3, <2>1 DEF RenamedOne
    <3> QED BY <3>1, RenameAssumption
  <2> HIDE DEF new
  <2>6. /\ DOMAIN disk' \subseteq Paths /\ DOMAIN rename_map' \subseteq DOMAIN disk'
        /\ \A p \in DOMAIN rename_map' : rename_map'[p] \in Paths
    BY <2>1, <2>2, <2>4
  <2> QED BY <1>3, <2>3, <2>5, <2>6 DEF RenamedOne
<1>4. CASE ApplyRename /\ ~(\E old \in DOMAIN rename_map : RenamedOne(old))
  BY <1>4 DEF ApplyRename, RenamedOne
<1>5. CASE insert_file BY <1>5 DEF insert_file
<1>6. CASE update_file_renamed BY <1>6 DEF update_file_renamed
<1>7. CASE PublishRenamed BY <1>7, NoMap DEF PublishRenamed, Leave
<1>8. CASE PublishFailed BY <1>8, NoMap DEF PublishFailed, Leave
<1>9. CASE Crash BY <1>9, NoMap DEF Crash, Leave
<1>10. CASE ResetFailed BY <1>10 DEF ResetFailed
<1>11. CASE Redownload
  <2>1. PICK again \in SUBSET tree :
          disk' = [p \in DOMAIN disk \cup again |-> IF p \in again THEN p ELSE disk[p]]
    BY <1>11 DEF Redownload
  <2>2. tree \subseteq Paths BY RenameAssumption
  <2>3. /\ DOMAIN disk' = DOMAIN disk \cup again /\ DOMAIN disk' \subseteq Paths
        /\ \A p \in DOMAIN disk' : disk'[p] \in tree
    BY <2>1, <2>2
  <2> QED BY <1>11, <2>3 DEF Redownload
<1>12. CASE UNCHANGED vars BY <1>12 DEF vars
<1> QED BY <1>1, <1>2, <1>3, <1>4, <1>5, <1>6, <1>7, <1>8, <1>9, <1>10, <1>11, <1>12 DEF Next

\* A rename on disk moves a file from one of its places to another.
LEMMA PlacesStep ==
  ASSUME IInv, ProperNames, [Next]_vars
  PROVE  PlacesInv'
<1>1. PlacesInv /\ TypeInv /\ tree \in Trees /\ \A p \in DOMAIN disk : disk[p] \in tree
  BY DEF IInv, TypeInv, TypeOK
<1>2. CASE UNCHANGED <<tree, disk>> BY <1>1, <1>2 DEF PlacesInv, Places
<1>3. CASE Redownload
  <2>1. PICK again \in SUBSET tree :
          disk' = [p \in DOMAIN disk \cup again |-> IF p \in again THEN p ELSE disk[p]]
    BY <1>3 DEF Redownload
  <2>2. /\ DOMAIN disk' = DOMAIN disk \cup again
        /\ \A p \in again : disk'[p] = p
        /\ \A p \in DOMAIN disk \ again : disk'[p] = disk[p]
    BY <2>1
  <2>3. \A f : Places(f)' = Places(f) BY <1>3 DEF Redownload, Places
  <2>4. \A p \in DOMAIN disk' : p \in Places(disk'[p]) BY <1>1, <2>2 DEF PlacesInv, Places
  <2> QED BY <1>1, <1>3, <2>2, <2>3, <2>4 DEF PlacesInv, Redownload
<1>4. ASSUME NEW old \in DOMAIN rename_map, RenamedOne(old) PROVE PlacesInv'
  <2> DEFINE new == rename_map[old]
  <2>1. old \in DOMAIN disk /\ disk' = Renamed(disk, old, new) /\ tree' = tree
    BY <1>4 DEF RenamedOne
  <2>2. PICK q \in primary_video(tree) : new = new_path(old, q) /\ new # old
    BY <1>4 DEF RenamedOne, IInv, PlanInv, Plan
  <2> HIDE DEF new
  <2>3. /\ DOMAIN disk' = (DOMAIN disk \cup {new}) \ {old}
        /\ disk'[new] = disk[old]
        /\ \A p \in DOMAIN disk \ {old, new} : disk'[p] = disk[p]
    BY <2>1, <2>2, RenamedDisk
  <2>4. \A f \in tree : old \in Places(f) => new \in Places(f) BY <1>1, <2>2, NamedAgain
  <2>5. \A f : Places(f)' = Places(f) BY <2>1 DEF Places
  <2>6. \A p \in DOMAIN disk' : p \in Places(disk'[p])
    BY <1>1, <2>1, <2>3, <2>4 DEF PlacesInv
  <2>7. \A f \in tree : \E p \in DOMAIN disk' : p \in Places(f)
    <3> SUFFICES ASSUME NEW f \in tree PROVE \E p \in DOMAIN disk' : p \in Places(f) OBVIOUS
    <3>1. PICK p \in DOMAIN disk : p \in Places(f) BY <1>1 DEF PlacesInv
    <3>2. CASE p = old BY <2>2, <2>3, <2>4, <3>1, <3>2
    <3>3. CASE p # old BY <2>3, <3>1, <3>3
    <3> QED BY <3>2, <3>3
  <2> QED BY <2>1, <2>5, <2>6, <2>7 DEF PlacesInv
<1> QED BY <1>2, <1>3, <1>4, StepShape DEF KeepsDisk, Scan

\* The map shrinks with the renames that are done; when it is empty all names are new.
LEMMA PlanStep ==
  ASSUME IInv, ProperNames, [Next]_vars
  PROVE  PlanInv'
<1>1. /\ PlacesInv /\ PlanInv /\ TypeInv /\ tree \in Trees
      /\ \A p \in DOMAIN disk : disk[p] \in tree
      /\ pc # "idle" => row = "renaming"
  BY DEF IInv, TypeInv, TypeOK
<1>2. CASE KeepsDisk
  <2>1. /\ tree' = tree /\ disk' = disk
        /\ row' = "renamed" => row = "renamed" \/ (pc = "apply" /\ rename_map = Empty)
    BY <1>2 DEF KeepsDisk
  <2>2. row' = "renamed" =>
          \E q \in primary_video(tree) : \A p \in DOMAIN disk : new_path(p, q) = p
    <3>1. CASE row = "renamed" BY <1>1, <3>1 DEF PlanInv
    <3>2. CASE pc = "apply" /\ rename_map = Empty BY <1>1, <3>2, NoMap DEF PlanInv, Plan
    <3> QED BY <2>1, <3>1, <3>2
  <2>3. pc' \in {"apply", "insert", "update"} =>
          \E q \in primary_video(tree) : Plan(q) /\ rename_map' = rename_map
    BY <1>1, <1>2 DEF KeepsDisk, PlanInv
  <2> QED BY <2>1, <2>2, <2>3 DEF PlanInv, Plan
<1>3. CASE Scan
  <2>1. PICK r \in primary_video(DOMAIN disk) : rename_map' = RenameMap(DOMAIN disk, r)
    BY <1>3 DEF Scan
  <2>2. PICK q \in primary_video(tree) : \A p : new_path(p, r) = new_path(p, q)
    BY <1>1, <2>1, SamePlan
  <2>3. rename_map' = RenameMap(DOMAIN disk, q) BY <2>1, <2>2 DEF RenameMap
  <2>4. /\ \A p \in DOMAIN rename_map' : rename_map'[p] = new_path(p, q) /\ rename_map'[p] # p
        /\ \A p \in DOMAIN disk \ DOMAIN rename_map' : new_path(p, q) = p
    BY <2>3 DEF RenameMap
  <2>5. tree' = tree /\ disk' = disk /\ row' = row /\ row = "renaming" BY <1>1, <1>3 DEF Scan
  <2> QED BY <2>4, <2>5 DEF PlanInv, Plan
<1>4. ASSUME NEW old \in DOMAIN rename_map, RenamedOne(old) PROVE PlanInv'
  <2> DEFINE new == rename_map[old]
  <2>1. /\ old \in DOMAIN disk /\ disk' = Renamed(disk, old, new) /\ tree' = tree
        /\ row' = row /\ row = "renaming" /\ pc = "apply"
    BY <1>1, <1>4 DEF RenamedOne
  <2>2. PICK q \in primary_video(tree) : Plan(q) BY <1>1, <2>1 DEF PlanInv
  <2>3. new = new_path(old, q) /\ new # old BY <2>2 DEF Plan
  <2> HIDE DEF new
  <2>4. DOMAIN disk' = (DOMAIN disk \cup {new}) \ {old} BY <2>1, <2>3, RenamedDisk
  <2>5. /\ DOMAIN rename_map' = DOMAIN rename_map \ {old}
        /\ \A p \in DOMAIN rename_map \ {old} : rename_map'[p] = rename_map[p]
    BY <1>4, MapLess DEF RenamedOne
  <2>6. new_path(new, q) = new
    <3>1. disk[old] \in tree /\ old \in Places(disk[old]) BY <1>1, <2>1 DEF PlacesInv
    <3>2. new = new_path(disk[old], q) /\ new \in Places(disk[old])
      BY <1>1, <2>3, <3>1, NamedAgain
    <3> QED BY <1>1, <3>1, <3>2, NamedAgain
  <2>7. /\ \A p \in DOMAIN rename_map' : rename_map'[p] = new_path(p, q) /\ rename_map'[p] # p
        /\ \A p \in DOMAIN disk' \ DOMAIN rename_map' : new_path(p, q) = p
    BY <2>2, <2>4, <2>5, <2>6 DEF Plan
  <2> QED BY <2>1, <2>7 DEF PlanInv, Plan
<1>5. CASE Redownload BY <1>5 DEF Redownload, PlanInv
<1> QED BY <1>2, <1>3, <1>4, <1>5, StepShape

LEMMA Inductive == IInv /\ [Next]_vars => IInv'
<1> SUFFICES ASSUME IInv, [Next]_vars PROVE IInv' OBVIOUS
<1>1. TypeInv' BY TypeStep DEF IInv
<1>2. tree' = tree BY StepShape DEF KeepsDisk, Scan, Redownload, RenamedOne
<1>3. ProperNames' <=> ProperNames BY <1>2 DEF ProperNames
<1> QED BY <1>1, <1>3, PlacesStep, PlanStep DEF IInv

\* Two files with a place in common are given the same new path.
LEMMA PlaceInCommon ==
  ASSUME tree \in Trees, ProperNames, ~Collide,
         NEW f \in tree, NEW g \in tree, NEW p \in Places(f), p \in Places(g)
  PROVE  f = g
<1>1. PICK q \in primary_video(tree) : TRUE BY DEF primary_video
<1>2. new_path(f, q) = new_path(g, q) BY NamedAgain
<1> QED BY <1>2 DEF Collide

LEMMA KeptUnlessCollide == IInv => OnlyCollisionsLose
<1> SUFFICES ASSUME IInv, ProperNames, ~Collide PROVE Range(disk) = tree
  BY DEF OnlyCollisionsLose
<1>1. PlacesInv /\ tree \in Trees /\ \A p \in DOMAIN disk : disk[p] \in tree
  BY DEF IInv, TypeInv, TypeOK
<1>2. \A f \in tree : \E p \in DOMAIN disk : disk[p] = f
  <2> SUFFICES ASSUME NEW f \in tree PROVE \E p \in DOMAIN disk : disk[p] = f OBVIOUS
  <2>1. PICK p \in DOMAIN disk : p \in Places(f) BY <1>1 DEF PlacesInv
  <2>2. disk[p] = f BY <1>1, <2>1, PlaceInCommon DEF PlacesInv
  <2> QED BY <2>2
<1> QED BY <1>1, <1>2 DEF Range

LEMMA NamesOfOnePass == IInv => SameAsUninterrupted
<1> SUFFICES ASSUME IInv, ProperNames, row = "renamed"
             PROVE  \E q \in primary_video(tree) :
                      /\ DOMAIN disk = {new_path(f, q) : f \in tree}
                      /\ \A p \in DOMAIN disk : p = new_path(disk[p], q)
  BY DEF SameAsUninterrupted
<1>1. PlacesInv /\ tree \in Trees /\ \A p \in DOMAIN disk : disk[p] \in tree
  BY DEF IInv, TypeInv, TypeOK
<1>2. PICK q \in primary_video(tree) : \A p \in DOMAIN disk : new_path(p, q) = p
  BY DEF IInv, PlanInv
<1>3. \A p \in DOMAIN disk : p = new_path(disk[p], q)
  BY <1>1, <1>2, NamedAgain DEF PlacesInv
<1>4. \A f \in tree : new_path(f, q) \in DOMAIN disk
  <2> SUFFICES ASSUME NEW f \in tree PROVE new_path(f, q) \in DOMAIN disk OBVIOUS
  <2>1. PICK p \in DOMAIN disk : p \in Places(f) BY <1>1 DEF PlacesInv
  <2>2. new_path(f, q) = p BY <1>1, <1>2, <2>1, NamedAgain
  <2> QED BY <2>2
<1> QED BY <1>1, <1>3, <1>4
-----------------------------------------------------------------------------
(* Videos, in any tree.                                                    *)

Video(f) == is_video_file(f.name) /\ KeepsExtension(f)

\* A video has its own name or its new one, and the new one when its rename is done.
VideoInv ==
  /\ \A p \in DOMAIN disk : Video(disk[p]) => p.name \in {disk[p].name, rename_file(disk[p].name)}
  /\ pc \in {"apply", "insert", "update"} =>
       /\ \A p \in DOMAIN rename_map : \E q \in Paths \cup {NoFile} : rename_map[p] = new_path(p, q)
       /\ \A p \in DOMAIN disk \ DOMAIN rename_map :
            Video(disk[p]) => p.name = rename_file(disk[p].name)
  /\ row = "renamed" =>
       \A p \in DOMAIN disk : Video(disk[p]) => p.name = rename_file(disk[p].name)

\* The primary video has no say in what a video is called.
LEMMA VideoName ==
  ASSUME NEW f \in Paths, Video(f), NEW p \in Paths, p.name \in {f.name, rename_file(f.name)},
         NEW q \in Paths \cup {NoFile}
  PROVE  new_path(p, q).name = rename_file(f.name)
<1>1. f.name \in Name BY DEF Paths, Name
<1>2. is_video_file(p.name) BY <1>1, RenameKeepsExtension DEF Video, is_video_file
<1>3. new_path(p, q).name = rename_file(p.name) BY <1>2, NewPath DEF Follows
<1> QED BY <1>1, <1>3, RenameTwice

LEMMA VideoStep ==
  ASSUME TypeInv, VideoInv, [Next]_vars
  PROVE  VideoInv'
<1>1. /\ DOMAIN disk \subseteq Paths
      /\ \A p \in DOMAIN disk : disk[p] \in Paths
      /\ DOMAIN rename_map \subseteq DOMAIN disk
      /\ pc # "idle" => row = "renaming"
  <2>1. tree \subseteq Paths BY RenameAssumption DEF TypeInv, TypeOK
  <2> QED BY <2>1 DEF TypeInv, TypeOK
<1>2. CASE KeepsDisk
  <2>1. /\ disk' = disk
        /\ row' = "renamed" => row = "renamed" \/ (pc = "apply" /\ rename_map = Empty)
        /\ pc' \in {"apply", "insert", "update"} =>
             pc \in {"apply", "insert", "update"} /\ rename_map' = rename_map
    BY <1>2 DEF KeepsDisk
  <2>2. row' = "renamed" =>
          \A p \in DOMAIN disk : Video(disk[p]) => p.name = rename_file(disk[p].name)
    BY <2>1, NoMap DEF VideoInv
  <2> QED BY <2>1, <2>2 DEF VideoInv
<1>3. CASE Scan
  <2>1. PICK r \in primary_video(DOMAIN disk) : rename_map' = RenameMap(DOMAIN disk, r)
    BY <1>3 DEF Scan
  <2>2. r \in Paths \cup {NoFile} BY <1>1, <2>1, Primary
  <2>3. /\ DOMAIN rename_map' = {p \in DOMAIN disk : new_path(p, r) # p}
        /\ \A p \in DOMAIN rename_map' : rename_map'[p] = new_path(p, r)
    BY <2>1 DEF RenameMap
  <2>4. \A p \in DOMAIN disk \ DOMAIN rename_map' :
          Video(disk[p]) => p.name = rename_file(disk[p].name)
    <3> SUFFICES ASSUME NEW p \in DOMAIN disk, new_path(p, r) = p, Video(disk[p])
                 PROVE  p.name = rename_file(disk[p].name)
      BY <2>3
    <3> QED BY <1>1, <2>2, VideoName DEF VideoInv
  <2>5. disk' = disk /\ row' = "renaming" BY <1>1, <1>3 DEF Scan
  <2> QED BY <2>2, <2>3, <2>4, <2>5 DEF VideoInv
<1>4. ASSUME NEW old \in DOMAIN rename_map, RenamedOne(old) PROVE VideoInv'
  <2> DEFINE new == rename_map[old]
  <2>1. /\ old \in DOMAIN disk /\ disk' = Renamed(disk, old, new)
        /\ row' = "renaming" /\ pc = "apply"
    BY <1>1, <1>4 DEF RenamedOne
  <2>2. PICK q \in Paths \cup {NoFile} : new = new_path(old, q) BY <2>1 DEF VideoInv
  <2>3. Video(disk[old]) => new.name = rename_file(disk[old].name)
    BY <1>1, <2>1, <2>2, VideoName DEF VideoInv
  <2> HIDE DEF new
  <2>4. /\ DOMAIN disk' = (DOMAIN disk \cup {new}) \ {old}
        /\ \A p \in DOMAIN disk' : disk'[p] = IF p = new THEN disk[old] ELSE disk[p]
    BY <2>1 DEF Renamed
  <2>5. /\ DOMAIN rename_map' = DOMAIN rename_map \ {old}
        /\ \A p \in DOMAIN rename_map \ {old} : rename_map'[p] = rename_map[p]
    BY <1>4, MapLess DEF RenamedOne
  <2>6. \A p \in DOMAIN disk' :
          Video(disk'[p]) => p.name \in {disk'[p].name, rename_file(disk'[p].name)}
    BY <2>3, <2>4 DEF VideoInv
  <2>7. \A p \in DOMAIN disk' \ DOMAIN rename_map' :
          Video(disk'[p]) => p.name = rename_file(disk'[p].name)
    BY <2>1, <2>3, <2>4, <2>5 DEF VideoInv
  <2>8. \A p \in DOMAIN rename_map' : \E r \in Paths \cup {NoFile} : rename_map'[p] = new_path(p, r)
    BY <2>1, <2>5 DEF VideoInv
  <2> QED BY <2>1, <2>6, <2>7, <2>8 DEF VideoInv
<1>5. CASE Redownload
  <2>1. PICK again \in SUBSET tree :
          disk' = [p \in DOMAIN disk \cup again |-> IF p \in again THEN p ELSE disk[p]]
    BY <1>5 DEF Redownload
  <2>2. \A p \in DOMAIN disk' : disk'[p] = p \/ (p \in DOMAIN disk /\ disk'[p] = disk[p])
    <3> SUFFICES ASSUME NEW p \in DOMAIN disk'
                 PROVE  disk'[p] = p \/ (p \in DOMAIN disk /\ disk'[p] = disk[p])
      OBVIOUS
    <3>1. CASE p \in again BY <2>1, <3>1
    <3>2. CASE p \notin again BY <2>1, <3>2
    <3> QED BY <3>1, <3>2
  <2>3. \A p \in DOMAIN disk' :
          Video(disk'[p]) => p.name \in {disk'[p].name, rename_file(disk'[p].name)}
    BY <2>2 DEF VideoInv
  <2>4. pc' = "idle" /\ row' = "analyzed" BY <1>5 DEF Redownload
  <2> QED BY <2>3, <2>4 DEF VideoInv
<1> QED BY <1>2, <1>3, <1>4, <1>5, StepShape

LEMMA VideosInductive == Spec => [](TypeInv /\ VideoInv)
<1>1. Init => TypeInv /\ VideoInv
  <2> SUFFICES ASSUME Init PROVE TypeInv /\ VideoInv OBVIOUS
  <2>1. TypeInv BY Initially DEF IInv
  <2>2. /\ \A p \in DOMAIN disk : disk[p] = p
        /\ pc = "idle" /\ row = "analyzed"
    BY DEF Init
  <2> QED BY <2>1, <2>2 DEF VideoInv
<1>2. TypeInv /\ VideoInv /\ [Next]_vars => (TypeInv /\ VideoInv)' BY TypeStep, VideoStep
<1> QED BY <1>1, <1>2, PTL DEF Spec

LEMMA SameTitle == TypeInv /\ VideoInv => TitleSurvivesRename
<1> SUFFICES ASSUME TypeInv, VideoInv, row = "renamed", ~Rejected(<<group_name>>),
                    NEW p \in DOMAIN disk, Video(disk[p]), KeepsTitle(disk[p].name)
             PROVE  LocalTitle(p.name) = LocalTitle(disk[p].name)
  BY DEF TitleSurvivesRename, Video
<1>1. p.name = rename_file(disk[p].name) BY DEF VideoInv
<1>2. disk[p] \in Paths BY RenameAssumption DEF TypeInv, TypeOK
<1>3. disk[p].name \in Name BY <1>2 DEF Paths, Name
<1> QED BY <1>1, <1>3, TitleKept DEF Video
-----------------------------------------------------------------------------
(* The theorems.                                                           *)

\* The types; the worker has the row in flight while it works, and never has a rename to
\* do of a file that is not there any more.
THEOREM TypeCorrect == Spec => []TypeOK
<1>1. IInv => TypeOK BY DEF IInv, TypeInv
<1> QED BY <1>1, Initially, Inductive, PTL DEF Spec

\* rename_directory costs a file only if two are given one name (fs::rename replaces):
\* not by a failure, a crash, a second pass over a tree half renamed or a new download.
THEOREM CollisionsAloneLose == Spec => []OnlyCollisionsLose
BY Initially, Inductive, KeptUnlessCollide, PTL DEF Spec

\* The row says `renamed` only for a tree with the names of one pass of
\* rename_directory over what was downloaded.
THEOREM EndsLikeOnePass == Spec => []SameAsUninterrupted
BY Initially, Inductive, NamesOfOnePass, PTL DEF Spec

\* The title the move worker parses from a renamed video is the one the original name
\* has: apply_group_swap leaves what parse_release_metadata and clean_local_title look at
\* as it was, in any tree and with any number of interruptions.
THEOREM TitleOutlivesRename == Spec => []TitleSurvivesRename
BY VideosInductive, SameTitle, PTL
=============================================================================
