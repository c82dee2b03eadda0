------------------------------- MODULE Names --------------------------------
(***************************************************************************)
(* rename.rs and metadata.rs: what the program reads out of a release name *)
(* (its group, the title it will be filed under) and the name it gives it. *)
(*                                                                         *)
(* A name is a sequence of words and separators, not of characters: a word *)
(* is what the code tests as a whole, and the sets below say how each test *)
(* answers. They are the representatives of the code's lists, in one       *)
(* spelling (the code compares them without case). A detector returns the  *)
(* groups it finds: none or one.                                           *)
(***************************************************************************)
EXTENDS Naturals, Sequences, SequencesExt

CONSTANT group_name   \* the configured release group

FALSE_POSITIVE_GROUPS == {"x264", "sample", "REPACK"}

ReleaseNoise == {"x264", "2160", "REPACK"}

Numbers == {"2160"}

ShortLowercase == {"rune", "sample"}

Separators == {".", "-", "_", " ", "[", "]"}
-----------------------------------------------------------------------------
Cut(s, first, last) == SubSeq(s, 1, first - 1) \o SubSeq(s, last + 1, Len(s))

\* The extension is what follows the last dot that is not the first character.
split_basename(name) ==
  LET dots == {i \in 2..Len(name) : name[i] = "."}
      end  == IF dots = {} THEN Len(name) + 1 ELSE Max(dots)
  IN  [stem |-> SubSeq(name, 1, end - 1), ext |-> SubSeq(name, end + 1, Len(name))]

Basename(stem, ext) == IF ext = <<>> THEN stem ELSE stem \o <<".">> \o ext

is_sample(stem) ==
  Len(stem) > 1 /\ SubSeq(stem, Len(stem) - 1, Len(stem)) = <<".", "sample">>

strip_sample_suffix(stem) ==
  IF is_sample(stem) THEN SubSeq(stem, 1, Len(stem) - 2) ELSE stem

\* No alphanumeric character at all, or a word of the denylist.
is_false_positive_group(token) ==
  LET words == {i \in DOMAIN token : token[i] \notin Separators}
  IN  \A i \in words : words = {i} /\ token[i] \in FALSE_POSITIVE_GROUPS

is_pure_number(token) == Len(token) = 1 /\ token[1] \in Numbers

Rejected(token) == is_false_positive_group(token) \/ is_pure_number(token)

detect_leading_bracket(s) ==
  {[style |-> "leading_bracket", first |-> 1, last |-> close] :
     close \in {c \in 3..(Len(s) - 1) :
                  /\ s[1] = "[" /\ s[c] = "]"
                  /\ \A i \in 1..(c - 1) : s[i] # "]"
                  /\ s[c + 1] \in {"_", " ", "."}
                  /\ ~Rejected(SubSeq(s, 2, c - 1))}}

detect_trailing(s) ==
  {[style |-> "trailing", first |-> sep + 1, last |-> Len(s)] :
     sep \in {i \in 1..(Len(s) - 1) :
                /\ s[i] \in {".", "-"}
                /\ \A j \in (i + 1)..Len(s) : s[j] \notin {".", "-", " ", "[", "]"}
                /\ ~Rejected(SubSeq(s, i + 1, Len(s)))}}

detect_leading_unbracketed(s) ==
  {[style |-> "leading_unbracketed", first |-> 1, last |-> 1] :
     dash \in {d \in {2} \cap DOMAIN s :
                 /\ s[d] = "-"
                 /\ s[1] \in ShortLowercase /\ ~Rejected(<<s[1]>>)
                 /\ \E i \in (d + 1)..Len(s) : s[i] = "."
                 /\ s[d + 1] # " "}}

\* The first rule that finds a group.
DetectedGroup(s) ==
  LET bracket == detect_leading_bracket(s)
      trailing == detect_trailing(s)
  IN  IF bracket # {} THEN bracket
      ELSE IF trailing # {} THEN trailing ELSE detect_leading_unbracketed(s)

parse_release_metadata(name) ==
  LET parts == split_basename(name)
      stem  == strip_sample_suffix(parts.stem)
      group == DetectedGroup(stem)
  IN  [raw |-> IF is_sample(parts.stem) THEN stem \o <<".">> \o parts.ext ELSE name,
       group |-> group,
       without_group |-> IF group = {} THEN stem
                         ELSE LET g == CHOOSE g \in group : TRUE
                              IN  Cut(stem, g.first, g.last)]
-----------------------------------------------------------------------------
(* The new name.                                                           *)

\* Mistake: the brackets go with the group.
SpliceBare(stem, g) ==
  SubSeq(stem, 1, g.first - 1) \o <<group_name>> \o SubSeq(stem, g.last + 1, Len(stem))

\* Our group where the other one stands, in brackets if that one is.
Splice(stem, g) ==
  SubSeq(stem, 1, g.first - 1)
    \o (IF g.style = "leading_bracket" THEN <<"[", group_name, "]">> ELSE <<group_name>>)
    \o SubSeq(stem, g.last + 1, Len(stem))

\* Without a group, ours is appended.
apply_group_swap(name) ==
  LET meta == parse_release_metadata(name)
      base == split_basename(meta.raw)
  IN  Basename(IF meta.group = {} THEN base.stem \o <<"-", group_name>>
               ELSE Splice(base.stem, CHOOSE g \in meta.group : TRUE), base.ext)

\* Mistake: a name that carries our group is swapped again.
RenameAgain(name) == apply_group_swap(name)

rename_file(name) ==
  IF Contains(name, group_name) THEN name ELSE apply_group_swap(name)

rename_non_video_to_match(name, base) == Basename(base, split_basename(name).ext)

is_video_file(name) == split_basename(name).ext = <<"mkv">>
-----------------------------------------------------------------------------
(* The title of the directory in the library.                              *)

\* The maximal runs between dots, underscores, dashes and spaces, and where they begin.
Runs(s) ==
  LET Gap(i) == i \notin DOMAIN s \/ s[i] \in {".", "_", "-", " "}
      End(i) == Min({j \in i..Len(s) : Gap(j + 1)})
  IN  {[at |-> i, token |-> SubSeq(s, i, End(i))] : i \in {i \in DOMAIN s : ~Gap(i) /\ Gap(i - 1)}}

InOrder(runs) ==
  LET sorted == SetToSortSeq(runs, LAMBDA a, b : a.at < b.at)
  IN  [k \in DOMAIN sorted |-> sorted[k].token]

Tokens(s) == InOrder(Runs(s))

is_release_noise_token(token) == Len(token) = 1 /\ token[1] \in ReleaseNoise

clean_local_title(s) ==
  LET kept == SelectSeq(Tokens(s), LAMBDA t : ~is_release_noise_token(t))
  IN  SubSeq(kept, 1, Min({3, Len(kept)}))

\* Three tokens that are no noise, or failing that the whole stem.
clean_title_for_directory(meta) ==
  LET cleaned == clean_local_title(meta.without_group)
  IN  IF cleaned # <<>> THEN cleaned ELSE <<split_basename(meta.raw).stem>>

LocalTitle(name) == clean_title_for_directory(parse_release_metadata(name))
=============================================================================
