------------------------------ MODULE MCRename ------------------------------
(* Small instances of Rename for TLC.                                      *)
EXTENDS Rename

\* One name of each form the parser tells apart; a title that is a number, and a name
\* without an extension.
Hyphen    == <<"Lain", "-", "GRP", ".", "mkv">>
Sample    == <<"Lain", "-", "GRP", ".", "sample", ".", "mkv">>
Bracket   == <<"[", "GRP", "]", "_", "Lain", ".", "mkv">>
Game      == <<"rune", "-", "Lain", ".", "x264", ".", "mkv">>
Digits    == <<"2160", "-", "GRP", ".", "mkv">>
Groupless == <<"Lain", " ", "2160", ".", "x264", ".", "mkv">>
Ours      == <<"Lain", "-", group_name, ".", "srt">>
Subtitle  == <<"eng", ".", "srt">>
Readme    == <<"README">>

InRoot(name) == [dir |-> "root", name |-> name]
InSub(name)  == [dir |-> "sub", name |-> name]

Vocabulary ==
  {InRoot(Hyphen), InRoot(Sample), InRoot(Bracket), InRoot(Game), InRoot(Groupless),
   InRoot(Ours), InRoot(Subtitle), InSub(Sample)}

\* The names the properties are not about; beside another file they are in the trees too.
Odd == {InRoot(Digits), InRoot(Readme)}

UpToThree ==
  {t \in SUBSET Vocabulary : Cardinality(t) \in 1..3}
    \cup {t \in SUBSET (Vocabulary \cup Odd) : Cardinality(t) \in 1..2}
=============================================================================
