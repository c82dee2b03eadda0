---------------------------- MODULE MCMediaSync ----------------------------
(* Small instances of MediaSync for TLC.                                   *)
EXTENDS MediaSync

CONSTANTS d1, d2, f1, f2, f3, a, b, long, empty

\* All files in d1; f3 apart in d2; or f1 apart in d1.
Together == [f \in Files |-> d1]
TwoAndOne == [f \in Files |-> IF f = f3 THEN d2 ELSE d1]
Apart == [f \in Files |-> IF f = f1 THEN d1 ELSE d2]

\* a and b differ in bytes but not in length.
SizeOf == [c \in Contents |-> IF c = empty THEN 0 ELSE IF c = long THEN 2 ELSE 1]

\* The first run finds every file, with content a.
AllA == {[f \in Files |-> a]}

\* The first run finds any tree.
AnyTree == [Files -> Contents \cup {None}]
=============================================================================
