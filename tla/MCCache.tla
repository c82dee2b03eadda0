------------------------------ MODULE MCCache -------------------------------
(* Small instances of Cache for TLC.                                       *)
EXTENDS Cache, TLC

Alike == Permutations(Callers) \cup Permutations(Categories)
=============================================================================
