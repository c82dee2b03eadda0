----------------------------- MODULE MCLibrary ------------------------------
(* Small instances of Library for TLC.                                     *)
EXTENDS Library

\* All directories look alike.
Alike == [d \in Dirs |-> "alike"]

\* The title the lookup knows, with its year.
Known == {[title |-> "Lain", year |-> 1998]}
=============================================================================
