------------------------------ MODULE MCSchema ------------------------------
(* Small instances of Schema for TLC.                                      *)
EXTENDS Schema
=============================================================================
