---------------------------- MODULE MCStartIndexer ----------------------------
(* A small instance of StartIndexer for TLC. *)
EXTENDS StartIndexer

AnyOutcome == {"ok", "retry", "drop"}

=============================================================================
