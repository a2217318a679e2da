---------------------------- MODULE MCRegistrant ----------------------------
(* A small instance of Registrant for TLC. *)
EXTENDS Registrant, TLC

CONSTANTS p1, p2, k1, k2

TwoProcesses == {p1, p2}
TwoKeys      == {k1, k2}
Symmetry     == Permutations(TwoProcesses) \cup Permutations(TwoKeys)

=============================================================================
