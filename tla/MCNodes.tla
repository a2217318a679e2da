------------------------------- MODULE MCNodes -------------------------------
(* A small instance of Nodes for TLC. *)
EXTENDS Nodes

CONSTANTS a1, a2, k1, k2, h1, h2

Accounts  == {a1, a2}
Keys      == {k1, k2}
Addresses == {h1, h2}

=============================================================================
