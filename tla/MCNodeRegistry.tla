--------------------------- MODULE MCNodeRegistry ---------------------------
(* Small instances of NodeRegistry for TLC. *)
EXTENDS NodeRegistry

CONSTANTS k1, kbad, h1, l1

OneListener == {l1}
AnyKey      == {k1, kbad}
GoodKey     == {k1}
GoodAddress == {h1}

=============================================================================
