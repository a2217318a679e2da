---------------------------- MODULE NodeDirectory ----------------------------
(***************************************************************************)
(* What a NodeRegistry promises about identities, with no refresh loop, no *)
(* listeners and no endpoint: its directory is always a prefix of the      *)
(* nodes registered so far, and only gets longer.  The key of an ID is     *)
(* therefore the same in every directory, at any time, in any process.     *)
(* NodeRegistry is shown to implement this specification, and Registrant   *)
(* relies on nothing else.                                                 *)
(***************************************************************************)
EXTENDS Integers, Sequences

CONSTANTS
  SigningKey,  \* public keys, and the nil of a key that cannot be parsed
  MaxNodes

VARIABLES
  registered,  \* keys of the nodes, in the order of their IDs
  directory    \* the keys a process knows of

vars == <<registered, directory>>

\* The directories that may be read when r is registered.
Prefixes(r) == {SubSeq(r, 1, n) : n \in 0 .. Len(r)}

Init == registered = <<>> /\ directory = <<>>

Register ==
  /\ Len(registered) < MaxNodes
  /\ \E k \in SigningKey : registered' = Append(registered, k)
  /\ UNCHANGED directory

Refresh ==
  /\ \E d \in Prefixes(registered) : Len(directory) <= Len(d) /\ directory' = d
  /\ UNCHANGED registered

Next == Register \/ Refresh

Spec == Init /\ [][Next]_vars

-----------------------------------------------------------------------------
(* Properties *)

\* What a reader of the directory may rely on: the key it finds under an ID is the one
\* registered there, and the one it will find there ever after.
Promise ==
  /\ []\A n \in DOMAIN directory : n \in DOMAIN registered /\ directory[n] = registered[n]
  /\ [][\A n \in DOMAIN directory : n \in DOMAIN directory' /\ directory'[n] = directory[n]]_vars

=============================================================================
