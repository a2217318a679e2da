------------------------------- MODULE NodeList -------------------------------
(***************************************************************************)
(* What the Nodes contract promises its readers: one list of nodes that    *)
(* only grows, at its end.  The node with ID i is entry i + 1 for ever and *)
(* keeps its signing key; its address and its health may change.           *)
(* Nodes is shown to implement this specification, and NodeRegistry reads  *)
(* a contract that behaves like this.                                      *)
(***************************************************************************)
EXTENDS Integers, Sequences

CONSTANTS
  Key,        \* contents of signingKeyPub
  Address,    \* contents of httpAddress
  MaxNodes    \* nodes the contract can hold

VARIABLE list

Entry == [signingKeyPub : Key, httpAddress : Address, isHealthy : BOOLEAN]

Init == list = <<>>

Add ==
  /\ Len(list) < MaxNodes
  /\ \E k \in Key, a \in Address :
       list' = Append(list, [signingKeyPub |-> k, httpAddress |-> a, isHealthy |-> TRUE])

SetAddress ==
  \E i \in DOMAIN list, a \in Address : list' = [list EXCEPT ![i].httpAddress = a]

SetHealth ==
  \E i \in DOMAIN list, h \in BOOLEAN : list' = [list EXCEPT ![i].isHealthy = h]

Next == Add \/ SetAddress \/ SetHealth

Spec == Init /\ [][Next]_list

-----------------------------------------------------------------------------
(* Properties *)

\* What a reader of the list may rely on: an ID that was handed out stays and keeps its
\* signing key, and no ID beyond the limit is.
Promise ==
  /\ []\A i \in DOMAIN list : i <= MaxNodes /\ list[i] \in Entry
  /\ [][\A i \in DOMAIN list :
          i \in DOMAIN list' /\ list'[i].signingKeyPub = list[i].signingKeyPub]_list

=============================================================================
