--------------------------------- MODULE Sid ---------------------------------
(***************************************************************************)
(* Sequence IDs (pkg/utils/sid.go) as nodes issue them: the sid method of  *)
(* Registrant packs the ID of the node and the serial number of the staged *)
(* row into one uint64, or fails when the serial number no longer fits.    *)
(*                                                                         *)
(* Shifts and masks are written as multiplication, division and remainder, *)
(* and the "or" of two ranges of bits that do not overlap as a sum; MCSid  *)
(* compares them with operations on bits.                                  *)
(***************************************************************************)
EXTENDS Integers

CONSTANTS
  NodeSpan,   \* 2 ^ nodeIDBits  (2 ^ 16 in the code)
  LocalSpan,  \* 2 ^ localIDBits (2 ^ 48 in the code)
  Node,       \* the nodes that issue IDs
  MaxLocal    \* bound of the model: serial numbers drawn

ASSUME SidAssumption ==
  /\ NodeSpan \in Nat \ {0} /\ LocalSpan \in Nat \ {0}
  /\ Node \subseteq 0 .. NodeSpan - 1
  /\ MaxLocal \in Nat

VARIABLES
  serial,  \* last serial number drawn by each node
  issued   \* the IDs handed out: node, local ID and SID

vars == <<serial, issued>>

-----------------------------------------------------------------------------
IsValidSequenceID(localID) == localID > 0 /\ localID \div LocalSpan = 0

NodeID(sid) == (sid \div LocalSpan) % NodeSpan

SequenceID(sid) == sid % LocalSpan

\* Mutant: the node ID is shifted by one bit too few.
SIDShifted(nodeID, localID) == nodeID * (LocalSpan \div 2) + localID

SID(nodeID, localID) == nodeID * LocalSpan + localID

-----------------------------------------------------------------------------
Init == serial = [n \in Node |-> 0] /\ issued = {}

\* A row is staged and signed; serial numbers may have gaps.  A number that is not
\* valid is an error, and so is every later one.
sid(n) ==
  \E localID \in serial[n] + 1 .. MaxLocal :
    /\ serial' = [serial EXCEPT ![n] = localID]
    /\ issued' = IF IsValidSequenceID(localID)
                 THEN issued \cup {[node |-> n, local |-> localID, sid |-> SID(n, localID)]}
                 ELSE issued

Next == \E n \in Node : sid(n)

Spec == Init /\ [][Next]_vars

-----------------------------------------------------------------------------
(* Properties *)

\* Type invariant of the serial numbers and the IDs issued.
TypeOK ==
  /\ serial \in [Node -> Nat]
  /\ issued \subseteq [node : Node, local : Nat, sid : Nat]

\* An SID is a uint64 that gives back the node and the sequence ID it was made of
\* (sid.go:27): so no two nodes issue the same one, up to the last ID of each node.
SidIdentifies ==
  \A r \in issued : /\ r.sid < NodeSpan * LocalSpan
                    /\ NodeID(r.sid) = r.node
                    /\ SequenceID(r.sid) = r.local

\* SIDs of one node are in the order of its serial numbers, and those of two nodes in
\* the order of the nodes: no node runs into the range of the next one.
SidsInOrder ==
  \A r, q \in issued : r.sid < q.sid <=>
    r.node < q.node \/ (r.node = q.node /\ r.local < q.local)

-----------------------------------------------------------------------------
\* The inductive invariant behind both: what the issued IDs are made of.
IInv ==
  /\ TypeOK
  /\ \A r \in issued : /\ 0 < r.local /\ r.local < LocalSpan
                       /\ r.sid = SID(r.node, r.local)

=============================================================================
