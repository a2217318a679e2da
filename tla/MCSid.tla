-------------------------------- MODULE MCSid --------------------------------
(***************************************************************************)
(* A small instance of Sid for TLC, and pkg/utils/sid.go once more with    *)
(* operations on bits.                                                     *)
(***************************************************************************)
EXTENDS Sid, Bitwise

nodeIDBits  == 2
localIDBits == 2
localIDMask == 2 ^ localIDBits - 1

SpanOfNodes == 2 ^ nodeIDBits
SpanOfLocal == 2 ^ localIDBits

\* The arithmetic of Sid is what the shifts and masks of sid.go:23 compute, for every
\* ID that a node has issued.
AgreesWithBits ==
  \A r \in issued :
    /\ shiftR(r.local, localIDBits) = 0
    /\ r.sid = (r.node * 2 ^ localIDBits) | r.local
    /\ NodeID(r.sid) = shiftR(r.sid, localIDBits)
    /\ SequenceID(r.sid) = r.sid & localIDMask

=============================================================================
