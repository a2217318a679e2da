------------------------------ MODULE NodesProofs ------------------------------
(***************************************************************************)
(* Theorems about the contract that lists the nodes (Nodes), about the     *)
(* sequence IDs that the nodes it lists issue (Sid, instantiated with the  *)
(* node IDs of the contract), and about the goroutines that start and stop *)
(* the server of one node (ServerLifecycle).                               *)
(***************************************************************************)
EXTENDS Nodes, TLAPS

\* The prover of every leaf that names no other, and its time limit in seconds.
USE ZenonT(60)

(* Parameters of Sid, beside the node IDs. *)
CONSTANTS LocalSpan, MaxLocal
VARIABLES serial, issued

Ids == INSTANCE Sid WITH NodeSpan <- MaxUint16 + 1, Node <- uint16

(* Parameters of ServerLifecycle. *)
CONSTANTS OwnNodeListed, Failures, MaxPings
VARIABLES mainPc, bodyPc, grpcPc, process, ctx, pings, listener, grpcListener, sigC, termC, doneC

Server == INSTANCE ServerLifecycle

-----------------------------------------------------------------------------
(* The contract *)

\* The first half of TokensAreNodes, inductive together with TypeOK.
TokenInv == \A i \in uint16 : /\ nodeExists(i) <=> i < nodeIdCounter
                              /\ nodes[i] \in Node <=> i < nodeIdCounter

\* The counter, and what is known of an ID that has been given out.
LEMMA CounterFacts ==
  ASSUME TypeOK
  PROVE  /\ MaxUint16 \in Nat /\ nodeIdCounter \in Nat /\ nodeIdCounter <= MaxUint16
         /\ uint16 \subseteq Nat /\ \A i \in Nat : i < nodeIdCounter => i \in uint16
BY SMTT(60), NodesAssumption DEF TypeOK, uint16

\* An entry of storage that was never written is not a node.
LEMMA NoNodeIsNone == NoNode \notin Node
BY NodesAssumption DEF NoNode, Node

\* healthyNodes agrees with allNodes when the tokens are those of the listed nodes.
LEMMA HealthyFacts ==
  ASSUME TypeOK, TokenInv
  PROVE  healthyNodes = {i \in 0 .. nodeIdCounter - 1 : allNodes[i + 1].isHealthy}
<1>1. \A i \in 0 .. nodeIdCounter - 1 :
        /\ i \in uint16 /\ i < nodeIdCounter
        /\ i + 1 \in 1 .. nodeIdCounter /\ (i + 1) - 1 = i
  BY SMTT(60), CounterFacts
<1>2. \A i \in 0 .. nodeIdCounter - 1 : allNodes[i + 1] = nodes[i]
  BY <1>1 DEF allNodes
<1> QED
  BY <1>1, <1>2 DEF healthyNodes, TokenInv

\* The tokens, the entries and the counter agree before the first transaction
\* (Nodes.sol:15-36).
LEMMA InitInv == Init => TypeOK /\ TokenInv
<1> SUFFICES ASSUME Init PROVE TypeOK /\ TokenInv
  OBVIOUS
<1>1. TypeOK
  BY SMTT(60), NodesAssumption DEF Init, TypeOK, uint16
<1>2. TokenInv
  BY SMTT(60), NodesAssumption, NoNodeIsNone DEF Init, TokenInv, nodeExists, uint16
<1> QED
  BY <1>1, <1>2

\* Every transaction keeps it, transfers and approvals of tokens included.
LEMMA NodeStep ==
  ASSUME TypeOK, TokenInv, [Next]_vars
  PROVE  TypeOK' /\ TokenInv'
<1>1. CASE UNCHANGED vars
  BY <1>1 DEF vars, TypeOK, TokenInv, nodeExists
<1>2. ASSUME NEW sender \in Account, NEW to \in Account, NEW key \in Key, NEW address \in Address,
             addNode(sender, to, key, address)
      PROVE  TypeOK' /\ TokenInv'
  <2> DEFINE e == [signingKeyPub |-> key, httpAddress |-> address, isHealthy |-> TRUE]
  <2>1. /\ nodeIdCounter \in uint16 /\ nodeIdCounter + 1 \in uint16 /\ e \in Node /\ to # NoOne
        /\ nodeIdCounter' = nodeIdCounter + 1
    BY SMTT(60), <1>2, NodesAssumption DEF addNode, TypeOK, uint16, Node
  <2>2. /\ tokenOwner' = [tokenOwner EXCEPT ![nodeIdCounter] = to]
        /\ nodes' = [nodes EXCEPT ![nodeIdCounter] = e]
    BY <1>2 DEF addNode
  <2> HIDE DEF e
  <2>3. TypeOK'
    BY <1>2, <2>1, <2>2 DEF addNode, TypeOK
  <2>4. TokenInv'
    <3> SUFFICES ASSUME NEW i \in uint16
                 PROVE  /\ tokenOwner'[i] # NoOne <=> i < nodeIdCounter'
                        /\ nodes'[i] \in Node <=> i < nodeIdCounter'
      BY DEF TokenInv, nodeExists
    <3>1. i \in Nat /\ nodeIdCounter \in Nat
      BY CounterFacts
    <3>2. CASE i = nodeIdCounter
      BY SMTT(60), <2>1, <2>2, <3>1, <3>2 DEF TypeOK
    <3>3. CASE i # nodeIdCounter
      <4>1. tokenOwner'[i] = tokenOwner[i] /\ nodes'[i] = nodes[i]
        BY <2>2, <3>3 DEF TypeOK
      <4> QED
        BY SMTT(60), <2>1, <3>1, <3>3, <4>1 DEF TokenInv, nodeExists
    <3> QED
      BY <3>2, <3>3
  <2> QED
    BY <2>3, <2>4
<1>3. ASSUME NEW i \in uint16, NEW x \in Node, nodeExists(i), nodes' = [nodes EXCEPT ![i] = x],
             UNCHANGED <<nodeIdCounter, owner, tokenOwner, approved, operators>>
      PROVE  TypeOK' /\ TokenInv'
  <2>1. TypeOK'
    BY <1>3 DEF TypeOK
  <2>2. i < nodeIdCounter /\ \A j \in uint16 : nodes'[j] = IF j = i THEN x ELSE nodes[j]
    BY <1>3 DEF TypeOK, TokenInv
  <2> QED
    BY <1>3, <2>1, <2>2 DEF TokenInv, nodeExists
<1>4. ASSUME NEW sender \in Account, NEW i \in uint16, NEW address \in Address,
             updateHttpAddress(sender, i, address)
      PROVE  TypeOK' /\ TokenInv'
  <2>1. nodeExists(i) /\ nodes[i] \in Node
    BY <1>4 DEF updateHttpAddress, TokenInv
  <2>2. [nodes[i] EXCEPT !.httpAddress = address] \in Node
    BY <2>1 DEF Node
  <2>3. nodes' = [nodes EXCEPT ![i] = [nodes[i] EXCEPT !.httpAddress = address]]
    BY <1>4 DEF updateHttpAddress
  <2> QED
    BY <1>3, <1>4, <2>1, <2>2, <2>3 DEF updateHttpAddress
<1>5. ASSUME NEW sender \in Account, NEW i \in uint16, NEW isHealthy \in BOOLEAN,
             updateHealth(sender, i, isHealthy)
      PROVE  TypeOK' /\ TokenInv'
  <2>1. nodeExists(i) /\ nodes[i] \in Node
    BY <1>5 DEF updateHealth, TokenInv
  <2>2. [nodes[i] EXCEPT !.isHealthy = isHealthy] \in Node
    BY <2>1, ZenonT(60) DEF Node
  <2>3. nodes' = [nodes EXCEPT ![i] = [nodes[i] EXCEPT !.isHealthy = isHealthy]]
    BY <1>5 DEF updateHealth
  <2> QED
    BY <1>3, <1>5, <2>1, <2>2, <2>3 DEF updateHealth
<1>6. ASSUME NEW sender \in Account, NEW i \in uint16, NEW to \in Account, transferFrom(sender, to, i)
      PROVE  TypeOK' /\ TokenInv'
  <2>1. TypeOK'
    BY <1>6 DEF transferFrom, TypeOK
  <2>2. \A j \in uint16 : tokenOwner'[j] # NoOne <=> tokenOwner[j] # NoOne
    BY <1>6, NodesAssumption DEF transferFrom, TypeOK, nodeExists
  <2> QED
    BY <1>6, <2>1, <2>2 DEF transferFrom, TokenInv, nodeExists
<1>7. ASSUME NEW sender \in Account, NEW i \in uint16, NEW to \in Account \cup {NoOne},
             approve(sender, to, i)
      PROVE  TypeOK' /\ TokenInv'
  BY <1>7 DEF approve, TypeOK, TokenInv, nodeExists
<1>8. ASSUME NEW sender \in Account, NEW operator \in Account, setApprovalForAll(sender, operator)
      PROVE  TypeOK' /\ TokenInv'
  BY SMTT(60), <1>8 DEF setApprovalForAll, TypeOK, TokenInv, nodeExists
<1>9. ASSUME NEW sender \in Account, NEW to \in Account \cup {NoOne}, transferOwnership(sender, to)
      PROVE  TypeOK' /\ TokenInv'
  BY <1>9 DEF transferOwnership, TypeOK, TokenInv, nodeExists
<1> QED
  BY <1>1, <1>2, <1>4, <1>5, <1>6, <1>7, <1>8, <1>9 DEF Next

\* The inductive invariant: an ID has a token and an entry exactly when it is below the
\* counter that addNode increments (Nodes.sol:41-53).
THEOREM InductiveInvariant == Spec => [](TypeOK /\ TokenInv)
BY InitInv, NodeStep, PTL DEF Spec

\* The counter stays a uint16 and every entry a node or unwritten (Nodes.sol:17-36).
THEOREM TypeCorrect == Spec => []TypeOK
BY InductiveInvariant, PTL

\* Listed, owned and written are the same thing for every ID (Nodes.sol:103-160).
THEOREM TokensMatchNodes == Spec => []TokensAreNodes
<1>1. TypeOK /\ TokenInv => TokensAreNodes
  BY HealthyFacts DEF TokensAreNodes, TokenInv
<1> QED
  BY <1>1, InductiveInvariant, PTL

-----------------------------------------------------------------------------
(* The contract as a list *)

\* The array of the entries 0 .. c - 1 of a mapping f.
LEMMA ArrayFacts ==
  ASSUME NEW c \in Nat, NEW f, \A n \in 1 .. c : f[n - 1] \in Node,
         NEW s, s = [n \in 1 .. c |-> f[n - 1]]
  PROVE  /\ s \in Seq(Node) /\ Len(s) = c /\ DOMAIN s = 1 .. c
         /\ \A n \in 1 .. c : s[n] = f[n - 1]
<1>1. s \in [1 .. c -> Node]
  OBVIOUS
<1> QED
  BY SMTT(60), <1>1

\* What allNodes returns, entry by entry.
LEMMA AllNodesFacts ==
  ASSUME TypeOK, TokenInv
  PROVE  /\ allNodes \in Seq(Node) /\ Len(allNodes) = nodeIdCounter
         /\ DOMAIN allNodes = 1 .. nodeIdCounter
         /\ \A n \in 1 .. nodeIdCounter : allNodes[n] = nodes[n - 1]
<1>1. \A n \in 1 .. nodeIdCounter : n - 1 \in uint16 /\ n - 1 < nodeIdCounter
  BY SMTT(60), CounterFacts
<1>2. \A n \in 1 .. nodeIdCounter : nodes[n - 1] \in Node
  BY <1>1 DEF TokenInv
<1> QED
  BY SMTT(60), <1>2, CounterFacts, ArrayFacts DEF allNodes

\* An ID that exists is a place of the list.
LEMMA ListedPlace ==
  ASSUME TypeOK, TokenInv, NEW i \in uint16, nodeExists(i)
  PROVE  i + 1 \in 1 .. nodeIdCounter /\ (i + 1) - 1 = i
BY SMTT(60), CounterFacts DEF TokenInv

\* A transaction that writes the entry of one node changes that place of the list.
LEMMA EntryStep ==
  ASSUME TypeOK, TokenInv, TypeOK', TokenInv', NEW i \in uint16, nodeExists(i), NEW x \in Node,
         nodes' = [nodes EXCEPT ![i] = x], nodeIdCounter' = nodeIdCounter
  PROVE  allNodes' = [allNodes EXCEPT ![i + 1] = x]
<1>1. allNodes' = [n \in 1 .. nodeIdCounter |-> nodes'[n - 1]]
  BY DEF allNodes
<1>2. allNodes = [n \in 1 .. nodeIdCounter |-> nodes[n - 1]]
  BY DEF allNodes
<1>3. ASSUME NEW n \in 1 .. nodeIdCounter
      PROVE  nodes'[n - 1] = IF n = i + 1 THEN x ELSE nodes[n - 1]
  <2>1. n - 1 \in uint16 /\ i \in Nat /\ n \in Nat
    BY SMTT(60), CounterFacts
  <2>2. nodes'[n - 1] = IF n - 1 = i THEN x ELSE nodes[n - 1]
    BY <2>1 DEF TypeOK
  <2> QED
    BY SMTT(60), <2>1, <2>2
<1> HIDE DEF allNodes
<1> QED
  BY <1>1, <1>2, <1>3

\* addNode appends, the two updates change one field of one place, and no other
\* transaction touches the list.
LEMMA ListStep ==
  ASSUME TypeOK, TokenInv, TypeOK', TokenInv', [Next]_vars
  PROVE  [NodeListImpl!Next]_allNodes
<1>1. ASSUME UNCHANGED <<nodes, nodeIdCounter>> PROVE UNCHANGED allNodes
  BY <1>1 DEF allNodes
<1>2. ASSUME NEW sender \in Account, NEW to \in Account, NEW key \in Key, NEW address \in Address,
             addNode(sender, to, key, address)
      PROVE  NodeListImpl!Add
  <2> DEFINE e == [signingKeyPub |-> key, httpAddress |-> address, isHealthy |-> TRUE]
  <2>1. /\ nodeIdCounter' = nodeIdCounter + 1 /\ nodeIdCounter < MaxUint16
        /\ nodes' = [nodes EXCEPT ![nodeIdCounter] = e]
    BY <1>2 DEF addNode
  <2> HIDE DEF e
  <2>2. /\ allNodes \in Seq(Node) /\ Len(allNodes) = nodeIdCounter /\ nodeIdCounter \in Nat
        /\ \A n \in 1 .. nodeIdCounter : allNodes[n] = nodes[n - 1]
    BY AllNodesFacts, CounterFacts
  <2>3. \A n \in 1 .. nodeIdCounter + 1 :
          nodes'[n - 1] = IF n = nodeIdCounter + 1 THEN e ELSE nodes[n - 1]
    <3> SUFFICES ASSUME NEW n \in 1 .. nodeIdCounter + 1
                 PROVE  nodes'[n - 1] = IF n = nodeIdCounter + 1 THEN e ELSE nodes[n - 1]
      OBVIOUS
    <3>1. n - 1 \in uint16 /\ n \in Nat
      BY SMTT(60), <2>1, CounterFacts DEF uint16
    <3> QED
      BY SMTT(60), <2>1, <2>2, <3>1 DEF TypeOK
  <2>4. e \in Node
    BY DEF e, Node
  <2>5. /\ allNodes' \in Seq(Node) /\ Len(allNodes') = nodeIdCounter + 1
        /\ \A n \in 1 .. nodeIdCounter + 1 : allNodes'[n] = nodes'[n - 1]
    <3>1. allNodes' = [n \in 1 .. nodeIdCounter + 1 |-> nodes'[n - 1]]
      BY <2>1 DEF allNodes
    <3>2. \A n \in 1 .. nodeIdCounter : n - 1 \in uint16 /\ n - 1 < nodeIdCounter
      BY SMTT(60), CounterFacts
    <3>3. \A n \in 1 .. nodeIdCounter : nodes[n - 1] \in Node
      BY <3>2 DEF TokenInv
    <3>4. \A n \in 1 .. nodeIdCounter + 1 : nodes'[n - 1] \in Node
      BY SMTT(60), <2>2, <2>3, <2>4, <3>3
    <3> QED
      BY SMTT(60), <2>2, <3>1, <3>4, ArrayFacts
  <2> HIDE DEF allNodes
  <2>6. allNodes' = Append(allNodes, e)
    <3>1. /\ Append(allNodes, e) \in Seq(Node) /\ Len(Append(allNodes, e)) = nodeIdCounter + 1
          /\ \A n \in 1 .. nodeIdCounter + 1 :
               Append(allNodes, e)[n] = IF n = nodeIdCounter + 1 THEN e ELSE allNodes[n]
      BY SMTT(60), <2>2, <2>4
    <3>2. \A n \in 1 .. nodeIdCounter + 1 : allNodes'[n] = Append(allNodes, e)[n]
      BY SMTT(60), <2>2, <2>5, <2>3, <3>1
    <3> QED
      BY SMTT(60), <2>2, <2>5, <3>1, <3>2
  <2> QED
    BY <2>1, <2>2, <2>6 DEF NodeListImpl!Add, e
<1>3. ASSUME NEW sender \in Account, NEW i \in uint16, NEW address \in Address,
             updateHttpAddress(sender, i, address)
      PROVE  NodeListImpl!SetAddress
  <2>1. nodeExists(i) /\ nodes[i] \in Node
    BY <1>3 DEF updateHttpAddress, TokenInv
  <2>2. i + 1 \in DOMAIN allNodes /\ allNodes[i + 1] = nodes[i]
    BY <2>1, ListedPlace, AllNodesFacts
  <2>3. [nodes[i] EXCEPT !.httpAddress = address] \in Node
    BY <2>1 DEF Node
  <2>4. /\ nodes' = [nodes EXCEPT ![i] = [nodes[i] EXCEPT !.httpAddress = address]]
        /\ nodeIdCounter' = nodeIdCounter
    BY <1>3 DEF updateHttpAddress
  <2>5. allNodes' = [allNodes EXCEPT ![i + 1] = [nodes[i] EXCEPT !.httpAddress = address]]
    BY <2>1, <2>3, <2>4, EntryStep
  <2> HIDE DEF allNodes
  <2>6. allNodes' = [allNodes EXCEPT ![i + 1].httpAddress = address]
    BY <2>2, <2>5
  <2> QED
    BY <2>2, <2>6 DEF NodeListImpl!SetAddress
<1>4. ASSUME NEW sender \in Account, NEW i \in uint16, NEW isHealthy \in BOOLEAN,
             updateHealth(sender, i, isHealthy)
      PROVE  NodeListImpl!SetHealth
  <2>1. nodeExists(i) /\ nodes[i] \in Node
    BY <1>4 DEF updateHealth, TokenInv
  <2>2. i + 1 \in DOMAIN allNodes /\ allNodes[i + 1] = nodes[i]
    BY <2>1, ListedPlace, AllNodesFacts
  <2>3. [nodes[i] EXCEPT !.isHealthy = isHealthy] \in Node
    BY <2>1, ZenonT(60) DEF Node
  <2>4. /\ nodes' = [nodes EXCEPT ![i] = [nodes[i] EXCEPT !.isHealthy = isHealthy]]
        /\ nodeIdCounter' = nodeIdCounter
    BY <1>4 DEF updateHealth
  <2>5. allNodes' = [allNodes EXCEPT ![i + 1] = [nodes[i] EXCEPT !.isHealthy = isHealthy]]
    BY <2>1, <2>3, <2>4, EntryStep
  <2> HIDE DEF allNodes
  <2>6. allNodes' = [allNodes EXCEPT ![i + 1].isHealthy = isHealthy]
    BY <2>2, <2>5
  <2> QED
    BY <2>2, <2>6 DEF NodeListImpl!SetHealth
<1>5. ASSUME NEW sender \in Account, NEW i \in uint16, NEW to \in Account,
             transferFrom(sender, to, i)
      PROVE  UNCHANGED allNodes
  BY <1>1, <1>5 DEF transferFrom
<1>6. ASSUME NEW sender \in Account, NEW i \in uint16, NEW to \in Account \cup {NoOne},
             approve(sender, to, i)
      PROVE  UNCHANGED allNodes
  BY <1>1, <1>6 DEF approve
<1>7. ASSUME NEW sender \in Account, NEW operator \in Account, setApprovalForAll(sender, operator)
      PROVE  UNCHANGED allNodes
  BY <1>1, <1>7 DEF setApprovalForAll
<1>8. ASSUME NEW sender \in Account, NEW to \in Account \cup {NoOne}, transferOwnership(sender, to)
      PROVE  UNCHANGED allNodes
  BY <1>1, <1>8 DEF transferOwnership
<1>9. CASE UNCHANGED vars
  BY <1>1, <1>9 DEF vars
<1> HIDE DEF allNodes
<1> QED
  BY <1>2, <1>3, <1>4, <1>5, <1>6, <1>7, <1>8, <1>9 DEF Next, NodeListImpl!Next

\* For the readers of allNodes the contract is the list that NodeList specifies: it
\* grows at its end only, and the signing key of an ID never changes (Nodes.sol:41-98).
THEOREM ContractIsList == Spec => ImplementsNodeList
<1>1. Init => NodeListImpl!Init
  BY SMTT(60) DEF Init, NodeListImpl!Init, allNodes
<1>2. TypeOK /\ TokenInv /\ TypeOK' /\ TokenInv' /\ [Next]_vars => [NodeListImpl!Next]_allNodes
  BY ListStep
<1> QED
  BY <1>1, <1>2, InductiveInvariant, PTL DEF Spec, ImplementsNodeList, NodeListImpl!Spec

\* What NodeList is for holds of the contract: an ID that was handed out stays, under the
\* limit of the counter, with an entry that keeps its signing key, in whatever order
\* nodes are added, updated and transferred (Nodes.sol:41-98).
THEOREM ListKeepsPromise == Spec => NodeListImpl!Promise
<1> DEFINE Inv == TypeOK /\ TokenInv
           Listed == \A i \in DOMAIN allNodes : i <= MaxUint16 /\ allNodes[i] \in NodeListImpl!Entry
           Kept == \A i \in DOMAIN allNodes :
               i \in DOMAIN allNodes' /\ allNodes'[i].signingKeyPub = allNodes[i].signingKeyPub
<1>1. Inv => Listed
  <2> SUFFICES ASSUME Inv PROVE Listed
    OBVIOUS
  <2>1. /\ allNodes \in Seq(Node) /\ Len(allNodes) = nodeIdCounter
        /\ DOMAIN allNodes = 1 .. nodeIdCounter
    BY AllNodesFacts
  <2>2. nodeIdCounter \in Nat /\ nodeIdCounter <= MaxUint16
    BY SMTT(60), CounterFacts
  <2>3. NodeListImpl!Entry = Node
    BY DEF NodeListImpl!Entry, Node
  <2> HIDE DEF allNodes
  <2>4. \A i \in DOMAIN allNodes : i <= MaxUint16
    BY SMTT(60), <2>1, <2>2, NodesAssumption
  <2>5. \A i \in DOMAIN allNodes : allNodes[i] \in Node
    BY SMTT(60), <2>1
  <2> QED
    BY <2>3, <2>4, <2>5
<1>2. Inv /\ [NodeListImpl!Next]_allNodes => [Kept]_allNodes
  <2> SUFFICES ASSUME Inv, NodeListImpl!Next PROVE Kept
    OBVIOUS
  <2>1. /\ allNodes \in Seq(Node) /\ Len(allNodes) \in Nat /\ DOMAIN allNodes = 1 .. Len(allNodes)
        /\ \A i \in DOMAIN allNodes : allNodes[i] \in Node
    <3>1. allNodes \in Seq(Node)
      BY AllNodesFacts
    <3> HIDE DEF allNodes
    <3> QED
      BY SMTT(60), <3>1
  <2> HIDE DEF allNodes
  <2>2. CASE NodeListImpl!Add
    <3>1. PICK e \in Node : allNodes' = Append(allNodes, e)
      BY <2>2 DEF NodeListImpl!Add, Node
    <3> QED
      BY SMTT(60), <2>1, <3>1
  <2>3. CASE NodeListImpl!SetAddress
    <3>1. PICK i \in DOMAIN allNodes, a \in Address :
            allNodes' = [allNodes EXCEPT ![i].httpAddress = a]
      BY <2>3 DEF NodeListImpl!SetAddress
    <3> QED
      BY <2>1, <3>1 DEF Node
  <2>4. CASE NodeListImpl!SetHealth
    <3>1. PICK i \in DOMAIN allNodes, h \in BOOLEAN :
            allNodes' = [allNodes EXCEPT ![i].isHealthy = h]
      BY <2>4 DEF NodeListImpl!SetHealth
    <3> QED
      BY <2>1, <3>1 DEF Node
  <2> QED
    BY <2>2, <2>3, <2>4 DEF NodeListImpl!Next
<1> QED
  BY <1>1, <1>2, InductiveInvariant, ContractIsList, PTL
     DEF ImplementsNodeList, NodeListImpl!Spec, NodeListImpl!Promise

-----------------------------------------------------------------------------
(* The sequence IDs *)

\* A sequence ID that IsValidSequenceID accepts fits into its bits (sid.go:23-25).
LEMMA ValidFits ==
  ASSUME Ids!SidAssumption, NEW l \in Nat, Ids!IsValidSequenceID(l)
  PROVE  0 < l /\ l < LocalSpan
BY SMTT(60) DEF Ids!SidAssumption, Ids!IsValidSequenceID

\* The node IDs of two nodes are at least one span of sequence IDs apart (sid.go:35-37).
LEMMA SpansApart ==
  ASSUME Ids!SidAssumption, NEW m \in Nat, NEW n \in Nat, m < n
  PROVE  m * LocalSpan + LocalSpan <= n * LocalSpan
<1>1. LocalSpan \in Nat /\ n - m - 1 \in Nat
  BY SMTT(60), NodesAssumption DEF Ids!SidAssumption, uint16
<1>2. n * LocalSpan = m * LocalSpan + LocalSpan + (n - m - 1) * LocalSpan
  BY SMTT(60), <1>1
<1>3. (n - m - 1) * LocalSpan \in Nat /\ m * LocalSpan \in Nat /\ n * LocalSpan \in Nat
  BY SMTT(60), <1>1
<1> QED
  BY SMTT(60), <1>1, <1>2, <1>3

\* Packing and unpacking give back both parts (sid.go:27-37).
LEMMA RoundTrip ==
  ASSUME Ids!SidAssumption, NEW n \in uint16, NEW l \in 0 .. LocalSpan - 1
  PROVE  /\ Ids!SID(n, l) \in Nat
         /\ Ids!SID(n, l) < (MaxUint16 + 1) * LocalSpan
         /\ Ids!NodeID(Ids!SID(n, l)) = n
         /\ Ids!SequenceID(Ids!SID(n, l)) = l
<1> DEFINE s == Ids!SID(n, l)
           q == s \div LocalSpan
<1>1. LocalSpan \in Nat \ {0} /\ MaxUint16 \in Nat /\ n \in Nat /\ l \in Nat /\ n < MaxUint16 + 1
      /\ l < LocalSpan
  BY SMTT(60), NodesAssumption DEF Ids!SidAssumption, uint16
<1>2. n * LocalSpan \in Nat /\ s = n * LocalSpan + l /\ s \in Nat
  BY SMTT(60), <1>1 DEF Ids!SID
<1>3. q \in Nat /\ s % LocalSpan \in 0 .. LocalSpan - 1 /\ s = LocalSpan * q + (s % LocalSpan)
  BY SMTT(60), <1>1, <1>2
<1>4. q * LocalSpan \in Nat /\ q * LocalSpan = LocalSpan * q
  BY SMTT(60), <1>1, <1>3
<1> HIDE DEF s, q
<1>5. q = n
  <2>1. ASSUME q < n PROVE FALSE
    <3>1. q * LocalSpan + LocalSpan <= n * LocalSpan
      BY <1>1, <1>3, <2>1, SpansApart
    <3> QED
      BY SMTT(60), <1>1, <1>2, <1>3, <1>4, <3>1
  <2>2. ASSUME n < q PROVE FALSE
    <3>1. n * LocalSpan + LocalSpan <= q * LocalSpan
      BY <1>1, <1>3, <2>2, SpansApart
    <3> QED
      BY SMTT(60), <1>1, <1>2, <1>3, <1>4, <3>1
  <2> QED
    BY SMTT(60), <1>1, <1>3, <2>1, <2>2
<1>6. s % LocalSpan = l
  BY SMTT(60), <1>1, <1>2, <1>3, <1>4, <1>5
<1>7. n % (MaxUint16 + 1) = n
  BY SMTT(60), <1>1
<1>8. s < (MaxUint16 + 1) * LocalSpan
  <2>1. n * LocalSpan + LocalSpan <= (MaxUint16 + 1) * LocalSpan
    BY <1>1, SpansApart
  <2>2. (MaxUint16 + 1) * LocalSpan \in Nat
    BY SMTT(60), <1>1
  <2> QED
    BY SMTT(60), <1>1, <1>2, <2>1, <2>2
<1> USE DEF s, q
<1> QED
  BY <1>2, <1>5, <1>6, <1>7, <1>8 DEF Ids!NodeID, Ids!SequenceID

\* What a node hands out is made of its ID and a sequence ID that fits
\* (registrant.go:51-56).
LEMMA SidStep ==
  ASSUME Ids!SidAssumption, Ids!IInv, [Ids!Next]_(Ids!vars)
  PROVE  Ids!IInv'
<1>1. CASE UNCHANGED Ids!vars
  BY <1>1 DEF Ids!vars, Ids!IInv, Ids!TypeOK
<1>2. ASSUME NEW n \in uint16, Ids!sid(n) PROVE Ids!IInv'
  <2>1. PICK l \in serial[n] + 1 .. MaxLocal :
          /\ serial' = [serial EXCEPT ![n] = l]
          /\ issued' = IF Ids!IsValidSequenceID(l)
                       THEN issued \cup {[node |-> n, local |-> l, sid |-> Ids!SID(n, l)]}
                       ELSE issued
    BY <1>2 DEF Ids!sid
  <2>2. l \in Nat /\ n \in uint16 /\ serial' \in [uint16 -> Nat]
    <3>1. serial \in [uint16 -> Nat] /\ serial[n] \in Nat
      BY DEF Ids!IInv, Ids!TypeOK
    <3>2. l \in Nat
      BY SMTT(60), <3>1, NodesAssumption DEF uint16, Ids!SidAssumption
    <3> QED
      BY <2>1, <3>1, <3>2, NodesAssumption DEF uint16, Ids!SidAssumption
  <2>3. CASE ~Ids!IsValidSequenceID(l)
    BY <2>1, <2>2, <2>3 DEF Ids!IInv, Ids!TypeOK
  <2>4. CASE Ids!IsValidSequenceID(l)
    <3>1. 0 < l /\ l < LocalSpan /\ l \in 0 .. LocalSpan - 1
      BY SMTT(60), <2>2, <2>4, ValidFits, NodesAssumption DEF uint16, Ids!SidAssumption
    <3>2. Ids!SID(n, l) \in Nat
      BY <2>2, <3>1, RoundTrip
    <3> HIDE DEF Ids!SID
    <3> DEFINE r == [node |-> n, local |-> l, sid |-> Ids!SID(n, l)]
    <3>3. r \in [node : uint16, local : Nat, sid : Nat] /\ issued' = issued \cup {r}
      BY <2>1, <2>2, <2>4, <3>2
    <3> QED
      BY SMTT(60), <2>2, <3>1, <3>3 DEF Ids!IInv, Ids!TypeOK
  <2> QED
    BY <2>3, <2>4
<1> QED
  BY <1>1, <1>2 DEF Ids!Next

\* The parts of an SID are within their ranges (sid.go:12-21).
LEMMA IssuedParts ==
  ASSUME Ids!SidAssumption, Ids!IInv, NEW r \in issued
  PROVE  /\ r.node \in uint16 /\ r.local \in 0 .. LocalSpan - 1
         /\ r.sid = Ids!SID(r.node, r.local)
<1>1. r \in [node : uint16, local : Nat, sid : Nat]
  BY DEF Ids!IInv, Ids!TypeOK
<1>2. r.node \in uint16 /\ r.local \in Nat
  BY <1>1
<1>3. r.node \in uint16 /\ LocalSpan \in Nat
  BY <1>2, NodesAssumption DEF uint16, Ids!SidAssumption
<1>4. r.local < LocalSpan /\ r.sid = Ids!SID(r.node, r.local)
  BY DEF Ids!IInv
<1> QED
  BY SMTT(60), <1>2, <1>3, <1>4

\* The invariant holds of everything the nodes ever sign (registrant.go:51-56).
THEOREM SidInvariant == Ids!SidAssumption => (Ids!Spec => []Ids!IInv)
<1> SUFFICES ASSUME Ids!SidAssumption PROVE Ids!Spec => []Ids!IInv
  OBVIOUS
<1>1. Ids!Init => Ids!IInv
  BY SMTT(60) DEF Ids!Init, Ids!IInv, Ids!TypeOK
<1>2. Ids!IInv /\ [Ids!Next]_(Ids!vars) => Ids!IInv'
  BY SidStep
<1> QED
  BY <1>1, <1>2, PTL DEF Ids!Spec

\* The node ID and the sequence ID can be read back from every SID issued
\* (sid.go:27-33), so two nodes never issue the same one.
THEOREM SidsIdentify == Ids!SidAssumption => (Ids!Spec => []Ids!SidIdentifies)
<1> SUFFICES ASSUME Ids!SidAssumption PROVE Ids!Spec => []Ids!SidIdentifies
  OBVIOUS
<1>1. Ids!IInv => Ids!SidIdentifies
  <2> SUFFICES ASSUME Ids!IInv, NEW r \in issued
               PROVE  /\ r.sid < (MaxUint16 + 1) * LocalSpan
                      /\ Ids!NodeID(r.sid) = r.node /\ Ids!SequenceID(r.sid) = r.local
    BY DEF Ids!SidIdentifies
  <2>1. /\ r.node \in uint16 /\ r.local \in 0 .. LocalSpan - 1
        /\ r.sid = Ids!SID(r.node, r.local)
    BY IssuedParts
  <2> QED
    BY <2>1, RoundTrip
<1> QED
  BY <1>1, SidInvariant, PTL

\* SIDs sort by node and then by sequence ID (sid.go:3-5), up to the last ID a node has.
THEOREM SidsSort == Ids!SidAssumption => (Ids!Spec => []Ids!SidsInOrder)
<1> SUFFICES ASSUME Ids!SidAssumption PROVE Ids!Spec => []Ids!SidsInOrder
  OBVIOUS
<1>1. Ids!IInv => Ids!SidsInOrder
  <2> SUFFICES ASSUME Ids!IInv, NEW r \in issued, NEW q \in issued
               PROVE  r.sid < q.sid <=>
                        r.node < q.node \/ (r.node = q.node /\ r.local < q.local)
    BY DEF Ids!SidsInOrder
  <2>1. /\ r.node \in Nat /\ r.local \in Nat /\ r.local < LocalSpan
        /\ q.node \in Nat /\ q.local \in Nat /\ q.local < LocalSpan
        /\ r.node * LocalSpan \in Nat /\ q.node * LocalSpan \in Nat /\ LocalSpan \in Nat
        /\ r.sid = r.node * LocalSpan + r.local /\ q.sid = q.node * LocalSpan + q.local
    BY SMTT(60), IssuedParts, NodesAssumption DEF uint16, Ids!SidAssumption, Ids!SID
  <2>2. CASE r.node < q.node
    <3>1. r.node * LocalSpan + LocalSpan <= q.node * LocalSpan
      BY <2>1, <2>2, SpansApart
    <3> QED
      BY SMTT(60), <2>1, <2>2, <3>1
  <2>3. CASE q.node < r.node
    <3>1. q.node * LocalSpan + LocalSpan <= r.node * LocalSpan
      BY <2>1, <2>3, SpansApart
    <3> QED
      BY SMTT(60), <2>1, <2>3, <3>1
  <2>4. CASE r.node = q.node
    BY SMTT(60), <2>1, <2>4
  <2>5. r.node < q.node \/ q.node < r.node \/ r.node = q.node
    BY SMTT(60), <2>1
  <2> QED
    BY <2>2, <2>3, <2>4, <2>5
<1> QED
  BY <1>1, SidInvariant, PTL

-----------------------------------------------------------------------------
(* Start and stop of the server *)

\* Every step of main, of the body goroutine and of the gRPC goroutine keeps the order
\* in which the server is torn down (main.go:75-81, server.go:69-81).
LEMMA ServerStep ==
  ASSUME Server!IInv, [Server!Next]_(Server!vars)
  PROVE  Server!IInv'
<1> USE DEF Server!IInv, Server!ShutdownOrder, Server!NothingLost, Server!BodyNotified,
           Server!api
<1>1. CASE UNCHANGED Server!vars
  <2>1. UNCHANGED <<mainPc, bodyPc, grpcPc, process, ctx, listener, grpcListener, termC, doneC>>
    BY <1>1 DEF Server!vars
  <2> QED
    BY SMTT(60), <2>1
<1>2. ASSUME NEW s \in Server!Signal, process = "running", Server!Deliver(s) PROVE Server!IInv'
  BY <1>2 DEF Server!Deliver, Server!MainNotified
<1>3. ASSUME process = "running", Server!Main PROVE Server!IInv'
  <2>1. CASE Server!StartBody
    BY <1>3, <2>1 DEF Server!StartBody
  <2>2. CASE Server!Notify
    BY <1>3, <2>2 DEF Server!Notify
  <2>3. CASE Server!Select
    BY <1>3, <2>3 DEF Server!Select
  <2>4. CASE Server!Return
    BY <1>3, <2>4 DEF Server!Return
  <2> QED
    BY <1>3, <2>1, <2>2, <2>3, <2>4 DEF Server!Main
<1>4. ASSUME process = "running", Server!Fatal PROVE Server!IInv'
  BY <1>4 DEF Server!Fatal
<1>5. ASSUME process = "running", Server!Body PROVE Server!IInv'
  <2> USE DEF Server!BodyGoes
  <2>1. CASE Server!Ping
    BY <1>5, <2>1 DEF Server!Ping
  <2>2. CASE Server!PingFails \/ Server!MigrateFails \/ Server!NewRegistrantFails
             \/ Server!NewAPIServerFails
    BY <1>4, <1>5, <2>2 DEF Server!PingFails, Server!MigrateFails, Server!NewRegistrantFails,
       Server!NewAPIServerFails
  <2>3. CASE Server!Migrate
    BY <1>5, <2>3 DEF Server!Migrate
  <2>4. CASE Server!NewRegistrant
    BY <1>5, <2>4 DEF Server!NewRegistrant
  <2>5. CASE Server!NewAPIServer
    BY <1>5, <2>5 DEF Server!NewAPIServer
  <2>6. CASE Server!NotifyTerm
    BY <1>5, <2>6 DEF Server!NotifyTerm
  <2>7. CASE Server!ReceiveTerm
    BY <1>5, <2>7 DEF Server!ReceiveTerm
  <2>8. CASE Server!CloseListener
    BY <1>5, <2>8 DEF Server!CloseListener
  <2>9. CASE Server!ForgetListener
    BY <1>5, <2>9 DEF Server!ForgetListener
  <2>10. CASE Server!CloseWait
    BY <1>5, <2>10 DEF Server!CloseWait
  <2>11. CASE Server!Done
    BY <1>5, <2>11 DEF Server!Done
  <2> QED
    BY <1>5, <2>1, <2>2, <2>3, <2>4, <2>5, <2>6, <2>7, <2>8, <2>9, <2>10, <2>11 DEF Server!Body
<1>6. ASSUME process = "running", Server!ReadListener PROVE Server!IInv'
  BY <1>6 DEF Server!ReadListener, Server!GrpcGoes
<1>7. ASSUME process = "running", Server!Serve PROVE Server!IInv'
  BY <1>7 DEF Server!Serve, Server!GrpcGoes
<1>8. ASSUME process = "running", Server!AcceptFails PROVE Server!IInv'
  BY <1>8 DEF Server!AcceptFails, Server!GrpcGoes
<1> QED
  BY <1>1, <1>2, <1>3, <1>5, <1>6, <1>7, <1>8 DEF Server!Next

\* The inductive invariant: the order of the shutdown, and no signal lost on the way
\* from the handler to the goroutine that waits for it.
THEOREM ServerInvariant == Server!Spec => []Server!IInv
<1>1. Server!Init => Server!IInv
  BY DEF Server!Init, Server!IInv, Server!ShutdownOrder, Server!NothingLost, Server!BodyNotified
<1> QED
  BY <1>1, ServerStep, PTL DEF Server!Spec

\* When main returns, the listener is closed and the goroutine that served it is gone
\* (main.go:81, api/server.go:108), and a panic of that goroutine comes only when Close
\* has closed the listener (api/server.go:83, 105), whatever signals came and when.
THEOREM ExitIsClean == Server!Spec => []Server!CleanExit
<1>1. Server!IInv => Server!CleanExit
  BY DEF Server!IInv, Server!ShutdownOrder, Server!CleanExit
<1> QED
  BY <1>1, ServerInvariant, PTL

\* main, the body and the goroutine that serves never all wait for each other
\* (main.go:75-81, server.go:72, api/server.go:108), for any number of pings, whether the
\* node is listed or not and whatever fails.
THEOREM GoroutinesNeverDeadlock == Server!Spec => []Server!NoDeadlock
<1>1. Server!IInv => Server!NoDeadlock
  BY DEF Server!IInv, Server!ShutdownOrder, Server!NothingLost, Server!NoDeadlock,
     Server!SomeoneCanGo
<1> QED
  BY <1>1, ServerInvariant, PTL

\* Every step of a goroutine is one of those it had left (pgx.go:35-41, main.go:75-81,
\* server.go:69-81).
LEMMA StepsLeftStep ==
  ASSUME Server!IInv, MaxPings \in Nat, pings \in 0 .. MaxPings, Server!Next
  PROVE  \/ Server!StepsLeft' < Server!StepsLeft \/ process' # "running"
         \/ \E s \in Server!Signal : Server!Deliver(s) /\ Server!StepsLeft' = Server!StepsLeft
<1> USE DEF Server!MainLeft, Server!BodyLeft, Server!GrpcLeft
<1>1. Server!MainLeft \in Nat /\ Server!BodyLeft \in Nat /\ Server!GrpcLeft \in Nat
  BY SMTT(60) DEF Server!IInv
<1>p. MaxPings - pings \in Nat /\ pings \in Nat
  BY SMTT(60)
<1>2. ASSUME NEW s \in Server!Signal, Server!Deliver(s) PROVE Server!StepsLeft' = Server!StepsLeft
  BY <1>2 DEF Server!Deliver, Server!StepsLeft
<1>3. ASSUME Server!Main PROVE Server!StepsLeft' < Server!StepsLeft
  <2>1. CASE Server!StartBody
    BY SMTT(60), <1>1, <1>p, <2>1 DEF Server!StartBody, Server!StepsLeft, Server!IInv,
       Server!ShutdownOrder
  <2>2. CASE Server!Notify
    BY SMTT(60), <1>1, <1>p, <2>2 DEF Server!Notify, Server!StepsLeft
  <2>3. CASE Server!Select
    BY SMTT(60), <1>1, <1>p, <2>3 DEF Server!Select, Server!StepsLeft
  <2>4. CASE Server!Return
    BY SMTT(60), <1>1, <1>p, <2>4 DEF Server!Return, Server!StepsLeft
  <2> QED
    BY <1>3, <2>1, <2>2, <2>3, <2>4 DEF Server!Main
<1>4. ASSUME Server!Body PROVE Server!StepsLeft' < Server!StepsLeft \/ process' # "running"
  <2> USE DEF Server!BodyGoes
  <2>1. CASE Server!Ping
    BY SMTT(60), <1>1, <1>p, <2>1 DEF Server!Ping, Server!StepsLeft
  <2>2. CASE Server!PingFails \/ Server!MigrateFails \/ Server!NewRegistrantFails
             \/ Server!NewAPIServerFails
    BY <2>2 DEF Server!PingFails, Server!MigrateFails, Server!NewRegistrantFails,
       Server!NewAPIServerFails, Server!Fatal
  <2>3. CASE Server!Migrate
    BY SMTT(60), <1>1, <1>p, <2>3 DEF Server!Migrate, Server!StepsLeft
  <2>4. CASE Server!NewRegistrant
    BY SMTT(60), <1>1, <1>p, <2>4 DEF Server!NewRegistrant, Server!StepsLeft
  <2>5. CASE Server!NewAPIServer
    BY SMTT(60), <1>1, <1>p, <2>5 DEF Server!NewAPIServer, Server!StepsLeft, Server!IInv,
       Server!ShutdownOrder
  <2>6. CASE Server!NotifyTerm
    BY SMTT(60), <1>1, <1>p, <2>6 DEF Server!NotifyTerm, Server!StepsLeft
  <2>7. CASE Server!ReceiveTerm
    BY SMTT(60), <1>1, <1>p, <2>7 DEF Server!ReceiveTerm, Server!StepsLeft
  <2>8. CASE Server!CloseListener
    BY SMTT(60), <1>1, <1>p, <2>8 DEF Server!CloseListener, Server!StepsLeft
  <2>9. CASE Server!ForgetListener
    BY SMTT(60), <1>1, <1>p, <2>9 DEF Server!ForgetListener, Server!StepsLeft
  <2>10. CASE Server!CloseWait
    BY SMTT(60), <1>1, <1>p, <2>10 DEF Server!CloseWait, Server!StepsLeft
  <2>11. CASE Server!Done
    BY SMTT(60), <1>1, <1>p, <2>11 DEF Server!Done, Server!StepsLeft
  <2> QED
    BY <1>4, <2>1, <2>2, <2>3, <2>4, <2>5, <2>6, <2>7, <2>8, <2>9, <2>10, <2>11 DEF Server!Body
<1>5. ASSUME Server!ReadListener \/ Server!Serve \/ Server!AcceptFails
      PROVE  Server!StepsLeft' < Server!StepsLeft
  <2>1. CASE Server!ReadListener
    BY SMTT(60), <1>1, <1>p, <2>1 DEF Server!ReadListener, Server!GrpcGoes, Server!StepsLeft
  <2>2. CASE Server!Serve
    BY SMTT(60), <1>1, <1>p, <2>2 DEF Server!Serve, Server!GrpcGoes, Server!StepsLeft
  <2>3. CASE Server!AcceptFails
    BY SMTT(60), <1>1, <1>p, <2>3 DEF Server!AcceptFails, Server!GrpcGoes, Server!StepsLeft
  <2> QED
    BY <1>5, <2>1, <2>2, <2>3
<1> QED
  BY <1>2, <1>3, <1>4, <1>5 DEF Server!Next

\* main, the body and the goroutine that serves do not go round in circles: whatever
\* signals come, and for any number of pings, a step of theirs ends the process or is one
\* of the 18 + MaxPings that it can take (pgx.go:35-41, main.go:75-81, server.go:69-81).
\* Together with GoroutinesNeverDeadlock: they come to the end of the process, or to
\* WaitForShutdown.
THEOREM GoroutinesRunOut == MaxPings \in Nat => (Server!Spec => Server!StepsRunOut)
<1> SUFFICES ASSUME MaxPings \in Nat PROVE Server!Spec => Server!StepsRunOut
  OBVIOUS
<1> DEFINE Inv == Server!IInv /\ pings \in 0 .. MaxPings
<1>0. Server!Spec => []Inv
  <2>1. Server!Init => pings \in 0 .. MaxPings
    BY SMTT(60) DEF Server!Init
  <2>2. pings \in 0 .. MaxPings /\ [Server!Next]_(Server!vars) => (pings \in 0 .. MaxPings)'
    <3>1. Server!Ping /\ pings \in 0 .. MaxPings => pings' \in 0 .. MaxPings
      BY SMTT(60) DEF Server!Ping
    <3>2. [Server!Next]_(Server!vars) => Server!Ping \/ pings' = pings
      BY DEF Server!Next, Server!vars, Server!Deliver, Server!Main, Server!StartBody, Server!Notify,
         Server!Select, Server!Return, Server!Body, Server!PingFails, Server!Migrate,
         Server!MigrateFails, Server!NewRegistrant, Server!NewRegistrantFails, Server!NewAPIServer,
         Server!NewAPIServerFails, Server!NotifyTerm, Server!ReceiveTerm, Server!CloseListener,
         Server!ForgetListener, Server!CloseWait, Server!Done, Server!Fatal, Server!ReadListener,
         Server!Serve, Server!AcceptFails, Server!GrpcGoes
    <3> QED
      BY <3>1, <3>2
  <2> QED
    BY <2>1, <2>2, ServerInvariant, PTL DEF Server!Spec
<1>1. Inv => Server!StepsLeft \in 0 .. 18 + MaxPings
  <2> SUFFICES ASSUME Inv PROVE Server!StepsLeft \in 0 .. 18 + MaxPings
    OBVIOUS
  <2>1. Server!MainLeft \in 0 .. 4 /\ Server!BodyLeft \in 0 .. 11 /\ Server!GrpcLeft \in 0 .. 3
    BY SMTT(60) DEF Server!IInv, Server!MainLeft, Server!BodyLeft, Server!GrpcLeft
  <2>2. MaxPings - pings \in 0 .. MaxPings
    BY SMTT(60)
  <2> QED
    BY SMTT(60), <2>1, <2>2 DEF Server!StepsLeft
<1> DEFINE Step == \/ Server!StepsLeft' < Server!StepsLeft \/ process' # "running"
                   \/ \E s \in Server!Signal :
                        Server!Deliver(s) /\ Server!StepsLeft' = Server!StepsLeft
<1>2. Inv /\ [Server!Next]_(Server!vars) => [Step]_(Server!vars)
  BY StepsLeftStep
<1> QED
  BY <1>0, <1>1, <1>2, PTL DEF Server!Spec, Server!StepsRunOut

=============================================================================
