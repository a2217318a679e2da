-------------------------------- MODULE Nodes --------------------------------
(***************************************************************************)
(* The Nodes contract (contracts/src/Nodes.sol): an ERC721 token per node, *)
(* minted by the owner of the contract, with the signing key, the HTTP     *)
(* address and the health of the node.  A call that the contract reverts   *)
(* changes nothing, so it is no step of the model.                         *)
(*                                                                         *)
(* ERC721 and Ownable are libraries: their state and the calls the         *)
(* contract inherits unchanged are modelled from how it relies on them.    *)
(***************************************************************************)
EXTENDS Integers, Sequences

CONSTANTS
  Account,    \* addresses that send transactions
  NoOne,      \* the zero address
  Key,        \* contents of signingKeyPub
  Address,    \* contents of httpAddress
  NoBytes,    \* the empty bytes or string of storage never written
  MaxUint16   \* largest uint16 (65535 in the code)

ASSUME NodesAssumption ==
  /\ MaxUint16 \in Nat
  /\ NoOne \notin Account
  /\ NoBytes \notin Key \cup Address

VARIABLES
  nodeIdCounter,  \* _nodeIdCounter
  nodes,          \* _nodes
  owner,          \* Ownable: the owner of the contract
  tokenOwner,     \* ERC721: the owner of each token
  approved,       \* ERC721: the account approved for each token
  operators       \* ERC721: pairs <<holder, operator>> of setApprovalForAll

vars == <<nodeIdCounter, nodes, owner, tokenOwner, approved, operators>>

uint16  == 0 .. MaxUint16
NoNode  == [signingKeyPub |-> NoBytes, httpAddress |-> NoBytes, isHealthy |-> FALSE]
Node    == [signingKeyPub : Key, httpAddress : Address, isHealthy : BOOLEAN]

nodeExists(i) == tokenOwner[i] # NoOne

Init ==
  /\ nodeIdCounter = 0
  /\ nodes = [i \in uint16 |-> NoNode]
  /\ owner \in Account
  /\ tokenOwner = [i \in uint16 |-> NoOne]
  /\ approved = [i \in uint16 |-> NoOne]
  /\ operators = {}

-----------------------------------------------------------------------------
(* Transactions *)

\* Mutant: the ID is taken after the counter has moved.
addNodeCountsFirst(sender, to, key, address) ==
  LET nodeId == nodeIdCounter + 1 IN
  /\ sender = owner
  /\ nodeIdCounter < MaxUint16
  /\ tokenOwner' = [tokenOwner EXCEPT ![nodeId] = to]
  /\ nodes' = [nodes EXCEPT ![nodeId] =
                 [signingKeyPub |-> key, httpAddress |-> address, isHealthy |-> TRUE]]
  /\ nodeIdCounter' = nodeIdCounter + 1
  /\ UNCHANGED <<owner, approved, operators>>

\* The counter is checked arithmetic: the call that would carry it past its width
\* is reverted as a whole, and so is one that mints an existing token.
addNode(sender, to, key, address) ==
  LET nodeId == nodeIdCounter IN
  /\ sender = owner
  /\ ~nodeExists(nodeId)
  /\ nodeIdCounter < MaxUint16
  /\ tokenOwner' = [tokenOwner EXCEPT ![nodeId] = to]
  /\ nodes' = [nodes EXCEPT ![nodeId] =
                 [signingKeyPub |-> key, httpAddress |-> address, isHealthy |-> TRUE]]
  /\ nodeIdCounter' = nodeIdCounter + 1
  /\ UNCHANGED <<owner, approved, operators>>

updateHttpAddress(sender, i, address) ==
  /\ nodeExists(i) /\ sender = tokenOwner[i]
  /\ nodes' = [nodes EXCEPT ![i].httpAddress = address]
  /\ UNCHANGED <<nodeIdCounter, owner, tokenOwner, approved, operators>>

updateHealth(sender, i, isHealthy) ==
  /\ sender = owner
  /\ nodeExists(i)
  /\ nodes' = [nodes EXCEPT ![i].isHealthy = isHealthy]
  /\ UNCHANGED <<nodeIdCounter, owner, tokenOwner, approved, operators>>

Authorized(sender, i) ==
  \/ sender = tokenOwner[i]
  \/ sender = approved[i]
  \/ <<tokenOwner[i], sender>> \in operators

\* The override asks for the owner of the contract; ERC721 then asks that it may
\* move the token, clears the approval and refuses the zero address.
transferFrom(sender, to, i) ==
  /\ sender = owner
  /\ nodeExists(i) /\ Authorized(sender, i)
  /\ tokenOwner' = [tokenOwner EXCEPT ![i] = to]
  /\ approved' = [approved EXCEPT ![i] = NoOne]
  /\ UNCHANGED <<nodeIdCounter, nodes, owner, operators>>

approve(sender, to, i) ==
  /\ nodeExists(i)
  /\ sender = tokenOwner[i] \/ <<tokenOwner[i], sender>> \in operators
  /\ approved' = [approved EXCEPT ![i] = to]
  /\ UNCHANGED <<nodeIdCounter, nodes, owner, tokenOwner, operators>>

setApprovalForAll(sender, operator) ==
  /\ \/ operators' = operators \cup {<<sender, operator>>}
     \/ operators' = operators \ {<<sender, operator>>}
  /\ UNCHANGED <<nodeIdCounter, nodes, owner, tokenOwner, approved>>

\* transferOwnership, and renounceOwnership to NoOne.
transferOwnership(sender, to) ==
  /\ sender = owner
  /\ owner' = to
  /\ UNCHANGED <<nodeIdCounter, nodes, tokenOwner, approved, operators>>

Next ==
  \E sender \in Account :
    \/ \E to \in Account, key \in Key, address \in Address :
         addNode(sender, to, key, address)
    \/ \E i \in uint16, address \in Address : updateHttpAddress(sender, i, address)
    \/ \E i \in uint16, isHealthy \in BOOLEAN : updateHealth(sender, i, isHealthy)
    \/ \E i \in uint16, to \in Account : transferFrom(sender, to, i)
    \/ \E i \in uint16, to \in Account \cup {NoOne} : approve(sender, to, i)
    \/ \E operator \in Account : setApprovalForAll(sender, operator)
    \/ \E to \in Account \cup {NoOne} : transferOwnership(sender, to)

Spec == Init /\ [][Next]_vars

-----------------------------------------------------------------------------
(* Views *)

\* Mutant: the list stops before the newest node.
allNodesButLast == [n \in 1 .. nodeIdCounter - 1 |-> nodes[n - 1]]

\* The array of all nodes, node ID n - 1 at place n.
allNodes == [n \in 1 .. nodeIdCounter |-> nodes[n - 1]]

\* IDs of the array of healthy nodes.
healthyNodes == {i \in 0 .. nodeIdCounter - 1 : nodeExists(i) /\ nodes[i].isHealthy}

-----------------------------------------------------------------------------
(* Properties *)

\* Type invariant of the contract and of the library state it uses.
TypeOK ==
  /\ nodeIdCounter \in uint16
  /\ nodes \in [uint16 -> Node \cup {NoNode}]
  /\ owner \in Account \cup {NoOne}
  /\ tokenOwner \in [uint16 -> Account \cup {NoOne}]
  /\ approved \in [uint16 -> Account \cup {NoOne}]
  /\ operators \subseteq Account \X Account

\* A node is listed by allNodes (Nodes.sol:135) exactly when its token exists and its
\* data was written, whatever was transferred, approved or renounced in between: so
\* getNode answers for every listed ID, the next addNode never meets an existing
\* token, and healthyNodes leaves out no healthy node for want of one.
TokensAreNodes ==
  /\ \A i \in uint16 : /\ nodeExists(i) <=> i < nodeIdCounter
                       /\ nodes[i] \in Node <=> i < nodeIdCounter
  /\ healthyNodes = {i \in 0 .. nodeIdCounter - 1 : allNodes[i + 1].isHealthy}

NodeListImpl == INSTANCE NodeList WITH list <- allNodes, MaxNodes <- MaxUint16

\* Seen through allNodes, the contract is a list that grows at its end only and
\* never changes the signing key of an ID, up to the limit of the uint16 counter.
ImplementsNodeList == NodeListImpl!Spec

=============================================================================
