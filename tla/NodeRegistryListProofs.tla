------------------------ MODULE NodeRegistryListProofs ------------------------
(* Lemmas about NodeRegistry: the contract, the refresh loop and the list it keeps. *)
EXTENDS NodeRegistry, SequenceTheorems, TLAPS

\* The prover of every leaf that names no other, and its time limit in seconds.
USE ZenonT(60)

(* The contract *)

\* The list now is the one of the newest block.
LEMMA ListFacts ==
  ASSUME TypeOK, ChainInv
  PROVE  /\ Len(chain) \in Nat /\ Len(chain) \in DOMAIN chain /\ DOMAIN chain = 1 .. Len(chain)
         /\ list \in Seq(Contract!Entry) /\ Len(list) \in Nat /\ Len(list) <= MaxNodes
         /\ DOMAIN list = 1 .. Len(list)
         /\ \A b \in DOMAIN chain : /\ chain[b] \in Seq(Contract!Entry) /\ Len(chain[b]) \in Nat
                                    /\ DOMAIN chain[b] = 1 .. Len(chain[b])
<1>1. chain \in Seq(Seq(Contract!Entry)) /\ list = chain[Len(chain)] /\ Len(list) <= MaxNodes
  BY DEF TypeOK
<1>2. Len(chain) \in Nat /\ Len(chain) > 0 /\ DOMAIN chain = 1 .. Len(chain)
  BY SMTT(60), <1>1 DEF ChainInv
<1>3. \A b \in DOMAIN chain : chain[b] \in Seq(Contract!Entry)
  BY SMTT(60), <1>1, <1>2
<1>4. \A s \in Seq(Contract!Entry) : Len(s) \in Nat /\ DOMAIN s = 1 .. Len(s)
  BY SMTT(60)
<1>5. Len(chain) \in DOMAIN chain
  BY SMTT(60), <1>2
<1> QED
  BY <1>1, <1>2, <1>3, <1>4, <1>5

\* A transaction adds a node at the end of the list or changes no key (NodeList).
LEMMA ContractStep ==
  ASSUME list \in Seq(Contract!Entry), Len(list) <= MaxNodes, Contract!Next
  PROVE  /\ list' \in Seq(Contract!Entry) /\ Len(list') <= MaxNodes /\ Len(list) <= Len(list')
         /\ \A n \in DOMAIN list : n \in DOMAIN list' /\ list'[n].signingKeyPub = list[n].signingKeyPub
         /\ \/ DOMAIN list' = DOMAIN list
            \/ Len(list) < MaxNodes /\ \E e \in Contract!Entry : list' = Append(list, e)
<1>0. Len(list) \in Nat /\ DOMAIN list = 1 .. Len(list) /\ MaxNodes \in Nat
      /\ \A n \in DOMAIN list : list[n] \in Contract!Entry
  BY SMTT(60), RegistryAssumption
<1>1. CASE Contract!Add
  <2>1. PICK k \in Key, a \in Address :
          list' = Append(list, [signingKeyPub |-> k, httpAddress |-> a, isHealthy |-> TRUE])
    BY <1>1 DEF Contract!Add
  <2> DEFINE e == [signingKeyPub |-> k, httpAddress |-> a, isHealthy |-> TRUE]
  <2>2. e \in Contract!Entry /\ list' = Append(list, e) /\ Len(list) < MaxNodes
    BY <1>1, <2>1 DEF Contract!Add, Contract!Entry
  <2> HIDE DEF e
  <2>3. list' \in Seq(Contract!Entry) /\ Len(list') = Len(list) + 1
        /\ \A n \in 1 .. Len(list) : list'[n] = list[n]
    BY SMTT(60), <1>0, <2>2
  <2>4. \A n \in DOMAIN list : n \in DOMAIN list' /\ list'[n] = list[n]
    BY SMTT(60), <1>0, <2>3
  <2>5. Len(list') <= MaxNodes /\ Len(list) <= Len(list')
    BY SMTT(60), <1>0, <2>2, <2>3
  <2> QED
    BY <2>2, <2>3, <2>4, <2>5
<1>2. CASE Contract!SetAddress
  <2>1. PICK i \in DOMAIN list, a \in Address : list' = [list EXCEPT ![i].httpAddress = a]
    BY <1>2 DEF Contract!SetAddress
  <2> DEFINE e == [list[i] EXCEPT !.httpAddress = a]
  <2>2. e \in Contract!Entry /\ e.signingKeyPub = list[i].signingKeyPub
    BY <1>0 DEF Contract!Entry
  <2>3. list' = [list EXCEPT ![i] = e]
    BY <2>1
  <2> HIDE DEF e
  <2> QED
    BY SMTT(60), <1>0, <2>2, <2>3
<1>3. CASE Contract!SetHealth
  <2>1. PICK i \in DOMAIN list, h \in BOOLEAN : list' = [list EXCEPT ![i].isHealthy = h]
    BY <1>3 DEF Contract!SetHealth
  <2> DEFINE e == [list[i] EXCEPT !.isHealthy = h]
  <2>2. e \in Contract!Entry /\ e.signingKeyPub = list[i].signingKeyPub
    BY <1>0 DEF Contract!Entry
  <2>3. list' = [list EXCEPT ![i] = e]
    BY <2>1
  <2> HIDE DEF e
  <2> QED
    BY SMTT(60), <1>0, <2>2, <2>3
<1> QED
  BY <1>1, <1>2, <1>3 DEF Contract!Next

\* The chain only grows at its end, and a node keeps its key from block to block.
LEMMA ChainStep ==
  ASSUME TypeOK, ChainInv, [Next]_vars
  PROVE  /\ chain' \in Seq(Seq(Contract!Entry)) /\ list' = chain'[Len(chain')]
         /\ Len(chain') \in Nat /\ Len(chain') <= MaxBlock /\ Len(list') <= MaxNodes
         /\ Len(chain) <= Len(chain') /\ Len(list) <= Len(list')
         /\ \A b \in DOMAIN chain : b \in DOMAIN chain' /\ chain'[b] = chain[b]
         /\ \A n \in DOMAIN list : n \in DOMAIN list' /\ list'[n].signingKeyPub = list[n].signingKeyPub
         /\ Len(chain') > 0
         /\ \A b \in DOMAIN chain' :
              /\ Len(chain'[b]) <= Len(list')
              /\ \A n \in DOMAIN chain'[b] : chain'[b][n].signingKeyPub = list'[n].signingKeyPub
<1>t. chain \in Seq(Seq(Contract!Entry)) /\ list = chain[Len(chain)] /\ Len(chain) <= MaxBlock
      /\ Len(chain) > 0
  BY DEF TypeOK, ChainInv
<1>i. \A b \in DOMAIN chain :
        /\ Len(chain[b]) <= Len(list)
        /\ \A n \in DOMAIN chain[b] : chain[b][n].signingKeyPub = list[n].signingKeyPub
  BY DEF ChainInv
<1>1. CASE NewBlock
  <2>1. Contract!Next /\ chain' = Append(chain, list') /\ Len(chain) < MaxBlock
    BY <1>1 DEF NewBlock
  <2>2. /\ list' \in Seq(Contract!Entry) /\ Len(list') <= MaxNodes /\ Len(list) <= Len(list')
        /\ \A n \in DOMAIN list : n \in DOMAIN list' /\ list'[n].signingKeyPub = list[n].signingKeyPub
    BY <2>1, ListFacts, ContractStep
  <2>3. /\ chain' \in Seq(Seq(Contract!Entry)) /\ Len(chain') = Len(chain) + 1
        /\ DOMAIN chain' = DOMAIN chain \cup {Len(chain) + 1} /\ chain'[Len(chain) + 1] = list'
        /\ \A b \in DOMAIN chain : chain'[b] = chain[b]
    BY SMTT(60), <1>t, <2>1, <2>2
  <2>4. Len(list') \in Nat /\ MaxBlock \in Nat
    BY SMTT(60), <2>2, RegistryAssumption
  <2>5. ASSUME NEW b \in DOMAIN chain
        PROVE  /\ Len(chain[b]) <= Len(list')
               /\ \A n \in DOMAIN chain[b] : chain[b][n].signingKeyPub = list'[n].signingKeyPub
    <3>1. Len(chain[b]) \in Nat /\ Len(list) \in Nat /\ DOMAIN chain[b] = 1 .. Len(chain[b])
          /\ DOMAIN list = 1 .. Len(list)
      BY ListFacts
    <3>2. \A n \in DOMAIN chain[b] : n \in DOMAIN list
      BY SMTT(60), <1>i, <3>1
    <3> QED
      BY SMTT(60), <1>i, <2>2, <2>4, <3>1, <3>2
  <2> QED
    BY SMTT(60), <2>1, <2>2, <2>3, <2>4, <2>5, ListFacts
<1>2. CASE UNCHANGED contractVars
  BY SMTT(60), <1>t, <1>i, <1>2, ListFacts DEF contractVars
<1>3. NewBlock \/ UNCHANGED contractVars
  BY DEF Next, vars, Cancel, Tick, StopLoop, refreshData, loadFromContract, loadFails,
         processChangedNode, announceNewNodes, storeNewNodes, OnNewNodes, OnChangedNode,
         register, CancelSubscription, Receive, SendOnClosed
<1> QED
  BY <1>1, <1>2, <1>3

\* An answer of the contract is a prefix of the IDs, with the keys of today
\* (contractRegistry.go:179-192).
LEMMA AnswerFacts ==
  ASSUME TypeOK, ChainInv, NEW b \in DOMAIN chain
  PROVE  /\ Len(chain[b]) \in 0 .. Len(list)
         /\ DOMAIN fromContract(b) = 0 .. Len(chain[b]) - 1
         /\ fromContract(b) = [i \in DOMAIN fromContract(b) |-> fromContract(b)[i]]
         /\ \A i \in DOMAIN fromContract(b) :
              fromContract(b)[i].SigningKey = convertNode(list[i + 1]).SigningKey
<1>1. Len(chain[b]) \in Nat /\ Len(chain[b]) <= Len(list) /\ Len(list) \in Nat
      /\ DOMAIN chain[b] = 1 .. Len(chain[b])
      /\ \A n \in DOMAIN chain[b] : chain[b][n].signingKeyPub = list[n].signingKeyPub
  BY ListFacts DEF ChainInv
<1>2. \A i \in 0 .. Len(chain[b]) - 1 : i + 1 \in DOMAIN chain[b]
  BY SMTT(60), <1>1
<1>3. \A i \in 0 .. Len(chain[b]) - 1 :
        convertNode(chain[b][i + 1]).SigningKey = convertNode(list[i + 1]).SigningKey
  BY <1>1, <1>2 DEF convertNode
<1> QED
  BY SMTT(60), <1>1, <1>3 DEF fromContract

\* What the contract answers for a block is the same at any later time.
LEMMA AnswerStays ==
  ASSUME TypeOK, ChainInv, [Next]_vars, NEW b \in DOMAIN chain
  PROVE  fromContract(b)' = fromContract(b)
BY ChainStep DEF fromContract

\* The block of the last answer is one of the chain (contractRegistry.go:179).
LEMMA BlockStep ==
  ASSUME TypeOK, ChainInv, [Next]_vars
  PROVE  /\ block' \in 0 .. Len(chain')
         /\ loopPc' \in {"idle", "load", "diff", "store", "stopped"} => block' > 0
<1>t. block \in 0 .. Len(chain)
      /\ (loopPc \in {"idle", "load", "diff", "store", "stopped"} => block > 0)
  BY DEF TypeOK, ChainInv
<1>c. Len(chain) \in Nat /\ Len(chain') \in Nat /\ Len(chain) <= Len(chain') /\ Len(chain) > 0
  BY ListFacts, ChainStep DEF ChainInv
<1>1. CASE loadFromContract
  <2>1. block' \in 1 .. Len(chain)
    BY SMTT(60), <1>1, <1>c DEF loadFromContract
  <2> QED
    BY SMTT(60), <1>t, <1>c, <2>1
<1>2. CASE Tick \/ StopLoop \/ loadFails \/ processChangedNode \/ announceNewNodes \/ storeNewNodes
  <2>1. block' = block
    BY <1>2 DEF Tick, StopLoop, loadFails, processChangedNode, announceNewNodes, storeNewNodes
  <2>2. loopPc' \in {"idle", "load", "diff", "store", "stopped"} => block > 0
    BY <1>2, <1>t DEF Tick, StopLoop, loadFails, processChangedNode, announceNewNodes, storeNewNodes
  <2> QED
    BY SMTT(60), <1>t, <1>c, <2>1, <2>2
<1>3. CASE UNCHANGED loopVars
  BY SMTT(60), <1>t, <1>c, <1>3 DEF loopVars
<1>4. \/ loadFromContract \/ Tick \/ StopLoop \/ loadFails \/ processChangedNode
      \/ announceNewNodes \/ storeNewNodes \/ UNCHANGED loopVars
  BY DEF Next, vars, NewBlock, Cancel, refreshData, OnNewNodes, OnChangedNode, register,
         CancelSubscription, Receive, SendOnClosed
<1> QED
  BY <1>1, <1>2, <1>3, <1>4

-----------------------------------------------------------------------------
(* The list of nodes *)

\* Steps that touch neither the list nor the loop, a new block included.
LEMMA ListStays ==
  ASSUME TypeOK, ChainInv, ListInv, [Next]_vars, UNCHANGED loopVars
  PROVE  ListInv'
<1>l. UNCHANGED <<loopPc, block, nodes, answered>>
  BY DEF loopVars
<1>b. loopPc \in {"idle", "load", "diff", "store", "stopped"} => block \in DOMAIN chain
  BY SMTT(60), ListFacts DEF TypeOK, ChainInv
<1>a. answered \in [DOMAIN nodes -> DOMAIN chain]
  BY DEF ListInv
<1>2. loopPc \in {"idle", "load", "diff", "store", "stopped"} => fromContract(block)' = fromContract(block)
  <2>1. block \in DOMAIN chain => chain'[block'] = chain[block]
    BY <1>l, ChainStep
  <2> QED
    BY <1>b, <2>1 DEF fromContract
<1>3. \E n \in 0 .. Len(list') : DOMAIN nodes = 0 .. n - 1
  <2>1. PICK n \in 0 .. Len(list) : DOMAIN nodes = 0 .. n - 1
    BY DEF ListInv
  <2>2. Len(list) \in Nat /\ Len(list) <= Len(list') /\ n \in 0 .. Len(list')
    BY SMTT(60), ListFacts, ChainStep
  <2> QED
    BY <2>1, <2>2
<1>4. \A i \in DOMAIN nodes : nodes[i].SigningKey = convertNode(list'[i + 1]).SigningKey
  <2>1. PICK n \in 0 .. Len(list) : DOMAIN nodes = 0 .. n - 1
    BY DEF ListInv
  <2>2. \A i \in DOMAIN nodes : i + 1 \in DOMAIN list
    BY SMTT(60), <2>1, ListFacts
  <2> QED
    BY <2>2, ChainStep DEF ListInv, convertNode
<1>5. loopPc = "store" => changedNodes' = changedNodes
  BY <1>2, <1>l DEF changedNodes
<1>6. ListFollowsAnswers'
  <2>0. ListFollowsAnswers
    BY DEF ListInv
  <2>1. ASSUME NEW i \in DOMAIN nodes PROVE ListedAs(i, answered[i])' <=> ListedAs(i, answered[i])
    <3>1. answered[i] \in DOMAIN chain /\ answered'[i] = answered[i] /\ nodes'[i] = nodes[i]
      BY <1>a, <1>l
    <3>2. \A b \in DOMAIN chain : chain'[b] = chain[b]
      BY ChainStep
    <3>3. chain'[answered'[i]] = chain[answered[i]]
      BY SMTT(60), <3>1, <3>2
    <3> QED
      BY <3>1, <3>3 DEF ListedAs, fromContract
  <2>2. loopPc \in {"diff", "store"} => \A i \in DOMAIN nodes : ListedAs(i, block)' <=> ListedAs(i, block)
    BY <1>2, <1>l DEF ListedAs
  <2> QED
    BY <1>2, <1>l, <2>0, <2>1, <2>2 DEF ListFollowsAnswers
<1>7. answered' \in [DOMAIN nodes' -> DOMAIN chain']
  <2>1. DOMAIN chain \subseteq DOMAIN chain'
    BY ChainStep
  <2> QED
    BY <1>a, <1>l, <2>1
<1> QED
  BY <1>3, <1>4, <1>5, <1>6, <1>7, <1>l DEF ListInv

\* Ticks and calls of the contract leave the list as it was (contractRegistry.go:117-138).
LEMMA LoadStep ==
  ASSUME TypeOK, ChainInv, ListInv, Tick \/ StopLoop \/ loadFails \/ loadFromContract
  PROVE  ListInv'
<1>u. UNCHANGED <<list, chain, nodes, answered>> /\ loopPc' # "store"
  BY DEF Tick, StopLoop, loadFails, loadFromContract, contractVars
<1>0. /\ \E n \in 0 .. Len(list) : DOMAIN nodes = 0 .. n - 1
      /\ nodes = [i \in DOMAIN nodes |-> nodes[i]]
      /\ \A i \in DOMAIN nodes : nodes[i].SigningKey = convertNode(list[i + 1]).SigningKey
      /\ answered \in [DOMAIN nodes -> DOMAIN chain]
  BY DEF ListInv
<1>1. \A i \in DOMAIN nodes : ListedAs(i, answered[i])
  <2>1. loopPc \notin {"diff", "store"}
    BY DEF Tick, StopLoop, loadFails, loadFromContract
  <2> QED
    BY <2>1 DEF ListInv, ListFollowsAnswers
<1>2. \A i \in DOMAIN nodes' : ListedAs(i, answered[i])'
  BY <1>1, <1>u DEF ListedAs, fromContract
<1>3. loopPc' \in {"idle", "load", "stopped"} =>
        \A i \in DOMAIN fromContract(block)' : i \in DOMAIN nodes' /\ answered'[i] = block'
  <2> SUFFICES ASSUME loopPc' \in {"idle", "load", "stopped"}
               PROVE  \A i \in DOMAIN fromContract(block)' : i \in DOMAIN nodes' /\ answered'[i] = block'
    OBVIOUS
  <2>1. loopPc \in {"idle", "load"} /\ block' = block
    BY DEF Tick, StopLoop, loadFails, loadFromContract
  <2>2. fromContract(block)' = fromContract(block)
    BY <1>u, <2>1 DEF fromContract
  <2> QED
    BY <1>u, <2>1, <2>2 DEF ListInv, ListFollowsAnswers
<1>4. ListFollowsAnswers'
  BY <1>2, <1>3 DEF ListFollowsAnswers
<1> QED
  BY <1>0, <1>4, <1>u DEF ListInv

\* A node that changed is listed as it was answered (contractRegistry.go:166-177).
LEMMA ChangedNodeStep ==
  ASSUME TypeOK, ChainInv, ListInv, processChangedNode
  PROVE  ListInv' /\ DOMAIN nodes' = DOMAIN nodes
<1>u. UNCHANGED <<list, chain, loopPc, block, answered>> /\ loopPc = "diff"
  BY DEF processChangedNode, contractVars
<1>b. block \in DOMAIN chain
  BY SMTT(60), <1>u, ListFacts DEF TypeOK, ChainInv
<1>1. PICK i \in changedNodes : nodes' = [nodes EXCEPT ![i] = fromContract(block)[i]]
  BY DEF processChangedNode
<1>2. i \in DOMAIN fromContract(block) /\ i \in DOMAIN nodes
  BY DEF changedNodes
<1>3. /\ DOMAIN nodes' = DOMAIN nodes /\ nodes'[i] = fromContract(block)[i]
      /\ \A j \in DOMAIN nodes \ {i} : nodes'[j] = nodes[j]
      /\ nodes' = [j \in DOMAIN nodes' |-> nodes'[j]]
  BY <1>1, <1>2 DEF ListInv
<1>4. /\ \E n \in 0 .. Len(list) : DOMAIN nodes = 0 .. n - 1
      /\ \A j \in DOMAIN nodes : nodes[j].SigningKey = convertNode(list[j + 1]).SigningKey
  BY DEF ListInv
<1>a. answered \in [DOMAIN nodes -> DOMAIN chain]
  BY DEF ListInv
<1>5. \A j \in DOMAIN nodes' : nodes'[j].SigningKey = convertNode(list[j + 1]).SigningKey
  BY SMTT(60), <1>2, <1>3, <1>4, <1>b, AnswerFacts
<1>7. fromContract(block)' = fromContract(block)
  BY <1>u DEF fromContract
<1>8. ListFollowsAnswers'
  <2>1. ListedAs(i, block)'
    BY <1>2, <1>3, <1>7 DEF ListedAs
  <2>2. ASSUME NEW j \in DOMAIN nodes \ {i} PROVE ListedAs(j, answered[j])' \/ ListedAs(j, block)'
    <3>1. ListedAs(j, answered[j]) \/ ListedAs(j, block)
      BY DEF ListInv, ListFollowsAnswers
    <3>2. ListedAs(j, answered[j]) => ListedAs(j, answered[j])'
      BY <1>3, <1>u DEF ListedAs, fromContract
    <3>3. ListedAs(j, block) => ListedAs(j, block)'
      BY <1>3, <1>7 DEF ListedAs
    <3> QED
      BY <3>1, <3>2, <3>3
  <2>3. \A j \in DOMAIN nodes' : ListedAs(j, answered[j])' \/ ListedAs(j, block)'
    BY <1>3, <2>1, <2>2
  <2> QED
    BY <1>u, <2>3 DEF ListFollowsAnswers
<1> QED
  BY <1>3, <1>4, <1>5, <1>8, <1>a, <1>u DEF ListInv

\* New nodes are announced and then listed, and the refresh is over
\* (contractRegistry.go:155-164).
LEMMA NewNodesStep ==
  ASSUME TypeOK, ChainInv, ListInv, announceNewNodes \/ storeNewNodes
  PROVE  ListInv'
<1>u. UNCHANGED <<list, chain, block>> /\ loopPc \in {"diff", "store"} /\ changedNodes = {}
  BY DEF announceNewNodes, storeNewNodes, contractVars, ListInv
<1>b. block \in DOMAIN chain
  BY SMTT(60), <1>u, ListFacts DEF TypeOK, ChainInv
<1>0. /\ \E n \in 0 .. Len(list) : DOMAIN nodes = 0 .. n - 1
      /\ nodes = [i \in DOMAIN nodes |-> nodes[i]]
      /\ \A i \in DOMAIN nodes : nodes[i].SigningKey = convertNode(list[i + 1]).SigningKey
      /\ answered \in [DOMAIN nodes -> DOMAIN chain]
      /\ \A i \in DOMAIN nodes : ListedAs(i, answered[i]) \/ ListedAs(i, block)
  BY DEF ListInv, ListFollowsAnswers
<1>f. fromContract(block)' = fromContract(block)
  BY <1>u DEF fromContract
<1>1. CASE announceNewNodes /\ newNodes # {}
  <2>1. UNCHANGED <<nodes, answered>> /\ loopPc' = "store"
    BY <1>1 DEF announceNewNodes
  <2>2. changedNodes' = {}
    BY <1>f, <1>u, <2>1 DEF changedNodes
  <2>3. \A i \in DOMAIN nodes' : ListedAs(i, answered[i])' \/ ListedAs(i, block)'
    BY <1>0, <1>u, <2>1 DEF ListedAs, fromContract
  <2>4. ListFollowsAnswers'
    BY <2>1, <2>3 DEF ListFollowsAnswers
  <2> QED
    BY <1>0, <1>u, <2>1, <2>2, <2>4 DEF ListInv
<1>2. CASE ~(announceNewNodes /\ newNodes # {})
  <2>1. completed /\ loopPc' = "idle"
    BY <1>2 DEF announceNewNodes, storeNewNodes
  <2>2. /\ DOMAIN nodes' = DOMAIN nodes \cup DOMAIN fromContract(block)
        /\ \A i \in DOMAIN nodes : nodes'[i] = nodes[i]
        /\ \A i \in DOMAIN fromContract(block) \ DOMAIN nodes : nodes'[i] = fromContract(block)[i]
        /\ nodes' = [i \in DOMAIN nodes' |-> nodes'[i]]
    <3>1. CASE storeNewNodes
      BY <3>1 DEF storeNewNodes, newNodes
    <3>2. CASE announceNewNodes /\ newNodes = {}
      BY <1>0, <3>2 DEF announceNewNodes, newNodes
    <3> QED
      BY <1>2, <3>1, <3>2
  <2>3. \E n \in 0 .. Len(list) : DOMAIN nodes' = 0 .. n - 1
    <3>1. PICK n \in 0 .. Len(list) : DOMAIN nodes = 0 .. n - 1
      BY <1>0
    <3>2. PICK m \in 0 .. Len(list) : DOMAIN fromContract(block) = 0 .. m - 1
      BY <1>b, AnswerFacts
    <3>3. Len(list) \in Nat
      BY ListFacts
    <3>4. CASE n <= m
      BY SMTT(60), <2>2, <3>1, <3>2, <3>3, <3>4
    <3>5. CASE m <= n
      BY SMTT(60), <2>2, <3>1, <3>2, <3>3, <3>5
    <3> QED
      BY SMTT(60), <3>3, <3>4, <3>5
  <2>4. \A i \in DOMAIN nodes' : nodes'[i].SigningKey = convertNode(list[i + 1]).SigningKey
    BY SMTT(60), <1>0, <1>b, <2>2, AnswerFacts
  <2>5. /\ answered' \in [DOMAIN nodes' -> DOMAIN chain]
        /\ \A i \in DOMAIN fromContract(block) : answered'[i] = block
        /\ \A i \in DOMAIN nodes \ DOMAIN fromContract(block) : answered'[i] = answered[i]
    <3>1. DOMAIN nodes \cup newNodes = DOMAIN nodes'
      BY <2>2 DEF newNodes
    <3>2. answered' = [i \in DOMAIN nodes' |->
                         IF i \in DOMAIN fromContract(block) THEN block ELSE answered[i]]
      BY <2>1, <3>1 DEF completed
    <3> QED
      BY <1>0, <1>b, <2>2, <3>2
  <2>6. ASSUME NEW i \in DOMAIN nodes' PROVE ListedAs(i, answered[i])'
    <3>1. CASE i \in DOMAIN fromContract(block)
      <4>1. nodes'[i] = fromContract(block)[i]
        BY <1>u, <2>2, <3>1 DEF changedNodes
      <4>2. answered'[i] = block
        BY <2>5, <3>1
      <4> QED
        BY <1>u, <3>1, <4>1, <4>2 DEF ListedAs, fromContract
    <3>2. CASE i \notin DOMAIN fromContract(block)
      <4>1. i \in DOMAIN nodes /\ nodes'[i] = nodes[i] /\ answered'[i] = answered[i]
        BY <2>2, <2>5, <3>2
      <4>2. ListedAs(i, answered[i])
        BY <1>0, <3>2, <4>1 DEF ListedAs
      <4> QED
        BY <1>u, <4>1, <4>2 DEF ListedAs, fromContract
    <3> QED
      BY <3>1, <3>2
  <2>7. ListFollowsAnswers'
    BY <1>f, <1>u, <2>2, <2>5, <2>6 DEF ListFollowsAnswers
  <2> QED
    BY <1>u, <2>1, <2>2, <2>3, <2>4, <2>5, <2>7 DEF ListInv
<1> QED
  BY <1>1, <1>2

\* The IDs that are listed or answered are IDs.
LEMMA IDFacts ==
  ASSUME TypeOK, ChainInv, ListInv
  PROVE  /\ DOMAIN nodes \subseteq ID
         /\ block > 0 => newNodes \subseteq ID
         /\ newNodes \cap DOMAIN nodes = {}
<1>1. Len(list) \in Nat /\ Len(list) <= MaxNodes /\ MaxNodes \in Nat
  BY ListFacts, RegistryAssumption
<1>2. \A n \in 0 .. Len(list) : 0 .. n - 1 \subseteq ID
  BY SMTT(60), <1>1 DEF ID
<1>3. \E n \in 0 .. Len(list) : DOMAIN nodes = 0 .. n - 1
  BY DEF ListInv
<1>4. ASSUME block > 0 PROVE newNodes \subseteq ID
  <2>1. block \in DOMAIN chain
    BY SMTT(60), <1>4, ListFacts DEF TypeOK
  <2>2. PICK n \in 0 .. Len(list) : DOMAIN fromContract(block) = 0 .. n - 1
    BY <2>1, AnswerFacts
  <2> QED
    BY <1>2, <2>2 DEF newNodes
<1> QED
  BY <1>2, <1>3, <1>4 DEF newNodes

\* The loop and its list, step by step.
LEMMA ListStep ==
  ASSUME TypeOK, ChainInv, ListInv, [Next]_vars
  PROVE  ListInv'
<1>1. \/ Tick \/ StopLoop \/ loadFails \/ loadFromContract \/ processChangedNode
      \/ announceNewNodes \/ storeNewNodes \/ UNCHANGED loopVars
  BY DEF Next, vars, NewBlock, Cancel, refreshData, OnNewNodes, OnChangedNode, register,
         CancelSubscription, Receive, SendOnClosed
<1> QED
  BY <1>1, ListStays, LoadStep, ChangedNodeStep, NewNodesStep

-----------------------------------------------------------------------------
(* NodeRegistry implements NodeDirectory *)

\* The keys of a list of the contract, as the registry sees them.
keysOf(l) == [n \in DOMAIN l |-> convertNode(l[n]).SigningKey]

\* They are a sequence of keys that parse, and of nil.
LEMMA KeysFacts ==
  ASSUME NEW l \in Seq(Contract!Entry)
  PROVE  keysOf(l) \in Seq(ValidKey \cup {Nil}) /\ Len(keysOf(l)) = Len(l)
<1>1. Len(l) \in Nat /\ DOMAIN l = 1 .. Len(l)
  BY SMTT(60)
<1>2. \A n \in DOMAIN l : convertNode(l[n]).SigningKey \in ValidKey \cup {Nil}
  BY DEF convertNode
<1>3. keysOf(l) \in [1 .. Len(l) -> ValidKey \cup {Nil}]
  BY <1>1, <1>2 DEF keysOf
<1> QED
  BY SMTT(60), <1>1, <1>3

\* A map whose IDs are 0 .. n - 1 has size n.
LEMMA ListedIs ==
  ASSUME NEW D, NEW n \in 0 .. MaxNodes, D = 0 .. n - 1
  PROVE  (CHOOSE k \in 0 .. MaxNodes : D = 0 .. k - 1) = n
<1>1. \A k \in 0 .. MaxNodes : 0 .. k - 1 = 0 .. n - 1 => k = n
  <2> SUFFICES ASSUME NEW k \in 0 .. MaxNodes, 0 .. k - 1 = 0 .. n - 1 PROVE k = n
    OBVIOUS
  <2>1. MaxNodes \in Nat
    BY RegistryAssumption
  <2>2. \A i \in Int : i \in 0 .. k - 1 <=> i \in 0 .. n - 1
    OBVIOUS
  <2>3. (k \in 0 .. k - 1 <=> k \in 0 .. n - 1) /\ (n \in 0 .. k - 1 <=> n \in 0 .. n - 1)
    BY <2>1, <2>2
  <2> QED
    BY SMTT(60), <2>1, <2>3
<1> QED
  BY <1>1

\* A list of nodes with the keys of the contract's list is a directory.
LEMMA DirectoryFacts ==
  ASSUME NEW l \in Seq(Contract!Entry), Len(l) <= MaxNodes, NEW f, NEW n \in 0 .. Len(l),
         DOMAIN f = 0 .. n - 1,
         \A i \in DOMAIN f : f[i].SigningKey = convertNode(l[i + 1]).SigningKey
  PROVE  [k \in 1 .. n |-> f[k - 1].SigningKey] = SubSeq(keysOf(l), 1, n)
<1> DEFINE d == [k \in 1 .. n |-> f[k - 1].SigningKey]
           S == ValidKey \cup {Nil}
<1>1. Len(l) \in Nat /\ DOMAIN l = 1 .. Len(l) /\ n \in Nat
  BY SMTT(60)
<1>2. \A k \in 1 .. n : /\ k - 1 \in DOMAIN f /\ k \in DOMAIN l
                       /\ f[k - 1].SigningKey = keysOf(l)[k]
  BY SMTT(60), <1>1 DEF keysOf
<1>3. keysOf(l) \in Seq(S) /\ Len(keysOf(l)) = Len(l)
  BY KeysFacts
<1>4. \A k \in 1 .. n : d[k] = keysOf(l)[k] /\ d[k] \in S
  <2>1. \A k \in 1 .. n : d[k] = keysOf(l)[k] /\ k \in 1 .. Len(l)
    BY <1>1, <1>2
  <2>2. \A k \in 1 .. Len(l) : keysOf(l)[k] \in S
    BY SMTT(60), <1>3
  <2> QED
    BY <2>1, <2>2
<1>d. d = [k \in 1 .. n |-> d[k]]
  OBVIOUS
<1> HIDE DEF d, S
<1>5. d \in Seq(S) /\ Len(d) = n
  <2>1. d \in [1 .. n -> S]
    BY <1>4, <1>d
  <2> QED
    BY SMTT(60), <1>1, <2>1
<1>6. /\ SubSeq(keysOf(l), 1, n) \in Seq(S) /\ Len(SubSeq(keysOf(l), 1, n)) = n
      /\ \A k \in 1 .. n : SubSeq(keysOf(l), 1, n)[k] = keysOf(l)[k]
  BY SMTT(60), <1>1, <1>3
<1>7. d = SubSeq(keysOf(l), 1, n)
  BY <1>4, <1>5, <1>6, SeqEqual
<1> QED
  BY <1>7 DEF d

\* A node that is listed stays listed.
LEMMA NodesGrow ==
  ASSUME TypeOK, ChainInv, ListInv, [Next]_vars
  PROVE  DOMAIN nodes \subseteq DOMAIN nodes'
<1>1. nodes' = nodes \/ processChangedNode \/ storeNewNodes
  BY DEF Next, vars, NewBlock, Cancel, Tick, StopLoop, refreshData, loadFromContract, loadFails,
         announceNewNodes, OnNewNodes, OnChangedNode, register, CancelSubscription, Receive,
         SendOnClosed, loopVars
<1>2. processChangedNode => DOMAIN nodes' = DOMAIN nodes
  BY ChangedNodeStep
<1>3. storeNewNodes => DOMAIN nodes \subseteq DOMAIN nodes'
  BY DEF storeNewNodes
<1> QED
  BY <1>1, <1>2, <1>3

\* An unstarted registry is an empty directory.
LEMMA DirectoryInit == Init => Directory!Init
<1> DEFINE reg == [n \in DOMAIN list |-> convertNode(list[n]).SigningKey]
           dir == [n \in 1 .. listed |-> nodes[n - 1].SigningKey]
<1> SUFFICES ASSUME Init PROVE reg = <<>> /\ dir = <<>>
  BY DEF Directory!Init
<1>1. list = <<>> /\ nodes = <<>>
  BY DEF Init, Contract!Init
<1>2. reg = <<>>
  BY SMTT(60), <1>1
<1>3. listed = 0
  <2>1. DOMAIN nodes = 0 .. 0 - 1 /\ 0 \in 0 .. MaxNodes
    BY SMTT(60), <1>1, RegistryAssumption
  <2> QED
    BY <2>1, ListedIs DEF listed
<1>4. dir = <<>>
  BY SMTT(60), <1>3
<1> QED
  BY <1>2, <1>4

\* Every step of the registry is a registration, a refresh or a stutter of the directory
\* (contractRegistry.go:131-177).
LEMMA DirectoryStep ==
  ASSUME TypeOK, ChainInv, ListInv, [Next]_vars
  PROVE  [Directory!Next]_(Directory!vars)
<1> DEFINE reg == [n \in DOMAIN list |-> convertNode(list[n]).SigningKey]
           dir == [n \in 1 .. listed |-> nodes[n - 1].SigningKey]
<1>k. reg = keysOf(list) /\ reg' = keysOf(list')
  BY DEF keysOf
<1>i. ListInv'
  BY ListStep
<1>1. PICK n \in 0 .. Len(list) : DOMAIN nodes = 0 .. n - 1
  BY DEF ListInv
<1>2. PICK m \in 0 .. Len(list') : DOMAIN nodes' = 0 .. m - 1
  BY <1>i DEF ListInv
<1>3. /\ list \in Seq(Contract!Entry) /\ Len(list) \in Nat /\ Len(list) <= MaxNodes
      /\ list' \in Seq(Contract!Entry) /\ Len(list') \in Nat /\ Len(list') <= MaxNodes
      /\ MaxNodes \in Nat
  <2>1. list' = chain'[Len(chain')] /\ chain' \in Seq(Seq(Contract!Entry)) /\ Len(chain') > 0
        /\ Len(list') <= MaxNodes
    BY ChainStep
  <2>2. list' \in Seq(Contract!Entry) /\ Len(list') \in Nat
    BY SMTT(60), <2>1
  <2> QED
    BY <2>1, <2>2, ListFacts, RegistryAssumption
<1>4. listed = n /\ listed' = m
  <2>1. n \in 0 .. MaxNodes /\ m \in 0 .. MaxNodes
    BY SMTT(60), <1>3
  <2> QED
    BY <1>1, <1>2, <2>1, ListedIs DEF listed
<1>5. dir = SubSeq(reg, 1, n)
  <2>1. \A i \in DOMAIN nodes : nodes[i].SigningKey = convertNode(list[i + 1]).SigningKey
    BY DEF ListInv
  <2>2. [k \in 1 .. n |-> nodes[k - 1].SigningKey] = SubSeq(keysOf(list), 1, n)
    BY <1>1, <1>3, <2>1, DirectoryFacts
  <2> QED
    BY <1>k, <1>4, <2>2
<1>6. dir' = SubSeq(reg', 1, m)
  <2>1. \A i \in DOMAIN nodes' : nodes'[i].SigningKey = convertNode(list'[i + 1]).SigningKey
    BY <1>i DEF ListInv, convertNode
  <2>2. [k \in 1 .. m |-> nodes'[k - 1].SigningKey] = SubSeq(keysOf(list'), 1, m)
    BY <1>2, <1>3, <2>1, DirectoryFacts
  <2> QED
    BY <1>k, <1>4, <2>2
<1>7. CASE NewBlock
  <2>1. Contract!Next /\ nodes' = nodes
    BY <1>7 DEF NewBlock, loopVars
  <2>2. dir' = dir
    BY <2>1 DEF listed
  <2>3. CASE DOMAIN list' = DOMAIN list
    <3>1. \A k \in DOMAIN list : convertNode(list'[k]).SigningKey = convertNode(list[k]).SigningKey
      BY <1>3, <2>1, ContractStep DEF convertNode
    <3>2. reg' = reg
      BY <2>3, <3>1
    <3> QED
      BY <2>2, <3>2 DEF Directory!vars
  <2>4. ASSUME NEW e \in Contract!Entry, list' = Append(list, e), Len(list) < MaxNodes
        PROVE  Directory!Next
    <3> DEFINE k == convertNode(e).SigningKey
               S == ValidKey \cup {Nil}
    <3>1. k \in S
      BY DEF convertNode
    <3>2. /\ reg \in Seq(S) /\ Len(reg) = Len(list)
          /\ reg' \in Seq(S) /\ Len(reg') = Len(list')
      BY <1>k, <1>3, KeysFacts
    <3>3. /\ Len(list') = Len(list) + 1 /\ DOMAIN list' = 1 .. Len(list) + 1
          /\ DOMAIN list = 1 .. Len(list)
          /\ list'[Len(list) + 1] = e /\ \A j \in 1 .. Len(list) : list'[j] = list[j]
      BY SMTT(60), <1>3, <2>4
    <3>4. /\ reg'[Len(list) + 1] = k
          /\ \A j \in 1 .. Len(list) : reg'[j] = reg[j]
      <4>1. Len(list) + 1 \in DOMAIN list' /\ \A j \in 1 .. Len(list) : j \in DOMAIN list'
        BY SMTT(60), <1>3, <3>3
      <4> QED
        BY <3>3, <4>1
    <3> HIDE DEF reg, k, S
    <3>5. /\ Append(reg, k) \in Seq(S) /\ Len(Append(reg, k)) = Len(list) + 1
          /\ \A j \in 1 .. Len(list) + 1 : Append(reg, k)[j] = reg'[j]
      BY SMTT(60), <1>3, <3>1, <3>2, <3>4
    <3>6. reg' = Append(reg, k)
      BY <3>2, <3>3, <3>5, SeqEqual
    <3>7. Len(reg) < MaxNodes /\ \E x \in S : reg' = Append(reg, x)
      BY <2>4, <3>1, <3>2, <3>6
    <3> USE DEF reg, S
    <3> QED
      BY <2>2, <3>7 DEF Directory!Next, Directory!Register
  <2> QED
    BY <1>3, <2>1, <2>3, <2>4, ContractStep
<1>8. CASE list' = list
  <2>1. reg' = reg /\ reg \in Seq(ValidKey \cup {Nil}) /\ Len(reg) = Len(list)
    BY <1>k, <1>3, <1>8, KeysFacts
  <2>2. n <= m /\ m \in 0 .. Len(reg) /\ n \in 0 .. Len(reg)
    <3>1. n - 1 \in 0 .. n - 1 => n - 1 \in 0 .. m - 1
      BY <1>1, <1>2, NodesGrow
    <3> QED
      BY SMTT(60), <1>3, <1>8, <2>1, <3>1
  <2> HIDE DEF reg, dir
  <2>3. Len(dir) = n /\ Len(dir') = m
    BY SMTT(60), <1>5, <1>6, <2>1, <2>2
  <2>4. \E d \in {SubSeq(reg, 1, k) : k \in 0 .. Len(reg)} : Len(dir) <= Len(d) /\ dir' = d
    BY <1>6, <2>1, <2>2, <2>3
  <2> USE DEF reg, dir
  <2> QED
    BY <2>1, <2>4 DEF Directory!Next, Directory!Refresh, Directory!Prefixes
<1>9. NewBlock \/ list' = list
  BY DEF Next, vars, contractVars, Cancel, Tick, StopLoop, refreshData, loadFromContract,
         loadFails, processChangedNode, announceNewNodes, storeNewNodes, OnNewNodes,
         OnChangedNode, register, CancelSubscription, Receive, SendOnClosed
<1> QED
  BY <1>7, <1>8, <1>9

=============================================================================
