----------------------------- MODULE NodeRegistry -----------------------------
(***************************************************************************)
(* SmartContractRegistry (pkg/registry/contractRegistry.go): a goroutine   *)
(* polls the Nodes contract, diffs what it answers against the list it     *)
(* holds, updates the list and notifies listeners through notifier         *)
(* (pkg/registry/notifier.go).                                             *)
(*                                                                         *)
(* chain[b] is the list of the contract at block b.  An endpoint that is   *)
(* behind answers for an earlier block; that and a failed call are faults. *)
(* One step is one critical section: processChangedNode stores and         *)
(* triggers under its locks, processNewNodes triggers before it locks.     *)
(* The values carried by a notification are abstracted to node IDs.        *)
(***************************************************************************)
EXTENDS Integers, Sequences

CONSTANTS
  Key, Address,            \* as in NodeList
  ValidKey, ValidAddress,  \* those that parse, and that start with http(s)://
  Nil,                     \* the nil *ecdsa.PublicKey
  MaxNodes,                \* nodes the contract can hold
  Listener,                \* calls of OnNewNodes and OnChangedNode
  NewNodes, NoTopic,       \* the topic of OnNewNodes, and of a call not made yet
  MaxBlock,                \* bound of the model: blocks of the chain
  MaxFaults                \* bound of the model: calls that fail or are answered late

ASSUME RegistryAssumption ==
  /\ {MaxNodes, MaxFaults} \subseteq Nat /\ MaxBlock \in Nat \ {0}
  /\ ValidKey \subseteq Key /\ ValidAddress \subseteq Address
  /\ Nil \notin Key
  /\ NewNodes \notin 0 .. MaxNodes - 1
  /\ NoTopic \notin {NewNodes} \cup 0 .. MaxNodes - 1

VARIABLES
  list, chain,  \* list of the contract, now and at each block
  ctx,          \* "live" or "done"
  loopPc,       \* the refresh loop, and "start" and "failed" of Start
  block,        \* block the last call of the contract was answered for, 0 at first
  nodes,        \* s.nodes
  answered,     \* history: block of the last completed answer that held a listed node
  topic,        \* what each listener listens to
  status,       \* "unused", "open", "cancelled" or cancelled "again"
  channels,     \* the notifiers there are, and the listeners each knows of
  pending,      \* sending goroutines of each listener: trigger number, node IDs
  triggers,     \* number of triggers so far
  known,        \* IDs a listener of new nodes read on registering or received since
  missed,       \* IDs announced and not yet stored when the listener registered
  late,         \* history: listeners that cancelled with a goroutine on its way
  panicked,     \* a send on, or a close of, a closed channel has ended the process
  faults

contractVars == <<list, chain>>
loopVars     == <<loopPc, block, nodes, answered>>
listenerVars == <<topic, status, channels, pending, triggers, known, missed, late, panicked>>
vars         == <<contractVars, ctx, loopVars, listenerVars, faults>>

ID    == 0 .. MaxNodes - 1
Topic == ID \cup {NewNodes}

Contract == INSTANCE NodeList

Init ==
  /\ Contract!Init /\ chain = <<list>>
  /\ ctx = "live"
  /\ loopPc = "start" /\ block = 0
  /\ nodes = <<>> /\ answered = <<>>
  /\ topic = [l \in Listener |-> NoTopic] /\ status = [l \in Listener |-> "unused"]
  /\ channels = [t \in {NewNodes} |-> {}]
  /\ pending = [l \in Listener |-> {}] /\ triggers = 0
  /\ known = [l \in Listener |-> {}] /\ missed = [l \in Listener |-> {}]
  /\ late = {} /\ panicked = FALSE
  /\ faults = 0

-----------------------------------------------------------------------------
(* What the contract answers, as Go values *)

convertNode(entry) ==
  [SigningKey    |-> IF entry.signingKeyPub \in ValidKey THEN entry.signingKeyPub ELSE Nil,
   HttpAddress   |-> entry.httpAddress,
   IsHealthy     |-> entry.isHealthy,
   IsValidConfig |-> entry.signingKeyPub \in ValidKey /\ entry.httpAddress \in ValidAddress]

\* loadFromContract of what the contract held at block b.
fromContract(b) == [i \in 0 .. Len(chain[b]) - 1 |-> convertNode(chain[b][i + 1])]

\* Mutant: Equals forgets the health of the node.
changedNodesButHealth ==
  {i \in DOMAIN fromContract(block) \cap DOMAIN nodes :
     [fromContract(block)[i] EXCEPT !.IsHealthy = TRUE] # [nodes[i] EXCEPT !.IsHealthy = TRUE]}

\* The diff: two nodes are Equal when all of their fields are, two nil keys included.
changedNodes == {i \in DOMAIN fromContract(block) \cap DOMAIN nodes :
                   fromContract(block)[i] # nodes[i]}
newNodes     == DOMAIN fromContract(block) \ DOMAIN nodes

-----------------------------------------------------------------------------
(* Environment *)

NewBlock ==
  /\ Len(chain) < MaxBlock
  /\ Contract!Next /\ list' # list
  /\ chain' = Append(chain, list')
  /\ UNCHANGED <<ctx, loopVars, listenerVars, faults>>

Cancel ==
  /\ ctx = "live"
  /\ ctx' = "done"
  /\ UNCHANGED <<contractVars, loopVars, listenerVars, faults>>

-----------------------------------------------------------------------------
(* notifier *)

\* trigger: a goroutine per registered channel.
trigger(t, ids) ==
  /\ triggers' = triggers + 1
  /\ pending' = [l \in Listener |->
       IF l \in channels[t] THEN pending[l] \cup {[n |-> triggers + 1, ids |-> ids]}
                            ELSE pending[l]]
  /\ UNCHANGED <<topic, status, channels, known, missed, late, panicked>>

register(l, t) ==
  /\ status[l] = "unused"
  /\ status' = [status EXCEPT ![l] = "open"]
  /\ topic' = [topic EXCEPT ![l] = t]
  /\ UNCHANGED <<contractVars, ctx, loopVars, pending, triggers, late, panicked, faults>>

OnNewNodes(l) ==
  /\ register(l, NewNodes)
  /\ channels' = [channels EXCEPT ![NewNodes] = @ \cup {l}]
  /\ known' = [known EXCEPT ![l] = DOMAIN nodes]
  /\ missed' = [missed EXCEPT ![l] = IF loopPc = "store" THEN newNodes ELSE {}]

\* Mutant: the notifier made for the node is not put into the map.
OnChangedNodeUnstored(l, i) ==
  /\ register(l, i)
  /\ channels' = [t \in DOMAIN channels |-> channels[t] \cup (IF t = i THEN {l} ELSE {})]
  /\ UNCHANGED <<known, missed>>

\* The notifier of a node is made by the first of its listeners, and the listener is
\* registered with it before another call, or a change of the node, finds it in the map.
OnChangedNode(l, i) ==
  /\ register(l, i)
  /\ channels' = [t \in DOMAIN channels \cup {i} |->
                    (IF t \in DOMAIN channels THEN channels[t] ELSE {})
                      \cup (IF t = i THEN {l} ELSE {})]
  /\ UNCHANGED <<known, missed>>

\* Mutant: the channel is closed and stays in the notifier.
CancelSubscriptionKeeping(l) ==
  /\ \/ /\ status[l] = "open"
        /\ status' = [status EXCEPT ![l] = "cancelled"]
        /\ late' = IF pending[l] # {} THEN late \cup {l} ELSE late
        /\ UNCHANGED panicked
     \/ /\ status[l] = "cancelled"
        /\ status' = [status EXCEPT ![l] = "again"]
        /\ panicked' = TRUE
        /\ UNCHANGED late
  /\ UNCHANGED <<contractVars, ctx, loopVars, topic, channels, pending, triggers, known, missed,
                 faults>>

\* The CancelSubscription of l closes the channel and forgets it; called once more, it
\* closes a channel that is closed, which is a panic.
CancelSubscription(l) ==
  /\ \/ /\ status[l] = "open"
        /\ status' = [status EXCEPT ![l] = "cancelled"]
        /\ channels' = [channels EXCEPT ![topic[l]] = @ \ {l}]
        /\ late' = IF pending[l] # {} THEN late \cup {l} ELSE late
        /\ UNCHANGED panicked
     \/ /\ status[l] = "cancelled"
        /\ status' = [status EXCEPT ![l] = "again"]
        /\ panicked' = TRUE
        /\ UNCHANGED <<channels, late>>
  /\ UNCHANGED <<contractVars, ctx, loopVars, topic, pending, triggers, known, missed, faults>>

\* A goroutine meets its listener, in whatever order goroutines are scheduled ...
Receive(l) ==
  /\ status[l] = "open"
  /\ \E m \in pending[l] :
       /\ pending' = [pending EXCEPT ![l] = @ \ {m}]
       /\ known' = [known EXCEPT ![l] = @ \cup m.ids]
  /\ UNCHANGED <<contractVars, ctx, loopVars, topic, status, channels, triggers, missed, late,
                 panicked, faults>>

\* ... or finds the channel closed, which is a panic no one recovers from.
SendOnClosed(l) ==
  /\ status[l] = "cancelled" /\ pending[l] # {}
  /\ panicked' = TRUE
  /\ UNCHANGED <<contractVars, ctx, loopVars, topic, status, channels, pending, triggers,
                 known, missed, late, faults>>

-----------------------------------------------------------------------------
(* Start and refreshLoop *)

\* Start calls refreshData itself; the loop does at every tick.
Tick ==
  /\ loopPc = "idle"
  /\ loopPc' = "load"
  /\ UNCHANGED <<contractVars, ctx, block, nodes, answered, listenerVars, faults>>

\* Mutant: the context is looked at only before the first load.
StopLoopEarly ==
  /\ loopPc = "start" /\ ctx = "done"
  /\ loopPc' = "stopped"
  /\ UNCHANGED <<contractVars, ctx, block, nodes, answered, listenerVars, faults>>

StopLoop ==
  /\ loopPc = "idle" /\ ctx = "done"
  /\ loopPc' = "stopped"
  /\ UNCHANGED <<contractVars, ctx, block, nodes, answered, listenerVars, faults>>

\* The call of the contract is answered, for the newest block or for an earlier one.
loadFromContract ==
  /\ loopPc \in {"start", "load"}
  /\ \/ block' = Len(chain) /\ UNCHANGED faults
     \/ /\ \E b \in 1 .. Len(chain) - 1 : block' = b
        /\ faults < MaxFaults /\ faults' = faults + 1
  /\ loopPc' = "diff"
  /\ UNCHANGED <<contractVars, ctx, nodes, answered, listenerVars>>

\* The call fails or times out: Start gives up, the loop waits for the next tick.
loadFails ==
  /\ loopPc \in {"start", "load"}
  /\ \/ ctx = "done" /\ UNCHANGED faults
     \/ ctx = "live" /\ faults < MaxFaults /\ faults' = faults + 1
  /\ loopPc' = IF loopPc = "start" THEN "failed" ELSE "idle"
  /\ UNCHANGED <<contractVars, ctx, block, nodes, answered, listenerVars>>

\* Nodes are compared in the order of their IDs.
processChangedNode ==
  /\ loopPc = "diff"
  /\ \E i \in changedNodes :
       /\ \A j \in changedNodes : i <= j
       /\ nodes' = [nodes EXCEPT ![i] = fromContract(block)[i]]
       /\ IF i \in DOMAIN channels THEN trigger(i, {i}) ELSE UNCHANGED listenerVars
  /\ UNCHANGED <<contractVars, ctx, loopPc, block, answered, faults>>

\* A refresh is over: every node of its answer is listed as answered.
completed == answered' = [i \in DOMAIN nodes \cup newNodes |->
                            IF i \in DOMAIN fromContract(block) THEN block ELSE answered[i]]

\* Mutant: nodes that the answer does not hold are taken off the list.
announceAndPrune ==
  /\ loopPc = "diff" /\ changedNodes = {}
  /\ IF newNodes # {}
     THEN /\ trigger(NewNodes, newNodes)
          /\ loopPc' = "store" /\ UNCHANGED <<nodes, answered>>
     ELSE /\ loopPc' = "idle" /\ completed
          /\ nodes' = [i \in DOMAIN fromContract(block) |-> nodes[i]]
          /\ UNCHANGED listenerVars
  /\ UNCHANGED <<contractVars, ctx, block, faults>>

\* Mutant: all nodes of the answer are announced, the listed ones too.
announceAllNodes ==
  /\ loopPc = "diff" /\ changedNodes = {}
  /\ IF newNodes # {}
     THEN /\ trigger(NewNodes, DOMAIN fromContract(block))
          /\ loopPc' = "store" /\ UNCHANGED answered
     ELSE /\ loopPc' = "idle" /\ completed
          /\ UNCHANGED listenerVars
  /\ UNCHANGED <<contractVars, ctx, block, nodes, faults>>

\* refreshData has compared every node: processNewNodes notifies ...
announceNewNodes ==
  /\ loopPc = "diff" /\ changedNodes = {}
  /\ IF newNodes # {}
     THEN /\ trigger(NewNodes, newNodes)
          /\ loopPc' = "store" /\ UNCHANGED answered
     ELSE /\ loopPc' = "idle" /\ completed
          /\ UNCHANGED listenerVars
  /\ UNCHANGED <<contractVars, ctx, block, nodes, faults>>

\* Mutant: nodes whose configuration is invalid are left out.
storeValidNodes ==
  /\ loopPc = "store"
  /\ nodes' = [i \in DOMAIN nodes \cup
                     {j \in newNodes : fromContract(block)[j].IsValidConfig} |->
                 IF i \in newNodes THEN fromContract(block)[i] ELSE nodes[i]]
  /\ loopPc' = "idle" /\ completed
  /\ UNCHANGED <<contractVars, ctx, block, listenerVars, faults>>

\* ... and then stores.
storeNewNodes ==
  /\ loopPc = "store"
  /\ nodes' = [i \in DOMAIN nodes \cup newNodes |->
                 IF i \in newNodes THEN fromContract(block)[i] ELSE nodes[i]]
  /\ loopPc' = "idle" /\ completed
  /\ UNCHANGED <<contractVars, ctx, block, listenerVars, faults>>

refreshData == \/ loadFromContract \/ loadFails
               \/ processChangedNode \/ announceNewNodes \/ storeNewNodes

-----------------------------------------------------------------------------
Next ==
  /\ ~panicked
  /\ \/ NewBlock \/ Cancel
     \/ Tick \/ StopLoop \/ refreshData
     \/ \E l \in Listener :
          \/ OnNewNodes(l)
          \/ \E i \in ID : OnChangedNode(l, i)
          \/ CancelSubscription(l) \/ Receive(l) \/ SendOnClosed(l)

Spec == Init /\ [][Next]_vars

\* The loop runs when it can, and a select that is offered the cancelled context again
\* and again takes it some time.
Fairness ==
  /\ WF_vars(~panicked /\ Tick) /\ SF_vars(~panicked /\ StopLoop)
  /\ WF_vars(~panicked /\ refreshData)

FairSpec == Spec /\ Fairness

-----------------------------------------------------------------------------
(* Properties *)

Notification == [n : Nat, ids : SUBSET ID]

\* Type invariant of the contract's list, the refresh loop and the listeners.
TypeOK ==
  /\ chain \in Seq(Seq(Contract!Entry)) /\ list = chain[Len(chain)]
  /\ Len(chain) <= MaxBlock /\ Len(list) <= MaxNodes
  /\ ctx \in {"live", "done"}
  /\ loopPc \in {"start", "failed", "idle", "load", "diff", "store", "stopped"}
  /\ block \in 0 .. Len(chain)
  /\ topic \in [Listener -> Topic \cup {NoTopic}]
  /\ status \in [Listener -> {"unused", "open", "cancelled", "again"}]
  /\ DOMAIN channels \subseteq Topic /\ channels \in [DOMAIN channels -> SUBSET Listener]
  /\ pending \in [Listener -> SUBSET Notification] /\ triggers \in Nat
  /\ known \in [Listener -> SUBSET ID] /\ missed \in [Listener -> SUBSET ID]
  /\ late \subseteq Listener /\ panicked \in BOOLEAN
  /\ faults \in 0 .. MaxFaults

\* The IDs in the map are 0 .. n - 1 for its size n, whatever block the contract is
\* read at: GetNodes writes node i to place i of a slice of the size of the map
\* (contractRegistry.go:110), which would panic for any other set of IDs.
GetNodesInRange == \E n \in 0 .. MaxNodes : DOMAIN nodes = 0 .. n - 1

\* Node i is listed as the contract answered for block b.
ListedAs(i, b) == i \in DOMAIN fromContract(b) /\ nodes[i] = fromContract(b)[i]

\* Outside a refresh, every node is listed as in the last completed answer that held it,
\* and every node of the last answer is listed as in that one; within a refresh, a node
\* may already be listed as in the answer being processed (contractRegistry.go:131-177).
\* An answer for an earlier block leaves the nodes it does not hold as they were, so
\* that GetNodes may return nodes as of several blocks, but no node that mixes two.
ListFollowsAnswers ==
  /\ \A i \in DOMAIN nodes :
       \/ ListedAs(i, answered[i])
       \/ loopPc \in {"diff", "store"} /\ ListedAs(i, block)
  /\ loopPc \in {"idle", "load", "stopped"} =>
       \A i \in DOMAIN fromContract(block) : i \in DOMAIN nodes /\ answered[i] = block

\* A refresh that read the newest block leaves the list equal to the contract's, node for
\* node and in every field, although it compares and stores one node at a time
\* (contractRegistry.go:131-153); what is listed is late by what the answer is, no more.
ListIsFresh ==
  loopPc \in {"idle", "load", "stopped"} /\ block = Len(chain) => nodes = fromContract(block)

\* "Notifying listeners when the list of nodes changes" (interface.go:22): when the entry
\* of a node changes, every listener of that node that is registered gets a goroutine
\* that sends it the change, although notifiers are made on demand while the refresh
\* loop looks for them (contractRegistry.go:95-102, 169-176).
ChangeAnnounced ==
  [][\A i \in DOMAIN nodes, l \in Listener :
       nodes'[i] # nodes[i] /\ topic[l] = i /\ status[l] = "open"
         => \E m \in pending'[l] \ pending[l] : i \in m.ids]_vars

Announced(l) == UNION {m.ids : m \in pending[l]}

\* A listener of new nodes is told of each node at most once, and of every node that is
\* neither in the list when it registers nor on its way into it: processNewNodes
\* notifies before it stores (contractRegistry.go:155-163), and a listener that
\* registers in between neither finds those nodes nor is told of them.
AnnouncedOnce ==
  \A l \in Listener : status[l] = "open" /\ topic[l] = NewNodes =>
    /\ DOMAIN nodes \subseteq known[l] \cup Announced(l) \cup missed[l]
    /\ known[l] \cap Announced(l) = {}
    /\ \A m, o \in pending[l] : m # o => m.ids \cap o.ids = {}

\* "Unregister the callback" (interface.go:16): a listener that cancels its subscription
\* once does not end the process by it.
CancelIsSafe == panicked => \E l \in Listener : status[l] = "again"

\* What is true of it (notifier.go:24-42): a listener that cancelled when no goroutine was
\* on its way to it is sent nothing more, so only a listener that cancelled with one on
\* its way, or cancelled twice, ends the process.
IdleCancelIsSafe ==
  /\ \A l \in Listener \ late : status[l] = "cancelled" => pending[l] = {}
  /\ panicked => \E l \in Listener : status[l] = "again" \/ l \in late

\* Once the contract rests, the list becomes what the contract holds and stays so, as
\* long as the process, its context and the first load allow it.
Converges ==
  <>[](\/ panicked \/ ctx = "done" \/ loopPc = "failed"
       \/ nodes = fromContract(Len(chain)))

\* Cancelling the context ends the refresh loop (contractRegistry.go:121).
CancelStopsLoop == ctx = "done" ~> loopPc \in {"stopped", "failed"} \/ panicked

listed == CHOOSE n \in 0 .. MaxNodes : DOMAIN nodes = 0 .. n - 1

Directory == INSTANCE NodeDirectory WITH
  SigningKey <- ValidKey \cup {Nil},
  registered <- [n \in DOMAIN list |-> convertNode(list[n]).SigningKey],
  directory  <- [n \in 1 .. listed |-> nodes[n - 1].SigningKey]

\* The registry is a directory of identities: at every moment a prefix of what the
\* contract has registered, that never gets shorter and never changes a key.
ImplementsDirectory == Directory!Spec

-----------------------------------------------------------------------------
(* The inductive invariant *)

\* The list of the contract only grows and a node keeps its key (NodeList).
ChainInv ==
  /\ Len(chain) > 0
  /\ \A b \in DOMAIN chain :
       /\ Len(chain[b]) <= Len(list)
       /\ \A n \in DOMAIN chain[b] : chain[b][n].signingKeyPub = list[n].signingKeyPub
  /\ loopPc \in {"idle", "load", "diff", "store", "stopped"} => block > 0

\* What is listed is a prefix of what is registered, and a refresh that goes on to new
\* nodes is done with the changed ones.
ListInv ==
  /\ \E n \in 0 .. Len(list) : DOMAIN nodes = 0 .. n - 1
  /\ nodes = [i \in DOMAIN nodes |-> nodes[i]]
  /\ \A i \in DOMAIN nodes : nodes[i].SigningKey = convertNode(list[i + 1]).SigningKey
  /\ answered \in [DOMAIN nodes -> DOMAIN chain]
  /\ loopPc = "store" => changedNodes = {}
  /\ ListFollowsAnswers

\* Nodes listed, or announced and about to be.
Coming == DOMAIN nodes \cup (IF loopPc = "store" THEN newNodes ELSE {})

\* The notifiers know of the listeners that are registered, and triggers are numbered.
NotifierInv ==
  /\ NewNodes \in DOMAIN channels
  /\ \A t \in DOMAIN channels :
       channels[t] = {l \in Listener : status[l] = "open" /\ topic[l] = t}
  /\ \A l \in Listener : status[l] = "open" => topic[l] \in DOMAIN channels
  /\ \A l \in Listener : \A m \in pending[l] : m.n <= triggers
  /\ \A l \in Listener : status[l] = "unused" => pending[l] = {}

\* A listener of new nodes has been sent the nodes that came after it and no other.
NewsInv(l) ==
  status[l] = "open" /\ topic[l] = NewNodes =>
    /\ known[l] \cup Announced(l) \subseteq Coming
    /\ Coming \subseteq known[l] \cup Announced(l) \cup missed[l]
    /\ known[l] \cap Announced(l) = {}
    /\ \A m, o \in pending[l] : m # o => m.ids \cap o.ids = {}

\* The inductive invariant of the registry: its list follows the contract, and its
\* notifiers follow the list.
IInv ==
  /\ TypeOK /\ ChainInv /\ ListInv /\ NotifierInv /\ IdleCancelIsSafe
  /\ \A l \in Listener : NewsInv(l)

=============================================================================
