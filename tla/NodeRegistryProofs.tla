-------------------------- MODULE NodeRegistryProofs --------------------------
(* Theorems about NodeRegistry, for any number of nodes, blocks and listeners. *)
EXTENDS NodeRegistryListProofs

\* The prover of every leaf that names no other, and its time limit in seconds.
USE ZenonT(60)

(* Listeners *)

\* A listener is not disturbed by what leaves its channel and the coming nodes alone.
LEMMA NewsStays ==
  ASSUME NEW l \in Listener, NewsInv(l), Coming' = Coming,
         status'[l] = status[l], topic'[l] = topic[l], pending'[l] = pending[l],
         known'[l] = known[l], missed'[l] = missed[l]
  PROVE  NewsInv(l)'
<1>1. Announced(l)' = Announced(l)
  BY DEF Announced
<1> QED
  BY <1>1 DEF NewsInv

\* The nodes that are coming change only when new nodes are announced
\* (contractRegistry.go:157).
LEMMA ComingStays ==
  ASSUME TypeOK, ChainInv, ListInv, [Next]_vars, ~(announceNewNodes /\ newNodes # {})
  PROVE  Coming' = Coming
<1>1. CASE UNCHANGED loopVars
  <2>1. UNCHANGED <<loopPc, block, nodes>>
    BY <1>1 DEF loopVars
  <2>2. ASSUME loopPc = "store" PROVE newNodes' = newNodes
    <3>1. block \in DOMAIN chain
      BY SMTT(60), <2>2, ListFacts DEF TypeOK, ChainInv
    <3> QED
      BY <2>1, <3>1, AnswerStays DEF newNodes, fromContract
  <2> QED
    BY <2>1, <2>2 DEF Coming
<1>2. CASE Tick \/ StopLoop \/ loadFails \/ loadFromContract \/ announceNewNodes
  <2>1. nodes' = nodes /\ loopPc # "store" /\ loopPc' # "store"
    BY <1>2 DEF Tick, StopLoop, loadFails, loadFromContract, announceNewNodes
  <2> QED
    BY <2>1 DEF Coming
<1>3. CASE processChangedNode
  <2>1. loopPc = "diff" /\ loopPc' = "diff"
    BY <1>3 DEF processChangedNode
  <2> QED
    BY <1>3, <2>1, ChangedNodeStep DEF Coming
<1>4. CASE storeNewNodes
  BY <1>4 DEF storeNewNodes, Coming
<1>5. \/ Tick \/ StopLoop \/ loadFails \/ loadFromContract \/ processChangedNode
      \/ announceNewNodes \/ storeNewNodes \/ UNCHANGED loopVars
  BY DEF Next, vars, NewBlock, Cancel, refreshData, OnNewNodes, OnChangedNode, register,
         CancelSubscription, Receive, SendOnClosed
<1> QED
  BY <1>1, <1>2, <1>3, <1>4, <1>5

\* A trigger adds one message to what is on its way to each registered listener
\* (notifier.go:32-42).
LEMMA TriggerFacts ==
  ASSUME TypeOK, NotifierInv, NEW t \in DOMAIN channels, NEW ids \in SUBSET ID, trigger(t, ids)
  PROVE  /\ triggers' = triggers + 1 /\ triggers' \in Nat
         /\ pending' \in [Listener -> SUBSET Notification]
         /\ UNCHANGED <<topic, status, channels, known, missed, late, panicked>>
         /\ \A l \in Listener :
              IF status[l] = "open" /\ topic[l] = t
              THEN /\ pending'[l] = pending[l] \cup {[n |-> triggers + 1, ids |-> ids]}
                   /\ [n |-> triggers + 1, ids |-> ids] \notin pending[l]
              ELSE pending'[l] = pending[l]
<1>t. triggers \in Nat /\ pending \in [Listener -> SUBSET Notification]
  BY DEF TypeOK
<1> DEFINE m == [n |-> triggers + 1, ids |-> ids]
<1>1. m \in Notification /\ m.n = triggers + 1
  BY SMTT(60), <1>t DEF Notification
<1>2. \A l \in Listener : m \notin pending[l]
  <2>1. \A l \in Listener : \A o \in pending[l] : o.n <= triggers
    BY DEF NotifierInv
  <2> HIDE DEF m
  <2> QED
    BY SMTT(60), <1>t, <1>1, <2>1
<1>3. channels[t] = {l \in Listener : status[l] = "open" /\ topic[l] = t}
  BY DEF NotifierInv
<1>4. /\ triggers' = triggers + 1
      /\ pending' = [l \in Listener |-> IF l \in channels[t] THEN pending[l] \cup {m} ELSE pending[l]]
      /\ UNCHANGED <<topic, status, channels, known, missed, late, panicked>>
  BY DEF trigger
<1> HIDE DEF m
<1>5. pending' \in [Listener -> SUBSET Notification]
  BY <1>t, <1>1, <1>4
<1> USE DEF m
<1> QED
  BY SMTT(60), <1>t, <1>2, <1>3, <1>4, <1>5

\* A changed node is sent to its listeners, if it has a notifier; those of new nodes get
\* nothing (contractRegistry.go:172-175).
LEMMA ChangedNodeNews ==
  ASSUME IInv, processChangedNode
  PROVE  /\ NotifierInv' /\ \A l \in Listener : NewsInv(l)'
         /\ triggers' \in Nat /\ pending' \in [Listener -> SUBSET Notification]
         /\ UNCHANGED <<topic, status, channels, known, missed, late, panicked>>
<1>t. TypeOK /\ ChainInv /\ ListInv /\ NotifierInv /\ \A l \in Listener : NewsInv(l)
  BY DEF IInv
<1>c. Coming' = Coming
  <2>1. loopPc = "diff" /\ loopPc' = "diff"
    BY DEF processChangedNode
  <2> QED
    BY <1>t, <2>1, ChangedNodeStep DEF Coming
<1>1. PICK i \in changedNodes :
        IF i \in DOMAIN channels THEN trigger(i, {i}) ELSE UNCHANGED listenerVars
  BY DEF processChangedNode
<1>2. i \in ID /\ i # NewNodes
  <2>1. i \in DOMAIN nodes
    BY DEF changedNodes
  <2>2. DOMAIN nodes \subseteq ID
    BY <1>t, IDFacts
  <2>3. NewNodes \notin ID
    BY RegistryAssumption DEF ID
  <2> QED
    BY <2>1, <2>2, <2>3
<1>3. CASE i \notin DOMAIN channels
  <2>1. UNCHANGED <<topic, status, channels, pending, triggers, known, missed, late, panicked>>
    BY <1>1, <1>3 DEF listenerVars
  <2>2. NotifierInv'
    BY <1>t, <2>1 DEF NotifierInv
  <2>3. \A l \in Listener : NewsInv(l)'
    BY <1>c, <1>t, <2>1, NewsStays
  <2> QED
    BY <1>t, <2>1, <2>2, <2>3 DEF TypeOK
<1>4. CASE i \in DOMAIN channels
  <2>0. trigger(i, {i}) /\ {i} \in SUBSET ID
    BY <1>1, <1>2, <1>4
  <2> DEFINE m == [n |-> triggers + 1, ids |-> {i}]
  <2>1. /\ triggers' = triggers + 1 /\ triggers' \in Nat /\ triggers \in Nat
        /\ pending' \in [Listener -> SUBSET Notification]
        /\ UNCHANGED <<topic, status, channels, known, missed, late, panicked>>
        /\ \A l \in Listener : IF status[l] = "open" /\ topic[l] = i
                              THEN pending'[l] = pending[l] \cup {m}
                              ELSE pending'[l] = pending[l]
    <3>1. triggers \in Nat
      BY <1>t DEF TypeOK
    <3> QED
      BY <1>4, <1>t, <2>0, <3>1, TriggerFacts
  <2>2. m.n = triggers + 1
    OBVIOUS
  <2> HIDE DEF m
  <2>3. NotifierInv'
    <3>1. ASSUME NEW l \in Listener, NEW o \in pending'[l] PROVE o.n <= triggers'
      <4>1. o = m \/ o \in pending[l]
        BY <2>1
      <4>2. o \in pending[l] => o.n <= triggers /\ o.n \in Nat
        BY SMTT(60), <1>t DEF NotifierInv, TypeOK, Notification
      <4> QED
        BY SMTT(60), <2>1, <2>2, <4>1, <4>2
    <3>2. \A l \in Listener : status[l] = "unused" => pending'[l] = {}
      BY <1>t, <2>1 DEF NotifierInv
    <3> QED
      BY <1>t, <2>1, <3>1, <3>2 DEF NotifierInv
  <2>4. ASSUME NEW l \in Listener PROVE NewsInv(l)'
    <3>1. CASE status[l] = "open" /\ topic[l] = NewNodes
      <4>1. pending'[l] = pending[l]
        BY <1>2, <2>1, <3>1
      <4> QED
        BY <1>c, <1>t, <2>1, <4>1, NewsStays
    <3>2. CASE ~(status[l] = "open" /\ topic[l] = NewNodes)
      BY <2>1, <3>2 DEF NewsInv
    <3> QED
      BY <3>1, <3>2
  <2> QED
    BY <2>1, <2>3, <2>4
<1> QED
  BY <1>3, <1>4

\* New nodes are sent to their listeners, none of which was told of them before
\* (contractRegistry.go:155-158).
LEMMA NewNodesNews ==
  ASSUME IInv, announceNewNodes, newNodes # {}
  PROVE  /\ NotifierInv' /\ \A l \in Listener : NewsInv(l)'
         /\ triggers' \in Nat /\ pending' \in [Listener -> SUBSET Notification]
         /\ UNCHANGED <<topic, status, channels, known, missed, late, panicked>>
<1>t. TypeOK /\ ChainInv /\ ListInv /\ NotifierInv
  BY DEF IInv
<1>1. trigger(NewNodes, newNodes) /\ loopPc = "diff" /\ loopPc' = "store"
      /\ UNCHANGED <<contractVars, block, nodes>>
  BY DEF announceNewNodes
<1>2. newNodes \in SUBSET ID /\ newNodes \cap DOMAIN nodes = {} /\ NewNodes \in DOMAIN channels
  BY <1>1, <1>t, IDFacts DEF ChainInv, NotifierInv
<1> DEFINE m == [n |-> triggers + 1, ids |-> newNodes]
<1>4. /\ triggers' = triggers + 1 /\ triggers' \in Nat /\ triggers \in Nat
      /\ pending' \in [Listener -> SUBSET Notification]
      /\ UNCHANGED <<topic, status, channels, known, missed, late, panicked>>
      /\ \A l \in Listener : IF status[l] = "open" /\ topic[l] = NewNodes
                            THEN pending'[l] = pending[l] \cup {m}
                            ELSE pending'[l] = pending[l]
  <2>1. triggers \in Nat
    BY <1>t DEF TypeOK
  <2> QED
    BY <1>1, <1>2, <1>t, <2>1, TriggerFacts
<1>5. m.n = triggers + 1 /\ m.ids = newNodes
  OBVIOUS
<1> HIDE DEF m
<1>6. NotifierInv'
  <2>1. ASSUME NEW l \in Listener, NEW o \in pending'[l] PROVE o.n <= triggers'
    <3>1. o = m \/ o \in pending[l]
      BY <1>4
    <3>2. o \in pending[l] => o.n <= triggers /\ o.n \in Nat
      BY SMTT(60), <1>t DEF NotifierInv, TypeOK, Notification
    <3> QED
      BY SMTT(60), <1>4, <1>5, <3>1, <3>2
  <2>2. \A l \in Listener : status[l] = "unused" => pending'[l] = {}
    BY <1>4, <1>t DEF NotifierInv
  <2> QED
    BY <1>4, <1>t, <2>1, <2>2 DEF NotifierInv
<1>7. Coming = DOMAIN nodes /\ Coming' = DOMAIN nodes \cup newNodes
  BY <1>1 DEF Coming, newNodes, fromContract, contractVars
<1>8. ASSUME NEW l \in Listener, status[l] = "open", topic[l] = NewNodes PROVE NewsInv(l)'
  <2>1. pending'[l] = pending[l] \cup {m} /\ known'[l] = known[l] /\ missed'[l] = missed[l]
    BY <1>4, <1>8
  <2>2. Announced(l)' = Announced(l) \cup newNodes
    BY <1>5, <2>1 DEF Announced
  <2>3. /\ known[l] \cup Announced(l) \subseteq Coming
        /\ Coming \subseteq known[l] \cup Announced(l) \cup missed[l]
        /\ known[l] \cap Announced(l) = {}
        /\ \A o, q \in pending[l] : o # q => o.ids \cap q.ids = {}
    BY <1>8 DEF IInv, NewsInv
  <2>4. \A o \in pending[l] : o.ids \subseteq Announced(l)
    BY DEF Announced
  <2>5. \A o \in pending[l] : o.ids \cap newNodes = {}
    BY <1>2, <1>7, <2>3, <2>4
  <2>6. \A o, q \in pending'[l] : o # q => o.ids \cap q.ids = {}
    BY <1>5, <2>1, <2>3, <2>5
  <2>7. known[l] \cap (Announced(l) \cup newNodes) = {}
    BY <1>2, <1>7, <2>3
  <2> QED
    BY <1>7, <2>1, <2>2, <2>3, <2>6, <2>7 DEF NewsInv
<1>9. ASSUME NEW l \in Listener, ~(status[l] = "open" /\ topic[l] = NewNodes) PROVE NewsInv(l)'
  BY <1>4, <1>9 DEF NewsInv
<1> QED
  BY <1>4, <1>6, <1>8, <1>9

\* A listener of new nodes registers: it reads the list and is told of what comes
\* (contractRegistry.go:88-90, notifier.go:18-30).
LEMMA OnNewNodesNews ==
  ASSUME IInv, [Next]_vars, NEW l \in Listener, OnNewNodes(l)
  PROVE  /\ NotifierInv' /\ \A q \in Listener : NewsInv(q)' /\ TypeOK'
<1>t. TypeOK /\ ChainInv /\ ListInv /\ NotifierInv /\ \A q \in Listener : NewsInv(q)
  BY DEF IInv
<1>f. /\ status \in [Listener -> {"unused", "open", "cancelled", "again"}]
      /\ topic \in [Listener -> Topic \cup {NoTopic}]
      /\ DOMAIN channels \subseteq Topic /\ channels \in [DOMAIN channels -> SUBSET Listener]
      /\ known \in [Listener -> SUBSET ID] /\ missed \in [Listener -> SUBSET ID]
  BY <1>t DEF TypeOK
<1>1. /\ status[l] = "unused" /\ status' = [status EXCEPT ![l] = "open"]
      /\ topic' = [topic EXCEPT ![l] = NewNodes]
      /\ channels' = [channels EXCEPT ![NewNodes] = @ \cup {l}]
      /\ known' = [known EXCEPT ![l] = DOMAIN nodes]
      /\ missed' = [missed EXCEPT ![l] = IF loopPc = "store" THEN newNodes ELSE {}]
      /\ UNCHANGED <<contractVars, ctx, loopVars, pending, triggers, late, panicked, faults>>
  BY DEF OnNewNodes, register
<1>2. NewNodes \in DOMAIN channels /\ NewNodes \in Topic /\ DOMAIN channels' = DOMAIN channels
  BY <1>1, <1>t DEF NotifierInv, Topic
<1>3. DOMAIN nodes \in SUBSET ID /\ (IF loopPc = "store" THEN newNodes ELSE {}) \in SUBSET ID
  BY <1>t, IDFacts DEF ChainInv
<1>4. TypeOK'
  <2>1. /\ status' \in [Listener -> {"unused", "open", "cancelled", "again"}]
        /\ topic' \in [Listener -> Topic \cup {NoTopic}]
        /\ DOMAIN channels' \subseteq Topic /\ channels' \in [DOMAIN channels' -> SUBSET Listener]
        /\ known' \in [Listener -> SUBSET ID] /\ missed' \in [Listener -> SUBSET ID]
    BY <1>1, <1>2, <1>3, <1>f
  <2> QED
    BY <1>1, <1>t, <2>1 DEF TypeOK, contractVars, loopVars
<1>5. pending'[l] = {} /\ pending' = pending
  BY <1>1, <1>t DEF NotifierInv
<1>6. NotifierInv'
  <2>1. ASSUME NEW t \in DOMAIN channels'
        PROVE  channels'[t] = {q \in Listener : status'[q] = "open" /\ topic'[q] = t}
    <3>1. t \in DOMAIN channels /\ channels[t] = {q \in Listener : status[q] = "open" /\ topic[q] = t}
      BY <1>2, <1>t DEF NotifierInv
    <3> QED
      BY SMTT(60), <1>1, <1>f, <3>1
  <2>2. \A q \in Listener : status'[q] = "open" => topic'[q] \in DOMAIN channels'
    BY <1>1, <1>2, <1>f, <1>t DEF NotifierInv
  <2>3. \A q \in Listener : status'[q] = "unused" => pending'[q] = {}
    BY <1>1, <1>f, <1>t DEF NotifierInv
  <2> QED
    BY <1>1, <1>2, <1>t, <2>1, <2>2, <2>3 DEF NotifierInv
<1>7. Coming' = Coming
  <2>1. ~announceNewNodes \/ newNodes = {}
    BY <1>1 DEF announceNewNodes, loopVars
  <2> QED
    BY <1>t, <2>1, ComingStays
<1>8. NewsInv(l)'
  <2>1. Announced(l)' = {}
    BY <1>5 DEF Announced
  <2>2. known'[l] = DOMAIN nodes /\ Coming = known'[l] \cup missed'[l]
    BY <1>1, <1>f DEF Coming
  <2> QED
    BY <1>5, <1>7, <2>1, <2>2 DEF NewsInv
<1>9. ASSUME NEW q \in Listener, q # l PROVE NewsInv(q)'
  <2>1. /\ status'[q] = status[q] /\ topic'[q] = topic[q] /\ pending'[q] = pending[q]
        /\ known'[q] = known[q] /\ missed'[q] = missed[q]
    BY <1>1, <1>9, <1>f
  <2> QED
    BY <1>7, <1>t, <2>1, NewsStays
<1> QED
  BY <1>4, <1>6, <1>8, <1>9

\* A listener of one node registers, or any listener cancels (contractRegistry.go:92-104,
\* notifier.go:24-29).
LEMMA SubscriptionNews ==
  ASSUME IInv, [Next]_vars, NEW l \in Listener,
         CancelSubscription(l) \/ \E i \in ID : OnChangedNode(l, i)
  PROVE  /\ NotifierInv' /\ \A q \in Listener : NewsInv(q)' /\ TypeOK'
<1>t. TypeOK /\ ChainInv /\ ListInv /\ NotifierInv /\ \A q \in Listener : NewsInv(q)
  BY DEF IInv
<1>f. /\ status \in [Listener -> {"unused", "open", "cancelled", "again"}]
      /\ topic \in [Listener -> Topic \cup {NoTopic}]
      /\ DOMAIN channels \subseteq Topic /\ channels \in [DOMAIN channels -> SUBSET Listener]
  BY <1>t DEF TypeOK
<1>u. UNCHANGED <<contractVars, ctx, loopVars, pending, triggers, known, missed, faults>>
  BY DEF CancelSubscription, OnChangedNode, register
<1>p. late' \subseteq Listener /\ panicked' \in BOOLEAN
  BY <1>t DEF CancelSubscription, OnChangedNode, register, TypeOK
<1> DEFINE Moved ==
        /\ status' \in [Listener -> {"unused", "open", "cancelled", "again"}]
        /\ topic' \in [Listener -> Topic \cup {NoTopic}]
        /\ DOMAIN channels \subseteq DOMAIN channels' /\ DOMAIN channels' \subseteq Topic
        /\ channels' \in [DOMAIN channels' -> SUBSET Listener]
        /\ \A q \in Listener \ {l} : status'[q] = status[q] /\ topic'[q] = topic[q]
        /\ \/ status'[l] \in {"cancelled", "again"}
           \/ status'[l] = "open" /\ topic'[l] \in ID /\ topic'[l] \in DOMAIN channels'
        /\ \A t \in DOMAIN channels' :
             channels'[t] = {q \in Listener : status'[q] = "open" /\ topic'[q] = t}
<1>1. Moved
  <2>1. CASE CancelSubscription(l) /\ status[l] = "open"
    <3>1. /\ status' = [status EXCEPT ![l] = "cancelled"] /\ topic' = topic
          /\ channels' = [channels EXCEPT ![topic[l]] = @ \ {l}] /\ topic[l] \in DOMAIN channels
      BY <1>t, <2>1 DEF CancelSubscription, NotifierInv
    <3>2. DOMAIN channels' = DOMAIN channels
      BY <3>1
    <3>3. ASSUME NEW t \in DOMAIN channels'
          PROVE  channels'[t] = {q \in Listener : status'[q] = "open" /\ topic'[q] = t}
      <4>1. t \in DOMAIN channels /\ channels[t] = {q \in Listener : status[q] = "open" /\ topic[q] = t}
        BY <1>t, <3>2 DEF NotifierInv
      <4> QED
        BY <1>f, <3>1, <4>1
    <3> QED
      BY <1>f, <3>1, <3>2, <3>3
  <2>2. CASE CancelSubscription(l) /\ status[l] # "open"
    <3>1. /\ status[l] = "cancelled" /\ status' = [status EXCEPT ![l] = "again"]
          /\ UNCHANGED <<topic, channels>>
      BY <2>2 DEF CancelSubscription
    <3>2. \A t \in DOMAIN channels :
            {q \in Listener : status'[q] = "open" /\ topic[q] = t}
              = {q \in Listener : status[q] = "open" /\ topic[q] = t}
      BY <1>f, <3>1
    <3> QED
      BY <1>f, <1>t, <3>1, <3>2 DEF NotifierInv
  <2>3. ASSUME NEW i \in ID, OnChangedNode(l, i)
        PROVE  Moved
    <3>1. /\ status[l] = "unused" /\ status' = [status EXCEPT ![l] = "open"]
          /\ topic' = [topic EXCEPT ![l] = i] /\ i \in Topic
          /\ channels' = [t \in DOMAIN channels \cup {i} |->
                            (IF t \in DOMAIN channels THEN channels[t] ELSE {})
                              \cup (IF t = i THEN {l} ELSE {})]
      BY <2>3 DEF OnChangedNode, register, Topic
    <3>2. DOMAIN channels' = DOMAIN channels \cup {i}
      BY <3>1
    <3>3. channels' \in [DOMAIN channels' -> SUBSET Listener]
      BY <1>f, <3>1, <3>2
    <3>4. ASSUME NEW t \in DOMAIN channels'
          PROVE  channels'[t] = {q \in Listener : status'[q] = "open" /\ topic'[q] = t}
      <4>1. (IF t \in DOMAIN channels THEN channels[t] ELSE {})
              = {q \in Listener : status[q] = "open" /\ topic[q] = t}
        <5>1. t \in DOMAIN channels =>
                channels[t] = {q \in Listener : status[q] = "open" /\ topic[q] = t}
          BY <1>t DEF NotifierInv
        <5>2. \A q \in Listener : status[q] = "open" => topic[q] \in DOMAIN channels
          BY <1>t DEF NotifierInv
        <5> QED
          BY <5>1, <5>2
      <4>2. channels'[t] = {q \in Listener : status[q] = "open" /\ topic[q] = t}
                             \cup (IF t = i THEN {l} ELSE {})
        BY <3>1, <3>2, <4>1
      <4>3. /\ status'[l] = "open" /\ topic'[l] = i
            /\ \A q \in Listener \ {l} : status'[q] = status[q] /\ topic'[q] = topic[q]
        BY <1>f, <3>1
      <4>4. \A q \in Listener : q \in channels'[t] <=> status'[q] = "open" /\ topic'[q] = t
        BY <3>1, <4>2, <4>3
      <4>5. channels'[t] \subseteq Listener
        BY <3>3
      <4> QED
        BY <4>4, <4>5
    <3> QED
      BY <1>f, <3>1, <3>2, <3>3, <3>4
  <2> HIDE DEF Moved
  <2> QED
    BY <2>1, <2>2, <2>3
<1>4. TypeOK'
  BY <1>1, <1>p, <1>t, <1>u DEF TypeOK, contractVars, loopVars
<1>6. NotifierInv'
  <2>1. \A q \in Listener : status'[q] = "open" => topic'[q] \in DOMAIN channels'
    BY <1>1, <1>t DEF NotifierInv
  <2>2. \A q \in Listener : status'[q] = "unused" => pending[q] = {}
    BY <1>1, <1>t DEF NotifierInv
  <2> QED
    BY <1>1, <1>t, <1>u, <2>1, <2>2 DEF NotifierInv
<1>7. Coming' = Coming
  <2>1. ~announceNewNodes \/ newNodes = {}
    BY <1>u DEF announceNewNodes, loopVars
  <2> QED
    BY <1>t, <2>1, ComingStays
<1>8. NewsInv(l)'
  <2>1. NewNodes \notin ID
    BY RegistryAssumption DEF ID
  <2> QED
    BY <1>1, <2>1 DEF NewsInv
<1>9. ASSUME NEW q \in Listener, q # l PROVE NewsInv(q)'
  BY <1>1, <1>7, <1>9, <1>t, <1>u, NewsStays
<1> QED
  BY <1>4, <1>6, <1>8, <1>9

\* A message moves from its goroutine to its listener, or the process ends
\* (notifier.go:38-40).
LEMMA ReceiveNews ==
  ASSUME IInv, [Next]_vars, NEW l \in Listener, Receive(l) \/ SendOnClosed(l)
  PROVE  /\ NotifierInv' /\ \A q \in Listener : NewsInv(q)' /\ TypeOK'
<1>t. TypeOK /\ ChainInv /\ ListInv /\ NotifierInv /\ \A q \in Listener : NewsInv(q)
  BY DEF IInv
<1>f. pending \in [Listener -> SUBSET Notification] /\ known \in [Listener -> SUBSET ID]
  BY <1>t DEF TypeOK
<1>u. UNCHANGED <<contractVars, ctx, loopVars, topic, status, channels, triggers, missed, late, faults>>
  BY DEF Receive, SendOnClosed
<1>c. Coming' = Coming
  <2>1. ~announceNewNodes \/ newNodes = {}
    BY <1>u DEF announceNewNodes, loopVars
  <2> QED
    BY <1>t, <2>1, ComingStays
<1>1. CASE Receive(l)
  <2>1. PICK m \in pending[l] : /\ pending' = [pending EXCEPT ![l] = @ \ {m}]
                                /\ known' = [known EXCEPT ![l] = @ \cup m.ids]
                                /\ panicked' = panicked /\ status[l] = "open"
    BY <1>1 DEF Receive
  <2>2. m.ids \in SUBSET ID
    BY SMTT(60), <1>f DEF Notification
  <2>3. /\ pending'[l] = pending[l] \ {m} /\ known'[l] = known[l] \cup m.ids
        /\ pending' \in [Listener -> SUBSET Notification] /\ known' \in [Listener -> SUBSET ID]
        /\ \A q \in Listener \ {l} : pending'[q] = pending[q] /\ known'[q] = known[q]
    BY <1>f, <2>1, <2>2
  <2>4. TypeOK'
    BY <1>t, <1>u, <2>1, <2>3 DEF TypeOK, contractVars, loopVars
  <2>5. NotifierInv'
    <3>1. \A q \in Listener : pending'[q] \subseteq pending[q]
      BY <2>3
    <3> QED
      BY <1>t, <1>u, <3>1 DEF NotifierInv
  <2>6. NewsInv(l)'
    <3> SUFFICES ASSUME topic[l] = NewNodes PROVE NewsInv(l)'
      BY <1>u DEF NewsInv
    <3>1. /\ known[l] \cup Announced(l) \subseteq Coming
          /\ Coming \subseteq known[l] \cup Announced(l) \cup missed[l]
          /\ known[l] \cap Announced(l) = {}
          /\ \A o, q \in pending[l] : o # q => o.ids \cap q.ids = {}
      BY <1>t, <2>1 DEF NewsInv
    <3>2. Announced(l)' = UNION {o.ids : o \in pending[l] \ {m}}
      BY <2>3 DEF Announced
    <3>3. Announced(l) = m.ids \cup Announced(l)'
      BY <2>1, <3>2 DEF Announced
    <3>4. m.ids \cap Announced(l)' = {}
      BY <2>1, <3>1, <3>2
    <3> QED
      BY <1>c, <1>u, <2>3, <3>1, <3>3, <3>4 DEF NewsInv
  <2>7. ASSUME NEW q \in Listener, q # l PROVE NewsInv(q)'
    BY <1>c, <1>t, <1>u, <2>3, <2>7, NewsStays
  <2> QED
    BY <2>4, <2>5, <2>6, <2>7
<1>2. CASE SendOnClosed(l)
  <2>1. UNCHANGED <<pending, known>> /\ panicked' = TRUE
    BY <1>2 DEF SendOnClosed
  <2>2. TypeOK'
    BY <1>t, <1>u, <2>1 DEF TypeOK, contractVars, loopVars
  <2>3. NotifierInv'
    BY <1>t, <1>u, <2>1 DEF NotifierInv
  <2>4. \A q \in Listener : NewsInv(q)'
    BY <1>c, <1>t, <1>u, <2>1, NewsStays
  <2> QED
    BY <2>2, <2>3, <2>4
<1> QED
  BY <1>1, <1>2

\* Every other step: blocks, the context and the refresh loop.
LEMMA LoopNews ==
  ASSUME IInv, [Next]_vars, UNCHANGED listenerVars \/ processChangedNode \/ announceNewNodes
  PROVE  /\ NotifierInv' /\ \A q \in Listener : NewsInv(q)'
         /\ triggers' \in Nat /\ pending' \in [Listener -> SUBSET Notification]
         /\ UNCHANGED <<topic, status, channels, known, missed, late, panicked>>
<1>t. TypeOK /\ ChainInv /\ ListInv /\ NotifierInv /\ \A q \in Listener : NewsInv(q)
  BY DEF IInv
<1>1. CASE announceNewNodes /\ newNodes # {}
  BY <1>1, NewNodesNews
<1>2. CASE UNCHANGED listenerVars /\ ~(announceNewNodes /\ newNodes # {})
  <2>1. UNCHANGED <<topic, status, channels, pending, triggers, known, missed, late, panicked>>
    BY <1>2 DEF listenerVars
  <2>2. Coming' = Coming
    BY <1>2, <1>t, ComingStays
  <2>3. \A q \in Listener : NewsInv(q)'
    BY <1>t, <2>1, <2>2, NewsStays
  <2>4. NotifierInv'
    BY <1>t, <2>1 DEF NotifierInv
  <2> QED
    BY <1>t, <2>1, <2>3, <2>4 DEF TypeOK
<1>3. announceNewNodes /\ newNodes = {} => UNCHANGED listenerVars
  BY DEF announceNewNodes
<1> QED
  BY <1>1, <1>2, <1>3, ChangedNodeNews

\* A trigger sends nothing to a listener that has cancelled, and only a send to, or a
\* second cancel of, such a listener is a panic (notifier.go:24-42).
LEMMA CancelledStep ==
  ASSUME IInv, [Next]_vars
  PROVE  IdleCancelIsSafe'
<1>t. TypeOK /\ ChainInv /\ ListInv /\ NotifierInv /\ IdleCancelIsSafe
  BY DEF IInv
<1>f. /\ status \in [Listener -> {"unused", "open", "cancelled", "again"}]
      /\ pending \in [Listener -> SUBSET Notification]
  BY <1>t DEF TypeOK
<1>1. CASE UNCHANGED <<status, pending, late, panicked>>
  BY <1>1, <1>t DEF IdleCancelIsSafe
<1>2. ASSUME NEW t \in DOMAIN channels, NEW ids, trigger(t, ids) PROVE IdleCancelIsSafe'
  <2>1. \A l \in Listener : status[l] = "cancelled" => l \notin channels[t]
    BY <1>t DEF NotifierInv
  <2>2. \A l \in Listener : status[l] = "cancelled" => pending'[l] = pending[l]
    BY <1>2, <2>1 DEF trigger
  <2>3. UNCHANGED <<status, late, panicked>>
    BY <1>2 DEF trigger
  <2> QED
    BY <1>t, <2>2, <2>3 DEF IdleCancelIsSafe
<1>3. ASSUME NEW l \in Listener, CancelSubscription(l) PROVE IdleCancelIsSafe'
  <2>1. CASE status[l] = "open"
    <3>1. /\ status' = [status EXCEPT ![l] = "cancelled"] /\ UNCHANGED <<pending, panicked>>
          /\ late' = IF pending[l] # {} THEN late \cup {l} ELSE late
      BY <1>3, <2>1 DEF CancelSubscription
    <3>2. \A q \in Listener \ late' : status'[q] = "cancelled" => pending'[q] = {}
      BY <1>f, <1>t, <3>1 DEF IdleCancelIsSafe
    <3>3. \A q \in Listener : status[q] = "again" => status'[q] = "again"
      BY <1>f, <2>1, <3>1
    <3> QED
      BY <1>t, <3>1, <3>2, <3>3 DEF IdleCancelIsSafe
  <2>2. CASE status[l] # "open"
    <3>1. /\ status' = [status EXCEPT ![l] = "again"] /\ UNCHANGED <<pending, late>>
      BY <1>3, <2>2 DEF CancelSubscription
    <3> QED
      BY <1>f, <1>t, <3>1 DEF IdleCancelIsSafe
  <2> QED
    BY <2>1, <2>2
<1>4. ASSUME NEW l \in Listener, OnNewNodes(l) \/ \E i \in ID : OnChangedNode(l, i)
      PROVE  IdleCancelIsSafe'
  <2>1. /\ status[l] = "unused" /\ status' = [status EXCEPT ![l] = "open"]
        /\ UNCHANGED <<pending, late, panicked>>
    BY <1>4 DEF OnNewNodes, OnChangedNode, register
  <2> QED
    BY <1>f, <1>t, <2>1 DEF IdleCancelIsSafe
<1>5. ASSUME NEW l \in Listener, Receive(l) PROVE IdleCancelIsSafe'
  <2>1. status[l] = "open" /\ \A q \in Listener : q # l => pending'[q] = pending[q]
    BY <1>5, <1>f DEF Receive
  <2>2. UNCHANGED <<status, late, panicked>>
    BY <1>5 DEF Receive
  <2> QED
    BY <1>t, <2>1, <2>2 DEF IdleCancelIsSafe
<1>6. ASSUME NEW l \in Listener, SendOnClosed(l) PROVE IdleCancelIsSafe'
  <2>1. l \in late
    BY <1>6, <1>t DEF SendOnClosed, IdleCancelIsSafe
  <2>2. UNCHANGED <<status, pending, late>>
    BY <1>6 DEF SendOnClosed
  <2> QED
    BY <1>t, <2>1, <2>2 DEF IdleCancelIsSafe
<1>7. CASE processChangedNode
  <2>1. PICK i \in changedNodes :
          IF i \in DOMAIN channels THEN trigger(i, {i}) ELSE UNCHANGED listenerVars
    BY <1>7 DEF processChangedNode
  <2> QED
    BY <1>1, <1>2, <2>1 DEF listenerVars
<1>8. CASE announceNewNodes
  <2>1. trigger(NewNodes, newNodes) \/ UNCHANGED listenerVars
    BY <1>8 DEF announceNewNodes
  <2>2. NewNodes \in DOMAIN channels
    BY <1>t DEF NotifierInv
  <2> QED
    BY <1>1, <1>2, <2>1, <2>2 DEF listenerVars
<1>9. \/ processChangedNode \/ announceNewNodes \/ UNCHANGED listenerVars
      \/ \E l \in Listener : \/ OnNewNodes(l) \/ (\E i \in ID : OnChangedNode(l, i))
                            \/ CancelSubscription(l) \/ Receive(l) \/ SendOnClosed(l)
  BY DEF Next, vars, NewBlock, Cancel, Tick, StopLoop, refreshData, loadFromContract, loadFails,
         storeNewNodes
<1> QED
  BY <1>1, <1>3, <1>4, <1>5, <1>6, <1>7, <1>8, <1>9 DEF listenerVars

-----------------------------------------------------------------------------
(* Theorems *)

\* Every step of the contract, the loop and the listeners preserves the invariant.
LEMMA IInvStep ==
  ASSUME IInv, [Next]_vars
  PROVE  IInv'
<1>t. TypeOK /\ ChainInv /\ ListInv /\ NotifierInv
  BY DEF IInv
<1>1. ChainInv'
  BY <1>t, ChainStep, BlockStep DEF ChainInv
<1>2. ListInv'
  BY <1>t, ListStep
<1>c. IdleCancelIsSafe'
  BY CancelledStep
<1>3. CASE \E l \in Listener : \/ OnNewNodes(l) \/ (\E i \in ID : OnChangedNode(l, i))
                              \/ CancelSubscription(l) \/ Receive(l) \/ SendOnClosed(l)
  BY <1>1, <1>2, <1>3, <1>c, OnNewNodesNews, SubscriptionNews, ReceiveNews DEF IInv
<1>4. CASE NewBlock \/ Cancel \/ Tick \/ StopLoop \/ refreshData \/ UNCHANGED vars
  <2>1. UNCHANGED listenerVars \/ processChangedNode \/ announceNewNodes
    BY <1>4 DEF NewBlock, Cancel, Tick, StopLoop, refreshData, loadFromContract, loadFails,
                storeNewNodes, vars
  <2>2. /\ NotifierInv' /\ \A q \in Listener : NewsInv(q)'
        /\ triggers' \in Nat /\ pending' \in [Listener -> SUBSET Notification]
        /\ UNCHANGED <<topic, status, channels, known, missed, late, panicked>>
    BY <2>1, LoopNews
  <2>3. ctx' \in {"live", "done"} /\ faults' \in 0 .. MaxFaults
    <3>1. ctx \in {"live", "done"} /\ faults \in 0 .. MaxFaults /\ MaxFaults \in Nat
      BY <1>t, RegistryAssumption DEF TypeOK
    <3> QED
      BY SMTT(60), <1>4, <3>1 DEF NewBlock, Cancel, Tick, StopLoop, refreshData, loadFromContract, loadFails,
                        processChangedNode, announceNewNodes, storeNewNodes, vars
  <2>4. loopPc' \in {"start", "failed", "idle", "load", "diff", "store", "stopped"}
    <3>1. loopPc \in {"start", "failed", "idle", "load", "diff", "store", "stopped"}
      BY <1>t DEF TypeOK
    <3> QED
      BY <1>4, <3>1 DEF NewBlock, Cancel, Tick, StopLoop, refreshData, loadFromContract, loadFails,
                        processChangedNode, announceNewNodes, storeNewNodes, vars, loopVars
  <2>5. TypeOK'
    <3>1. /\ topic \in [Listener -> Topic \cup {NoTopic}]
          /\ status \in [Listener -> {"unused", "open", "cancelled", "again"}]
          /\ DOMAIN channels \subseteq Topic /\ channels \in [DOMAIN channels -> SUBSET Listener]
          /\ known \in [Listener -> SUBSET ID] /\ missed \in [Listener -> SUBSET ID]
          /\ late \subseteq Listener /\ panicked \in BOOLEAN
      BY <1>t DEF TypeOK
    <3>2. /\ chain' \in Seq(Seq(Contract!Entry)) /\ list' = chain'[Len(chain')]
          /\ Len(chain') <= MaxBlock /\ Len(list') <= MaxNodes
      BY <1>t, ChainStep
    <3>3. block' \in 0 .. Len(chain')
      BY <1>t, BlockStep
    <3> QED
      BY <2>2, <2>3, <2>4, <3>1, <3>2, <3>3 DEF TypeOK, Contract!Entry
  <2> QED
    BY <1>1, <1>2, <1>c, <2>2, <2>5 DEF IInv
<1> QED
  BY <1>3, <1>4 DEF Next

\* A registry that has not been started satisfies the invariant (contractRegistry.go:45-67).
LEMMA InitIInv == Init => IInv
<1> SUFFICES ASSUME Init PROVE IInv
  OBVIOUS
<1>1. list = <<>> /\ chain = <<list>> /\ chain \in Seq(Seq(Contract!Entry)) /\ Len(chain) = 1
      /\ chain[1] = <<>> /\ DOMAIN chain = {1}
  BY SMTT(60) DEF Init, Contract!Init
<1>2. TypeOK
  <2>1. Len(chain) <= MaxBlock /\ Len(list) <= MaxNodes /\ list = chain[Len(chain)]
        /\ faults \in 0 .. MaxFaults
    BY SMTT(60), <1>1, RegistryAssumption DEF Init
  <2>2. block \in 0 .. Len(chain)
    BY SMTT(60), <1>1 DEF Init
  <2>3. /\ topic \in [Listener -> Topic \cup {NoTopic}]
        /\ status \in [Listener -> {"unused", "open", "cancelled", "again"}]
        /\ DOMAIN channels \subseteq Topic /\ channels \in [DOMAIN channels -> SUBSET Listener]
        /\ pending \in [Listener -> SUBSET Notification] /\ triggers \in Nat
        /\ known \in [Listener -> SUBSET ID] /\ missed \in [Listener -> SUBSET ID]
    BY DEF Init, Topic
  <2>4. late \subseteq Listener /\ panicked \in BOOLEAN /\ ctx \in {"live", "done"} /\ loopPc = "start"
    BY DEF Init
  <2> QED
    BY <1>1, <2>1, <2>2, <2>3, <2>4 DEF TypeOK
<1>3. ChainInv
  BY SMTT(60), <1>1 DEF Init, ChainInv
<1>4. ListInv
  <2>1. nodes = <<>> /\ DOMAIN nodes = {} /\ 0 .. 0 - 1 = {} /\ Len(list) = 0
        /\ answered = <<>> /\ answered \in [{} -> DOMAIN chain]
    BY SMTT(60), <1>1 DEF Init
  <2>2. \E n \in 0 .. Len(list) : DOMAIN nodes = 0 .. n - 1
    BY SMTT(60), <2>1
  <2>3. nodes = [i \in DOMAIN nodes |-> nodes[i]]
    BY SMTT(60), <2>1
  <2> QED
    BY <2>1, <2>2, <2>3 DEF Init, ListInv, ListFollowsAnswers
<1>5. NotifierInv /\ IdleCancelIsSafe /\ \A l \in Listener : NewsInv(l)
  BY DEF Init, NotifierInv, IdleCancelIsSafe, NewsInv
<1> QED
  BY <1>2, <1>3, <1>4, <1>5 DEF IInv

\* The invariant holds of every execution of the registry.
THEOREM InductiveInvariant == Spec => []IInv
BY InitIInv, IInvStep, PTL DEF Spec

\* GetNodes never writes outside its slice (contractRegistry.go:106-115), whatever
\* blocks the endpoints answer for.
THEOREM GetNodesIsSafe == Spec => []GetNodesInRange
<1>1. IInv => GetNodesInRange
  <2> SUFFICES ASSUME IInv PROVE GetNodesInRange
    OBVIOUS
  <2>1. PICK n \in 0 .. Len(list) : DOMAIN nodes = 0 .. n - 1
    BY DEF IInv, ListInv
  <2>2. n \in 0 .. MaxNodes
    BY SMTT(60), ListFacts, RegistryAssumption DEF IInv
  <2> QED
    BY <2>1, <2>2 DEF GetNodesInRange
<1> QED
  BY <1>1, InductiveInvariant, PTL

\* Outside a refresh, every node is listed as in the last completed answer that held it,
\* and within one perhaps as in the answer being processed, whatever blocks the
\* answers were for (contractRegistry.go:131-177).
THEOREM ListIsTheAnswer == Spec => []ListFollowsAnswers
<1>1. IInv => ListFollowsAnswers
  BY DEF IInv, ListInv
<1> QED
  BY <1>1, InductiveInvariant, PTL

\* A refresh that read the newest block leaves the list equal to the contract's
\* (contractRegistry.go:131-153), for any number of nodes and blocks.
THEOREM RefreshedListIsFresh == Spec => []ListIsFresh
<1>1. IInv => ListIsFresh
  <2> SUFFICES ASSUME IInv, loopPc \in {"idle", "load", "stopped"}, block = Len(chain)
               PROVE  nodes = fromContract(block)
    BY DEF ListIsFresh
  <2>1. /\ nodes = [i \in DOMAIN nodes |-> nodes[i]]
        /\ \A i \in DOMAIN fromContract(block) : i \in DOMAIN nodes /\ answered[i] = block
        /\ \A i \in DOMAIN nodes : ListedAs(i, answered[i])
    BY DEF IInv, ListInv, ListFollowsAnswers
  <2>2. DOMAIN nodes = DOMAIN fromContract(block)
    <3>1. PICK n \in 0 .. Len(list) : DOMAIN nodes = 0 .. n - 1
      BY DEF IInv, ListInv
    <3>2. DOMAIN fromContract(block) = 0 .. Len(list) - 1 /\ Len(list) \in Nat
      BY ListFacts DEF IInv, TypeOK, fromContract
    <3>3. DOMAIN nodes \subseteq DOMAIN fromContract(block)
      BY SMTT(60), <3>1, <3>2
    <3> QED
      BY <2>1, <3>3
  <2>3. \A i \in DOMAIN nodes : nodes[i] = fromContract(block)[i]
    BY <2>1, <2>2 DEF ListedAs
  <2>4. fromContract(block) = [i \in DOMAIN fromContract(block) |-> fromContract(block)[i]]
    BY DEF fromContract
  <2> QED
    BY <2>1, <2>2, <2>3, <2>4
<1> QED
  BY <1>1, InductiveInvariant, PTL

\* No listener is told twice of a new node, and only one that registers between the
\* notification and the store misses it (contractRegistry.go:155-164).
THEOREM NewNodesAnnouncedOnce == Spec => []AnnouncedOnce
<1>1. IInv => AnnouncedOnce
  BY DEF IInv, NewsInv, AnnouncedOnce, Coming
<1> QED
  BY <1>1, InductiveInvariant, PTL

\* Every change of a listed node is on its way to all listeners of that node
\* (contractRegistry.go:166-177).
THEOREM ChangesAreAnnounced == Spec => ChangeAnnounced
<1> DEFINE Told == \A i \in DOMAIN nodes, l \in Listener :
                     nodes'[i] # nodes[i] /\ topic[l] = i /\ status[l] = "open"
                       => \E m \in pending'[l] \ pending[l] : i \in m.ids
<1>1. IInv /\ [Next]_vars => [Told]_vars
  <2> SUFFICES ASSUME IInv, [Next]_vars, NEW i \in DOMAIN nodes, NEW l \in Listener,
                      nodes'[i] # nodes[i], topic[l] = i, status[l] = "open"
               PROVE  \E m \in pending'[l] \ pending[l] : i \in m.ids
    OBVIOUS
  <2>t. TypeOK /\ ChainInv /\ ListInv /\ NotifierInv
    BY DEF IInv
  <2>1. processChangedNode
    <3>1. nodes' = nodes \/ processChangedNode \/ storeNewNodes
      BY DEF Next, vars, NewBlock, Cancel, Tick, StopLoop, refreshData, loadFromContract, loadFails,
             announceNewNodes, OnNewNodes, OnChangedNode, register, CancelSubscription, Receive,
             SendOnClosed, loopVars
    <3>2. storeNewNodes => nodes'[i] = nodes[i]
      BY DEF storeNewNodes, newNodes
    <3> QED
      BY <3>1, <3>2
  <2>2. PICK j \in changedNodes :
          /\ IF j \in DOMAIN channels THEN trigger(j, {j}) ELSE UNCHANGED listenerVars
          /\ nodes' = [nodes EXCEPT ![j] = fromContract(block)[j]]
    BY <2>1 DEF processChangedNode
  <2>3. i = j
    BY <2>2
  <2>4. i \in DOMAIN channels /\ {i} \in SUBSET ID
    BY <2>t, IDFacts DEF NotifierInv
  <2> DEFINE m == [n |-> triggers + 1, ids |-> {i}]
  <2>5. pending'[l] = pending[l] \cup {m} /\ m \notin pending[l]
    <3>1. trigger(i, {i})
      BY <2>2, <2>3, <2>4
    <3> QED
      BY <2>4, <2>t, <3>1, TriggerFacts
  <2>6. i \in m.ids
    OBVIOUS
  <2> HIDE DEF m
  <2> QED
    BY <2>5, <2>6
<1> QED
  BY <1>1, InductiveInvariant, PTL DEF Spec, ChangeAnnounced

\* A listener that cancels once, with nothing on its way to it, is sent nothing more and
\* does not end the process, for any number of listeners (notifier.go:24-42).
THEOREM IdleCancelsAreSafe == Spec => []IdleCancelIsSafe
<1>1. IInv => IdleCancelIsSafe
  BY DEF IInv
<1> QED
  BY <1>1, InductiveInvariant, PTL

\* The registry is a directory of identities: a prefix of what the contract has
\* registered, that grows and never changes a key (contractRegistry.go:131-177).
THEOREM RegistryIsDirectory == Spec => ImplementsDirectory
<1>1. IInv /\ [Next]_vars => [Directory!Next]_(Directory!vars)
  BY DirectoryStep DEF IInv
<1> QED
  BY <1>1, DirectoryInit, InductiveInvariant, PTL DEF Spec, ImplementsDirectory, Directory!Spec

\* What NodeDirectory is for holds of the registry: the key that a reader finds under an ID
\* is the one the contract has registered there, and the one it finds there ever after,
\* whatever is refreshed, missed or read from an earlier block (contractRegistry.go:131-177).
THEOREM DirectoryKeepsPromise == Spec => Directory!Promise
<1> DEFINE reg == [n \in DOMAIN list |-> convertNode(list[n]).SigningKey]
           dir == [n \in 1 .. listed |-> nodes[n - 1].SigningKey]
           Listed == \A n \in DOMAIN dir : n \in DOMAIN reg /\ dir[n] = reg[n]
           Kept == \A n \in DOMAIN dir : n \in DOMAIN dir' /\ dir'[n] = dir[n]
<1>0. IInv => listed \in Nat /\ listed <= Len(list) /\ DOMAIN nodes = 0 .. listed - 1
  <2> SUFFICES ASSUME IInv
               PROVE  listed \in Nat /\ listed <= Len(list) /\ DOMAIN nodes = 0 .. listed - 1
    OBVIOUS
  <2>1. PICK k \in 0 .. Len(list) : DOMAIN nodes = 0 .. k - 1
    BY DEF IInv, ListInv
  <2>2. Len(list) \in Nat /\ Len(list) <= MaxNodes /\ MaxNodes \in Nat
    BY ListFacts, RegistryAssumption DEF IInv
  <2>3. k \in 0 .. MaxNodes /\ k \in Nat /\ k <= Len(list)
    BY SMTT(60), <2>2
  <2> QED
    BY <2>1, <2>3, ListedIs DEF listed
<1>1. IInv => Listed
  <2> SUFFICES ASSUME IInv PROVE Listed
    OBVIOUS
  <2>1. Len(list) \in Nat /\ DOMAIN list = 1 .. Len(list)
    BY ListFacts DEF IInv
  <2>2. \A n \in 1 .. listed : n \in 1 .. Len(list) /\ n - 1 \in 0 .. listed - 1 /\ (n - 1) + 1 = n
    BY SMTT(60), <1>0, <2>1
  <2>3. \A n \in 1 .. listed : nodes[n - 1].SigningKey = convertNode(list[n]).SigningKey
    BY <1>0, <2>2 DEF IInv, ListInv
  <2> QED
    BY <2>1, <2>2, <2>3
<1>p. IInv' => Listed' /\ (listed \in Nat /\ listed <= Len(list) /\ DOMAIN nodes = 0 .. listed - 1)'
  BY <1>0, <1>1, PTL
<1>2. IInv /\ IInv' /\ [Next]_vars => Kept
  <2> SUFFICES ASSUME IInv, IInv', [Next]_vars PROVE Kept
    OBVIOUS
  <2>1. \A n \in DOMAIN list : n \in DOMAIN list' /\ list'[n].signingKeyPub = list[n].signingKeyPub
    BY ChainStep DEF IInv
  <2>2. \A n \in DOMAIN reg : reg'[n] = reg[n]
    BY <2>1 DEF convertNode
  <2>3. \A n \in DOMAIN dir : n \in DOMAIN dir'
    <3>1. 0 .. listed - 1 \subseteq 0 .. listed' - 1
      BY <1>0, <1>p, NodesGrow DEF IInv
    <3>2. \A n \in 1 .. listed : n \in Nat /\ n > 0 /\ n - 1 \in 0 .. listed - 1
      BY SMTT(60), <1>0
    <3>3. \A n \in 1 .. listed : n \in Nat /\ n > 0 /\ n - 1 \in 0 .. listed' - 1
      BY <3>1, <3>2
    <3>4. \A n \in 1 .. listed : n \in 1 .. listed'
      BY SMTT(60), <1>p, <3>3
    <3> QED
      BY <3>4
  <2> HIDE DEF reg, dir
  <2> QED
    BY <1>1, <1>p, <2>2, <2>3
<1>3. Kept => [Kept]_(Directory!vars)
  OBVIOUS
<1> QED
  BY <1>1, <1>2, <1>3, InductiveInvariant, PTL DEF Spec, Directory!Promise

=============================================================================
