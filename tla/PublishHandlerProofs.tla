------------------------ MODULE PublishHandlerProofs ------------------------
(* Steps of PublishPipeline: types, accepted rows, open transactions, identity and
   handlers. *)
EXTENDS PublishPipeline, FiniteSetTheorems, TLAPS

\* The prover of every leaf that names no other, and its time limit in seconds.
USE ZenonT(60)

\* A transaction whose caller gave up is still a transaction of its table.
LEMMA DisownType ==
  ASSUME NEW T, NEW O
  PROVE  /\ T \subseteq StagedTx => Disown(T, O) \subseteq StagedTx
         /\ T \subseteq GatewayTx => Disown(T, O) \subseteq GatewayTx
BY DEF Disown, StagedTx, GatewayTx

\* A staging transaction of Disown(T, O) is one of T: with the same row, and either
\* without an owner or untouched (a handler gave up, service.go:85-92).
LEMMA DisownStaged ==
  ASSUME NEW T \in SUBSET StagedTx, NEW O, NEW u \in Disown(T, O)
  PROVE  \E t \in T : u.row = t.row /\ (u.owner = None \/ (u = t /\ t.owner \notin O))
<1>1. PICK t \in T : u = IF t.owner \in O THEN [t EXCEPT !.owner = None] ELSE t
  BY DEF Disown
<1>2. t \in [row : Row, owner : Call \cup {None}]
  BY DEF StagedTx
<1>3. CASE t.owner \in O
  <2>1. u.row = t.row /\ u.owner = None
    BY <1>1, <1>2, <1>3
  <2> QED
    BY <1>1, <2>1
<1>4. CASE t.owner \notin O
  BY <1>1, <1>4
<1> QED
  BY <1>3, <1>4

\* The same for a transaction of the worker (publishWorker.go:118-133).
LEMMA DisownGateway ==
  ASSUME NEW T \in SUBSET GatewayTx, NEW O, NEW u \in Disown(T, O)
  PROVE  \E t \in T : /\ u.row = t.row /\ u.conflict = t.conflict
                     /\ (u.owner = None \/ (u = t /\ t.owner \notin O))
<1>1. PICK t \in T : u = IF t.owner \in O THEN [t EXCEPT !.owner = None] ELSE t
  BY DEF Disown
<1>2. t \in [row : GatewayRow, conflict : BOOLEAN, owner : Server \cup {None}]
  BY DEF GatewayTx
<1>3. CASE t.owner \in O
  <2>1. u.row = t.row /\ u.conflict = t.conflict /\ u.owner = None
    BY <1>1, <1>2, <1>3
  <2> QED
    BY <1>1, <2>1
<1>4. CASE t.owner \notin O
  BY <1>1, <1>4
<1> QED
  BY <1>3, <1>4

\* Every step of handlers, subscriptions, workers and database preserves the types.
LEMMA TypeStep == IInv /\ [Next]_vars => TypeOK'
<1> SUFFICES ASSUME IInv, [Next]_vars PROVE TypeOK'
  OBVIOUS
<1>c. call \in [Call -> CallState]
  BY DEF IInv, TypeOK
<1>t. stagedTx \subseteq StagedTx /\ gatewayTx \subseteq GatewayTx
  BY DEF IInv, TypeOK
<1>f. ASSUME Fault PROVE faults' \in 0 .. MaxFaults
  BY SMTT(60), <1>f, ConstantsAssumption DEF Fault, IInv, TypeOK
<1>1. ASSUME NEW i \in Server, Lifecycle(i) PROVE TypeOK'
  <2>1. ASSUME NEW d \in Identity, Start(i, d) PROVE TypeOK'
    BY <2>1 DEF Start, dbVars, subVars, wrkVars, IInv, TypeOK
  <2>2. CASE Cancel(i)
    BY <2>2, <1>f DEF Cancel, dbVars, subVars, wrkVars, IInv, TypeOK
  <2>3. ASSUME Die(i), faults' \in 0 .. MaxFaults PROVE TypeOK'
    <3>1. call' \in [Call -> CallState]
      <4>1. \A c \in Call : [call[c] EXCEPT !.pc = "error"] \in CallState
        BY <1>c DEF CallState
      <4> QED
        BY <1>c, <2>3, <4>1 DEF Die
    <3>2. stagedTx' \subseteq StagedTx /\ gatewayTx' \subseteq GatewayTx
      BY <2>3, <1>t, DisownType DEF Die
    <3> QED
      BY ZenonT(60), <2>3, <3>1, <3>2 DEF Die, IInv, TypeOK
  <2>4. CASE Crash(i)
    BY <2>3, <2>4, <1>f DEF Crash
  <2>5. CASE Exit(i)
    BY <2>3, <2>5 DEF Exit, IInv, TypeOK
  <2> QED
    BY <1>1, <2>1, <2>2, <2>4, <2>5 DEF Lifecycle
<1>2. ASSUME NEW c \in Call, Handler(c) PROVE TypeOK'
  <2>1. ASSUME NEW i \in Server, NEW e \in PayerEnv, PublishEnvelope(c, i, e) PROVE TypeOK'
    <3>1. call' \in [Call -> CallState]
      BY ZenonT(60), <1>c, <2>1 DEF PublishEnvelope, NewCall, CallState
    <3> QED
      BY <2>1, <3>1 DEF PublishEnvelope, dbVars, subVars, wrkVars, IInv, TypeOK
  <2>2. CASE InsertStaged(c)
    <3>1. call' \in [Call -> CallState]
      BY SMTT(60), <1>c, <2>2 DEF InsertStaged, CallState
    <3>2. stagedSeq' \in 0 .. MaxStaged
      BY SMTT(60), <2>2, ConstantsAssumption DEF InsertStaged, nextval, IInv, TypeOK
    <3>3. stagedTx' \subseteq StagedTx
      BY SMTT(60), <2>2 DEF InsertStaged, nextval, IInv, TypeOK, HandlerInv, StagedTx, Row
    <3> QED
      BY <2>2, <3>1, <3>2, <3>3 DEF InsertStaged, subVars, wrkVars, IInv, TypeOK
  <2>3. CASE InsertStagedFails(c)
    <3>1. call' \in [Call -> CallState]
      BY SMTT(60), <1>c, <2>3 DEF InsertStagedFails, CallState
    <3>2. stagedTx' \subseteq StagedTx
      BY <2>3, <1>t, DisownType DEF InsertStagedFails
    <3> QED
      BY ZenonT(60), <2>3, <1>f, <3>1, <3>2 DEF InsertStagedFails, subVars, wrkVars, IInv, TypeOK
  <2>4. CASE NotifyStagedPublish(c)
    <3>1. call' \in [Call -> CallState]
      BY SMTT(60), <1>c, <2>4 DEF NotifyStagedPublish, CallState
    <3>2. notifier' \in [Server -> BOOLEAN]
      BY ZenonT(60), <2>4 DEF NotifyStagedPublish, IInv, TypeOK
    <3> QED
      BY <2>4, <3>1, <3>2 DEF NotifyStagedPublish, dbVars, subVars, wrkVars, IInv, TypeOK
  <2>5. CASE Respond(c)
    <3>1. call[c].row \in Row /\ ident[call[c].server] \in Identity
      BY <2>5 DEF Respond, IInv, TypeOK, HandlerInv, IdentityInv, AcceptedRows,
                  PublishedRows, GatewayRow, OriginatorEnv
    <3>2. SignStagedEnvelope(ident[call[c].server], call[c].row) \in OriginatorEnv
      BY <3>1 DEF SignStagedEnvelope, OriginatorEnv
    <3>3. call' \in [Call -> CallState]
      <4>1. CASE IsValidSequenceID(call[c].row.id)
        BY ZenonT(60), <1>c, <2>5, <3>2, <4>1 DEF Respond, CallState
      <4>2. CASE ~IsValidSequenceID(call[c].row.id)
        BY SMTT(60), <1>c, <2>5, <4>2 DEF Respond, CallState
      <4> QED
        BY <4>1, <4>2
    <3> QED
      BY <2>5, <3>3 DEF Respond, dbVars, subVars, wrkVars, IInv, TypeOK
  <2> QED
    BY <1>2, <2>1, <2>2, <2>3, <2>4, <2>5 DEF Handler
<1>3. ASSUME NEW i \in Server, Subscription(i) PROVE TypeOK'
  <2>1. CASE Query(i)
    <3> DEFINE results == SelectStagedOriginatorEnvelopes(lastSeenID[i])
    <3>1. results \subseteq Row
      BY DEF SelectStagedOriginatorEnvelopes, IInv, TypeOK
    <3>2. lastSeenID' \in [Server -> Nat] /\ page' \in [Server -> SUBSET Row]
      <4> HIDE DEF results
      <4>1. CASE UNCHANGED <<lastSeenID, page>>
        BY <4>1 DEF IInv, TypeOK
      <4>2. ASSUME NEW r \in results,
                   lastSeenID' = [lastSeenID EXCEPT ![i] = r.id],
                   page' = [page EXCEPT ![i] = results]
            PROVE  lastSeenID' \in [Server -> Nat] /\ page' \in [Server -> SUBSET Row]
        BY <3>1, <4>2 DEF IInv, TypeOK, Row
      <4> QED
        BY <2>1, <4>1, <4>2 DEF Query, results
    <3>3. subPc' \in [Server -> {"poll", "send", "select", "closed"}]
      BY SMTT(60), <2>1 DEF Query, IInv, TypeOK
    <3> QED
      BY <2>1, <3>2, <3>3 DEF Query, dbVars, wrkVars, IInv, TypeOK
  <2>2. CASE QueryFails(i)
    BY <2>2, <1>f DEF QueryFails, dbVars, wrkVars, IInv, TypeOK
  <2>3. CASE QueryCancelled(i)
    BY <2>3 DEF QueryCancelled, dbVars, wrkVars, IInv, TypeOK
  <2>4. CASE SendPage(i)
    BY <2>4 DEF SendPage, dbVars, IInv, TypeOK
  <2>5. CASE WakeOnNotifier(i)
    BY <2>5 DEF WakeOnNotifier, dbVars, wrkVars, IInv, TypeOK
  <2>6. CASE WakeOnTimer(i)
    BY <2>6 DEF WakeOnTimer, dbVars, wrkVars, IInv, TypeOK
  <2>7. CASE CloseUpdates(i)
    BY <2>7 DEF CloseUpdates, dbVars, wrkVars, IInv, TypeOK
  <2> QED
    BY <1>3, <2>1, <2>2, <2>3, <2>4, <2>5, <2>6, <2>7 DEF Subscription
<1>4. ASSUME NEW i \in Server, Worker(i) PROVE TypeOK'
  <2>1. ASSUME NEW r \in batch[i], InsertGatewayEnvelope(i, r) PROVE TypeOK'
    <3>2. r \in Row /\ r.id \in Nat \ {0} /\ ident[i] \in Identity
      BY SMTT(60), <2>1 DEF InsertGatewayEnvelope, Running, Alive, IInv, TypeOK, IdentityInv, Row
    <3>3. SignStagedEnvelope(ident[i], r) \in OriginatorEnv
      BY <3>2 DEF SignStagedEnvelope, OriginatorEnv
    <3>4. Conflicts(ident[i].node, r.id) \in BOOLEAN
      BY DEF Conflicts
    <3>5. gatewaySeq' \in Nat /\ nextval(gatewaySeq) \in Nat \ {0}
      BY SMTT(60), <2>1 DEF InsertGatewayEnvelope, nextval, IInv, TypeOK
    <3>6. gatewayTx' \subseteq GatewayTx
      <4> DEFINE row == [id |-> nextval(gatewaySeq), node |-> ident[i].node, seq |-> r.id,
                         env |-> SignStagedEnvelope(ident[i], r)]
                 tx  == [row |-> row, conflict |-> Conflicts(ident[i].node, r.id), owner |-> i]
      <4>1. row \in GatewayRow
        BY <3>2, <3>3, <3>5 DEF GatewayRow
      <4>2. tx \in GatewayTx
        BY <3>4, <4>1 DEF GatewayTx
      <4>3. gatewayTx' = gatewayTx \cup {tx}
        BY <2>1 DEF InsertGatewayEnvelope
      <4> QED
        BY <1>t, <4>2, <4>3
    <3> QED
      BY <2>1, <3>5, <3>6 DEF InsertGatewayEnvelope, subVars, IInv, TypeOK
  <2>2. CASE InsertGatewayFails(i)
    <3>1. gatewayTx' \subseteq GatewayTx
      BY <2>2, <1>t, DisownType DEF InsertGatewayFails
    <3>2. faults' \in 0 .. MaxFaults
      BY <2>2, <1>f DEF InsertGatewayFails, IInv, TypeOK
    <3> QED
      BY ZenonT(60), <2>2, <3>1, <3>2 DEF InsertGatewayFails, subVars, IInv, TypeOK
  <2>3. ASSUME NEW r \in batch[i], DeleteStaged(i, r) PROVE TypeOK'
    <3>1. IsFiniteSet(staged')
      BY <2>3, FS_Subset DEF DeleteStaged, IInv, TypeOK
    <3> QED
      BY <2>3, <3>1 DEF DeleteStaged, NextRow, subVars, IInv, TypeOK
  <2>4. ASSUME NEW r \in batch[i], DeleteStagedFails(i, r) PROVE TypeOK'
    BY <2>4, <1>f DEF DeleteStagedFails, NextRow, dbVars, subVars, IInv, TypeOK
  <2>5. CASE StopWorker(i)
    BY <2>5 DEF StopWorker, dbVars, subVars, IInv, TypeOK
  <2> QED
    BY <1>4, <2>1, <2>2, <2>3, <2>4, <2>5 DEF Worker
<1>5. ASSUME NEW t \in stagedTx, CommitStaged(t) \/ AbortStaged(t) PROVE TypeOK'
  <2>1. t.row \in Row /\ t.owner \in Call \cup {None}
    BY <1>t DEF StagedTx
  <2>2. CASE CommitStaged(t)
    <3>1. call' \in [Call -> CallState]
      BY ZenonT(60), <1>c, <2>1, <2>2 DEF CommitStaged, CallState
    <3>2. staged' \subseteq Row /\ IsFiniteSet(staged')
      BY ZenonT(60), <2>1, <2>2, FS_AddElement DEF CommitStaged, IInv, TypeOK
    <3> QED
      BY <2>2, <3>1, <3>2 DEF CommitStaged, subVars, wrkVars, IInv, TypeOK
  <2>3. CASE AbortStaged(t)
    <3>1. call' \in [Call -> CallState]
      BY SMTT(60), <1>c, <2>1, <2>3 DEF AbortStaged, CallState
    <3> QED
      BY <2>3, <1>f, <3>1 DEF AbortStaged, subVars, wrkVars, IInv, TypeOK
  <2> QED
    BY <1>5, <2>2, <2>3
<1>6. ASSUME NEW t \in gatewayTx, CommitGateway(t) \/ AbortGateway(t) PROVE TypeOK'
  <2>1. t.row \in GatewayRow /\ t.owner \in Server \cup {None}
    BY <1>t DEF GatewayTx
  <2>2. CASE CommitGateway(t)
    BY <2>1, <2>2 DEF CommitGateway, subVars, IInv, TypeOK
  <2>3. CASE AbortGateway(t)
    BY <2>1, <2>3, <1>f DEF AbortGateway, subVars, IInv, TypeOK
  <2> QED
    BY <1>6, <2>2, <2>3
<1>7. CASE UNCHANGED vars
  BY <1>7 DEF vars, dbVars, subVars, wrkVars, IInv, TypeOK
<1> QED
  BY <1>1, <1>2, <1>3, <1>4, <1>5, <1>6, <1>7 DEF Next, Database

-----------------------------------------------------------------------------
(* Which rows are accepted *)

\* Accepted rows are never lost: deleting a staged row (publishWorker.go:135-146) finds
\* it published, and only the commit of a staging insert adds a row.
LEMMA AcceptedStep ==
  ASSUME IInv, [Next]_vars
  PROVE  \/ AcceptedRows' = AcceptedRows
         \/ \E t \in stagedTx : CommitStaged(t) /\ AcceptedRows' = AcceptedRows \cup {t.row}
<1>1. ASSUME UNCHANGED <<staged, gateway>> PROVE AcceptedRows' = AcceptedRows
  BY <1>1 DEF AcceptedRows, PublishedRows
<1>2. ASSUME NEW i \in Server, Lifecycle(i) PROVE UNCHANGED <<staged, gateway>>
  BY <1>2 DEF Lifecycle, Start, Cancel, Crash, Exit, Die, dbVars
<1>3. ASSUME NEW c \in Call, Handler(c) PROVE UNCHANGED <<staged, gateway>>
  BY ZenonT(60), <1>3 DEF Handler, PublishEnvelope, InsertStaged, InsertStagedFails,
              NotifyStagedPublish, Respond, dbVars
<1>4. ASSUME NEW i \in Server, Subscription(i) PROVE UNCHANGED <<staged, gateway>>
  BY <1>4 DEF Subscription, Query, QueryFails, QueryCancelled, SendPage,
              WakeOnNotifier, WakeOnTimer, CloseUpdates, dbVars
<1>5. ASSUME NEW i \in Server, Worker(i) PROVE AcceptedRows' = AcceptedRows
  <2>1. ASSUME NEW r \in batch[i], DeleteStaged(i, r) PROVE AcceptedRows' = AcceptedRows
    <3>2. PICK g \in gateway : g.seq = r.id
      BY <2>1 DEF DeleteStaged, IInv, InFlightInv, Published
    <3>3. g.env.row \in PublishedRows /\ g.env.row.id = r.id
      BY <3>2 DEF PublishedRows, IInv, IdentityInv
    <3>4. \A q \in staged : q.id = r.id => q \in PublishedRows
      BY <3>3 DEF AcceptedRows, IInv, StagingInv
    <3> QED
      BY <2>1, <3>4 DEF DeleteStaged, AcceptedRows, PublishedRows
  <2>2. ASSUME NEW r \in batch[i], InsertGatewayEnvelope(i, r) \/ DeleteStagedFails(i, r)
        PROVE  UNCHANGED <<staged, gateway>>
    BY <2>2 DEF InsertGatewayEnvelope, DeleteStagedFails, dbVars
  <2>3. ASSUME InsertGatewayFails(i) \/ StopWorker(i) PROVE UNCHANGED <<staged, gateway>>
    BY <2>3 DEF InsertGatewayFails, StopWorker, dbVars
  <2> QED
    BY <1>1, <1>5, <2>1, <2>2, <2>3 DEF Worker
<1>6. ASSUME NEW t \in stagedTx, CommitStaged(t)
      PROVE  AcceptedRows' = AcceptedRows \cup {t.row}
  BY <1>6 DEF CommitStaged, AcceptedRows, PublishedRows
<1>7. ASSUME NEW t \in stagedTx, AbortStaged(t) PROVE UNCHANGED <<staged, gateway>>
  BY <1>7 DEF AbortStaged
<1>8. ASSUME NEW t \in gatewayTx, CommitGateway(t) PROVE AcceptedRows' = AcceptedRows
  BY SMTT(60), <1>8 DEF CommitGateway, AcceptedRows, PublishedRows, IInv, GatewayInv
<1>9. ASSUME NEW t \in gatewayTx, AbortGateway(t) PROVE UNCHANGED <<staged, gateway>>
  BY <1>9 DEF AbortGateway
<1>10. CASE UNCHANGED vars
  BY <1>1, <1>10 DEF vars, dbVars
<1> QED
  BY <1>1, <1>2, <1>3, <1>4, <1>5, <1>6, <1>7, <1>8, <1>9, <1>10 DEF Next, Database

-----------------------------------------------------------------------------
(* Which transactions are open *)

\* How the open staging transactions change: a new one takes the lock and the next ID,
\* the others end or lose their owner.
LEMMA StagedTxStep ==
  ASSUME IInv, [Next]_vars
  PROVE  \/ \E c \in Call : InsertStaged(c)
         \/ \A u \in stagedTx' : \E t \in stagedTx : u.row = t.row
<1>t. stagedTx \in SUBSET StagedTx
  BY DEF IInv, TypeOK
<1> DEFINE Goal == \A u \in stagedTx' : \E t \in stagedTx : u.row = t.row
<1>0. ASSUME stagedTx' \subseteq stagedTx PROVE Goal
  BY <1>0
<1>d. ASSUME NEW O, stagedTx' = Disown(stagedTx, O) PROVE Goal
  BY SMTT(60), <1>d, <1>t, DisownStaged
<1>1. ASSUME NEW i \in Server, Lifecycle(i) PROVE Goal
  BY <1>0, <1>1, <1>d DEF Lifecycle, Start, Cancel, Crash, Exit, Die, dbVars
<1>2. ASSUME NEW c \in Call, Handler(c) PROVE InsertStaged(c) \/ Goal
  BY ZenonT(60), <1>0, <1>2, <1>d DEF Handler, PublishEnvelope, InsertStagedFails,
                          NotifyStagedPublish, Respond, dbVars
<1>3. ASSUME NEW i \in Server, Subscription(i) PROVE Goal
  BY <1>0, <1>3 DEF Subscription, Query, QueryFails, QueryCancelled, SendPage,
                    WakeOnNotifier, WakeOnTimer, CloseUpdates, dbVars
<1>4. ASSUME NEW i \in Server, Worker(i) PROVE Goal
  BY <1>0, <1>4 DEF Worker, InsertGatewayEnvelope, InsertGatewayFails, DeleteStaged,
                    DeleteStagedFails, StopWorker, dbVars
<1>5. ASSUME Database PROVE Goal
  BY ZenonT(60), <1>0, <1>5 DEF Database, CommitStaged, AbortStaged, CommitGateway, AbortGateway
<1>6. CASE UNCHANGED vars
  BY <1>0, <1>6 DEF vars, dbVars
<1> QED
  BY <1>1, <1>2, <1>3, <1>4, <1>5, <1>6 DEF Next

\* How the open gateway transactions change.
LEMMA GatewayTxStep ==
  ASSUME IInv, [Next]_vars
  PROVE  \/ \E i \in Server : \E r \in batch[i] : InsertGatewayEnvelope(i, r)
         \/ \A u \in gatewayTx' : \E t \in gatewayTx :
              u.row = t.row /\ u.conflict = t.conflict /\ (u.owner = None \/ u = t)
<1>t. gatewayTx \in SUBSET GatewayTx
  BY DEF IInv, TypeOK
<1> DEFINE Goal == \A u \in gatewayTx' : \E t \in gatewayTx :
                     u.row = t.row /\ u.conflict = t.conflict /\ (u.owner = None \/ u = t)
<1>0. ASSUME gatewayTx' \subseteq gatewayTx PROVE Goal
  BY <1>0
<1>d. ASSUME NEW O, gatewayTx' = Disown(gatewayTx, O) PROVE Goal
  BY SMTT(60), <1>d, <1>t, DisownGateway
<1>1. ASSUME NEW i \in Server, Lifecycle(i) PROVE Goal
  BY <1>0, <1>1, <1>d DEF Lifecycle, Start, Cancel, Crash, Exit, Die, dbVars
<1>2. ASSUME NEW c \in Call, Handler(c) PROVE Goal
  BY ZenonT(60), <1>0, <1>2 DEF Handler, PublishEnvelope, InsertStaged, InsertStagedFails,
                    NotifyStagedPublish, Respond, dbVars
<1>3. ASSUME NEW i \in Server, Subscription(i) PROVE Goal
  BY <1>0, <1>3 DEF Subscription, Query, QueryFails, QueryCancelled, SendPage,
                    WakeOnNotifier, WakeOnTimer, CloseUpdates, dbVars
<1>4. ASSUME NEW i \in Server, Worker(i)
      PROVE  (\E r \in batch[i] : InsertGatewayEnvelope(i, r)) \/ Goal
  BY ZenonT(60), <1>0, <1>4, <1>d DEF Worker, InsertGatewayFails, DeleteStaged, DeleteStagedFails,
                          StopWorker, dbVars
<1>5. ASSUME Database PROVE Goal
  BY ZenonT(60), <1>0, <1>5 DEF Database, CommitStaged, AbortStaged, CommitGateway, AbortGateway
<1>6. CASE UNCHANGED vars
  BY <1>0, <1>6 DEF vars, dbVars
<1> QED
  BY <1>1, <1>2, <1>3, <1>4, <1>5, <1>6 DEF Next

-----------------------------------------------------------------------------
(* Identity *)

\* node_info is written once; only Start changes who is up under which identity.
LEMMA IdentityVarsStep ==
  ASSUME IInv, [Next]_vars
  PROVE  /\ nodeInfo # None => nodeInfo' = nodeInfo
         /\ \A i \in Server : Alive(i)' => ident'[i] = nodeInfo' /\ nodeInfo' # None
<1> DEFINE Goal == /\ nodeInfo # None => nodeInfo' = nodeInfo
                   /\ \A i \in Server : Alive(i)' => ident'[i] = nodeInfo' /\ nodeInfo' # None
<1>0. ASSUME UNCHANGED <<nodeInfo, ident, proc>> PROVE Goal
  BY <1>0 DEF Alive, IInv, IdentityInv
<1>1. ASSUME NEW i \in Server, Lifecycle(i) PROVE Goal
  <2>1. ASSUME NEW d \in Identity, Start(i, d) PROVE Goal
    <3>1. d # None
      BY ConstantsAssumption
    <3>2. CASE nodeInfo = None
      BY <2>1, <3>1, <3>2 DEF Start, Alive, IInv, TypeOK, IdentityInv
    <3>3. CASE nodeInfo # None
      <4>1. nodeInfo = d
        BY <2>1, <3>3, ConstantsAssumption DEF Start, ensureDatabaseMatches, IInv, TypeOK
      <4> QED
        BY <2>1, <3>3, <4>1 DEF Start, Alive, IInv, TypeOK, IdentityInv
    <3> QED
      BY <3>2, <3>3
  <2>2. CASE Cancel(i)
    BY <2>2 DEF Cancel, Running, Alive, IInv, TypeOK, IdentityInv
  <2>3. CASE Die(i)
    BY <2>3 DEF Die, Alive, IInv, TypeOK, IdentityInv
  <2> QED
    BY <1>1, <2>1, <2>2, <2>3 DEF Lifecycle, Crash, Exit
<1>2. ASSUME NEW c \in Call, Handler(c) PROVE Goal
  BY ZenonT(60), <1>0, <1>2 DEF Handler, PublishEnvelope, InsertStaged, InsertStagedFails,
                    NotifyStagedPublish, Respond
<1>3. ASSUME NEW i \in Server, Subscription(i) PROVE Goal
  BY <1>0, <1>3 DEF Subscription, Query, QueryFails, QueryCancelled, SendPage,
                    WakeOnNotifier, WakeOnTimer, CloseUpdates
<1>4. ASSUME NEW i \in Server, Worker(i) PROVE Goal
  BY <1>0, <1>4 DEF Worker, InsertGatewayEnvelope, InsertGatewayFails, DeleteStaged,
                    DeleteStagedFails, StopWorker
<1>5. ASSUME Database PROVE Goal
  BY ZenonT(60), <1>0, <1>5 DEF Database, CommitStaged, AbortStaged, CommitGateway, AbortGateway
<1>6. CASE UNCHANGED vars
  BY <1>0, <1>6 DEF vars
<1> QED
  BY <1>1, <1>2, <1>3, <1>4, <1>5, <1>6 DEF Next

\* gateway_envelopes changes only by the commit of an insert that met no conflict.
LEMMA GatewayStep ==
  ASSUME IInv, [Next]_vars
  PROVE  \/ gateway' = gateway
         \/ \E t \in gatewayTx : CommitGateway(t) /\ ~t.conflict /\ gateway' = gateway \cup {t.row}
<1>1. ASSUME NEW i \in Server, Lifecycle(i) PROVE gateway' = gateway
  BY <1>1 DEF Lifecycle, Start, Cancel, Crash, Exit, Die, dbVars
<1>2. ASSUME NEW c \in Call, Handler(c) PROVE gateway' = gateway
  BY ZenonT(60), <1>2 DEF Handler, PublishEnvelope, InsertStaged, InsertStagedFails,
              NotifyStagedPublish, Respond, dbVars
<1>3. ASSUME NEW i \in Server, Subscription(i) PROVE gateway' = gateway
  BY <1>3 DEF Subscription, Query, QueryFails, QueryCancelled, SendPage,
              WakeOnNotifier, WakeOnTimer, CloseUpdates, dbVars
<1>4. ASSUME NEW i \in Server, Worker(i) PROVE gateway' = gateway
  BY <1>4 DEF Worker, InsertGatewayEnvelope, InsertGatewayFails, DeleteStaged,
              DeleteStagedFails, StopWorker, dbVars
<1>5. ASSUME NEW t \in gatewayTx, CommitGateway(t)
      PROVE  gateway' = gateway \/ (~t.conflict /\ gateway' = gateway \cup {t.row})
  BY <1>5 DEF CommitGateway
<1>6. ASSUME NEW t \in gatewayTx, AbortGateway(t) PROVE gateway' = gateway
  BY <1>6 DEF AbortGateway
<1>7. ASSUME NEW t \in stagedTx, CommitStaged(t) \/ AbortStaged(t) PROVE gateway' = gateway
  BY <1>7 DEF CommitStaged, AbortStaged
<1>8. CASE UNCHANGED vars
  BY <1>8 DEF vars, dbVars
<1> QED
  BY <1>1, <1>2, <1>3, <1>4, <1>5, <1>6, <1>7, <1>8 DEF Next, Database

\* Processes, published rows and pending inserts keep carrying the identity of node_info.
LEMMA IdentityStep ==
  ASSUME IInv, [Next]_vars
  PROVE  IdentityInv'
<1>1. \A i \in Server : Alive(i)' => ident'[i] = nodeInfo' /\ nodeInfo' # None
  BY IdentityVarsStep
<1>2. nodeInfo # None => nodeInfo' = nodeInfo
  BY IdentityVarsStep
<1> DEFINE Ours(g) == /\ nodeInfo # None /\ g.env.signer = nodeInfo
                      /\ g.node = nodeInfo.node /\ g.seq = g.env.row.id
<1>3. \A t \in gatewayTx : Ours(t.row)
  BY DEF IInv, IdentityInv
<1>4. \A g \in gateway' : Ours(g)
  BY SMTT(60), <1>3, GatewayStep DEF IInv, IdentityInv
<1>5. \A t \in gatewayTx' : Ours(t.row)
  <2>1. ASSUME NEW i \in Server, NEW r \in batch[i], InsertGatewayEnvelope(i, r)
        PROVE  \A t \in gatewayTx' : Ours(t.row)
    <3>1. ident[i] = nodeInfo /\ nodeInfo # None
      BY <2>1 DEF InsertGatewayEnvelope, Running, Alive, IInv, IdentityInv
    <3>2. PICK k, o :
            gatewayTx' = gatewayTx \cup
              {[row |-> [id |-> nextval(gatewaySeq), node |-> ident[i].node, seq |-> r.id,
                         env |-> [signer |-> ident[i], row |-> r]],
                conflict |-> k, owner |-> o]}
      BY <2>1 DEF InsertGatewayEnvelope, SignStagedEnvelope
    <3>3. ASSUME NEW t \in gatewayTx', t \notin gatewayTx PROVE Ours(t.row)
      BY SMTT(60), <3>1, <3>2, <3>3
    <3> QED
      BY <1>3, <3>3
  <2> QED
    BY <1>3, <2>1, GatewayTxStep
<1> DEFINE Ok(r) == nodeInfo # None /\ Accepts(nodeInfo, r.env)
<1>6. \A t \in stagedTx : Ok(t.row)
  BY DEF IInv, IdentityInv
<1>7. \A r \in AcceptedRows' : Ok(r)
  BY <1>6, AcceptedStep DEF IInv, IdentityInv
<1>8. \A t \in stagedTx' : Ok(t.row)
  <2>1. ASSUME NEW c \in Call, InsertStaged(c) PROVE \A t \in stagedTx' : Ok(t.row)
    <3>1. Accepts(nodeInfo, call[c].env) /\ nodeInfo # None
      BY <2>1 DEF InsertStaged, IInv, HandlerInv, IdentityInv
    <3> HIDE DEF Ok
    <3>2. \A id : Ok([id |-> id, env |-> call[c].env])
      BY <3>1 DEF Ok
    <3> QED
      BY SMTT(60), <1>6, <2>1, <3>2 DEF InsertStaged
  <2> HIDE DEF Ok
  <2> QED
    BY <1>6, <2>1, StagedTxStep
<1>9. \A g \in gateway' \cup {t.row : t \in gatewayTx'} :
        /\ nodeInfo' # None /\ g.env.signer = nodeInfo'
        /\ g.node = nodeInfo'.node /\ g.seq = g.env.row.id
  BY <1>2, <1>4, <1>5
<1>10. \A r \in AcceptedRows' \cup {t.row : t \in stagedTx'} :
         nodeInfo' # None /\ Accepts(nodeInfo', r.env)
  <2> HIDE DEF Ok
  <2>1. \A r : Ok(r) => nodeInfo' # None /\ Accepts(nodeInfo', r.env)
    BY <1>2 DEF Ok
  <2> QED
    BY <1>7, <1>8, <2>1
<1> QED
  BY <1>1, <1>9, <1>10 DEF IdentityInv, Accepts, validateClientInfo

-----------------------------------------------------------------------------
(* Handlers *)

\* The handlers' part of the invariant is preserved: a handler waits for its own
\* transaction, and what it answers is accepted (service.go:64-101).
LEMMA HandlerStep ==
  ASSUME IInv, [Next]_vars
  PROVE  HandlerInv'
<1>a. AcceptedRows \subseteq AcceptedRows'
  BY AcceptedStep
<1>n. nodeInfo # None => nodeInfo' = nodeInfo
  BY IdentityVarsStep
<1>r. \A r \in AcceptedRows : nodeInfo # None
  BY DEF IInv, IdentityInv
<1>i. \A i \in Server : Alive(i) => nodeInfo # None /\ ident[i] = nodeInfo
  BY DEF IInv, IdentityInv
<1>c. call \in [Call -> CallState]
  BY DEF IInv, TypeOK
<1>t. stagedTx \in SUBSET StagedTx
  BY DEF IInv, TypeOK
<1> DEFINE Good(s) ==
      /\ s.pc \in {"insert", "tx", "notify", "sign"} => s.server \in Server /\ proc'[s.server] # "down"
      /\ s.pc \in {"insert", "tx"} => s.env \in PayerEnv /\ Accepts(nodeInfo', s.env)
      /\ s.pc \in {"notify", "sign", "ok"} => s.row \in AcceptedRows'
      /\ s.pc = "ok" => s.reply = SignStagedEnvelope(nodeInfo', s.row)
<1> DEFINE Owned(t) == t.owner # None => call'[t.owner].pc = "tx" /\ call'[t.owner].env = t.row.env
<1>h. \A c \in Call :
        /\ call[c].pc \in {"insert", "tx", "notify", "sign"} =>
             call[c].server \in Server /\ Alive(call[c].server)
        /\ call[c].pc \in {"insert", "tx"} =>
             call[c].env \in PayerEnv /\ Accepts(nodeInfo, call[c].env)
        /\ call[c].pc \in {"notify", "sign", "ok"} => call[c].row \in AcceptedRows
        /\ call[c].pc = "ok" => call[c].reply = SignStagedEnvelope(nodeInfo, call[c].row)
  BY DEF IInv, HandlerInv
<1>o. \A t \in stagedTx : t.owner # None =>
        t.owner \in Call /\ call[t.owner].pc = "tx" /\ call[t.owner].env = t.row.env
  BY <1>t DEF IInv, HandlerInv, StagedTx
<1>q. ASSUME \A c \in Call : Good(call'[c]), \A t \in stagedTx' : Owned(t)
      PROVE  HandlerInv'
  BY <1>q DEF HandlerInv, Alive
\* A call that does not change stays good as long as its server is alive.
<1>g. ASSUME NEW c \in Call,
             call[c].pc \in {"insert", "tx", "notify", "sign"} => proc'[call[c].server] # "down"
      PROVE  Good(call[c])
  <2>1. call[c].pc \in {"insert", "tx"} => Accepts(nodeInfo', call[c].env)
    BY <1>h, <1>i, <1>n
  <2>2. call[c].pc = "ok" => call[c].reply = SignStagedEnvelope(nodeInfo', call[c].row)
    BY <1>h, <1>r, <1>n
  <2> QED
    BY <1>g, <1>h, <1>a, <2>1, <2>2
<1> HIDE DEF Good
<1>0. ASSUME UNCHANGED <<stagedTx, call>>, \A i \in Server : Alive(i) => proc'[i] # "down"
      PROVE  HandlerInv'
  <2>1. \A c \in Call : Good(call[c])
    BY <1>0, <1>g, <1>h
  <2> QED
    BY <1>0, <1>o, <1>q, <2>1
<1>1. ASSUME NEW i \in Server, Lifecycle(i) PROVE HandlerInv'
  <2>1. ASSUME NEW d \in Identity, Start(i, d) PROVE HandlerInv'
    BY <1>0, <2>1 DEF Start, Alive, dbVars, IInv, TypeOK
  <2>2. CASE Cancel(i)
    BY <1>0, <2>2 DEF Cancel, Running, Alive, dbVars, IInv, TypeOK
  <2>3. ASSUME Die(i) PROVE HandlerInv'
    <3>1. ASSUME NEW c \in Call PROVE Good(call'[c])
      <4>1. CASE call[c].server = i /\ call[c].pc \notin {"ok", "error"}
        <5>1. call'[c].pc = "error"
          BY <1>c, <2>3, <4>1 DEF Die, CallState
        <5> QED
          BY <5>1 DEF Good
      <4>2. CASE ~(call[c].server = i /\ call[c].pc \notin {"ok", "error"})
        <5>1. call'[c] = call[c]
          BY <2>3, <4>2 DEF Die
        <5>2. call[c].pc \in {"insert", "tx", "notify", "sign"} => proc'[call[c].server] # "down"
          BY <1>h, <2>3, <4>2 DEF Die, Alive, IInv, TypeOK
        <5> QED
          BY <1>g, <5>1, <5>2
      <4> QED
        BY <4>1, <4>2
    <3>2. ASSUME NEW u \in stagedTx' PROVE Owned(u)
      <4>1. PICK t \in stagedTx :
              u.owner = None \/ (u = t /\ t.owner \notin {c \in Call : call[c].server = i})
        BY SMTT(60), <1>t, <2>3, DisownStaged DEF Die
      <4>2. CASE u = t /\ t.owner \in Call /\ call[t.owner].server # i
        <5>1. call'[t.owner] = call[t.owner]
          BY <2>3, <4>2 DEF Die
        <5> QED
          BY <1>o, <4>2, <5>1
      <4> QED
        BY <1>o, <4>1, <4>2
    <3> QED
      BY <1>q, <3>1, <3>2
  <2> QED
    BY <1>1, <2>1, <2>2, <2>3 DEF Lifecycle, Crash, Exit
\* A handler step changes its own call; nothing dies.
<1>e. ASSUME NEW c \in Call, UNCHANGED proc, Good(call'[c]),
             \A x \in Call \ {c} : call'[x] = call[x],
             \A t \in stagedTx' : Owned(t)
      PROVE  HandlerInv'
  <2>1. ASSUME NEW x \in Call PROVE Good(call'[x])
    BY <1>e, <1>g, <1>h DEF Alive
  <2> QED
    BY <1>e, <1>q, <2>1
<1>2. ASSUME NEW c \in Call, Handler(c) PROVE HandlerInv'
  <2>1. ASSUME NEW i \in Server, NEW e \in PayerEnv, PublishEnvelope(c, i, e)
        PROVE  HandlerInv'
    <3>1. \A x \in Call \ {c} : call'[x] = call[x]
      BY <1>c, <2>1 DEF PublishEnvelope
    <3>2. \A t \in stagedTx' : Owned(t)
      BY <1>o, <2>1, <3>1 DEF PublishEnvelope, dbVars
    <3>3. Good(call'[c])
      <4>1. CASE Accepts(ident[i], e)
        <5>1. /\ call'[c].pc = "insert" /\ call'[c].server = i /\ call'[c].env = e
          BY <1>c, <2>1, <4>1 DEF PublishEnvelope, NewCall
        <5>2. Accepts(nodeInfo', e) /\ proc'[i] # "down"
          BY <1>i, <1>n, <2>1, <4>1 DEF PublishEnvelope, Alive
        <5> QED
          BY <5>1, <5>2 DEF Good
      <4>2. CASE ~Accepts(ident[i], e)
        <5>1. call'[c].pc = "error"
          BY <1>c, <2>1, <4>2 DEF PublishEnvelope, NewCall
        <5> QED
          BY <5>1 DEF Good
      <4> QED
        BY <4>1, <4>2
    <3> QED
      BY <1>e, <2>1, <3>1, <3>2, <3>3 DEF PublishEnvelope
  <2>2. CASE InsertStaged(c)
    <3>1. \A x \in Call \ {c} : call'[x] = call[x]
      BY <1>c, <2>2 DEF InsertStaged
    <3>2. call'[c] = [call[c] EXCEPT !.pc = "tx"]
      BY <1>c, <2>2 DEF InsertStaged
    <3>3. /\ call'[c].pc = "tx" /\ call'[c].server = call[c].server
          /\ call'[c].env = call[c].env
      BY SMTT(60), <1>c, <3>2 DEF CallState
    <3>4. \A t \in stagedTx' : Owned(t)
      BY SMTT(60), <1>o, <2>2, <3>1, <3>3 DEF InsertStaged
    <3>5. Good(call[c])
      BY <1>g, <1>h, <2>2 DEF InsertStaged, Alive
    <3>6. Good(call'[c])
      BY <2>2, <3>3, <3>5 DEF InsertStaged, Good
    <3> QED
      BY <1>e, <2>2, <3>1, <3>4, <3>6 DEF InsertStaged
  <2>3. CASE InsertStagedFails(c)
    <3>1. \A x \in Call \ {c} : call'[x] = call[x]
      BY <1>c, <2>3 DEF InsertStagedFails
    <3>2. call'[c].pc = "error"
      BY <1>c, <2>3 DEF InsertStagedFails, CallState
    <3>3. ASSUME NEW u \in stagedTx' PROVE Owned(u)
      <4>1. PICK t \in stagedTx : u.owner = None \/ (u = t /\ t.owner \notin {c})
        BY <1>t, <2>3, DisownStaged DEF InsertStagedFails
      <4> QED
        BY <1>o, <3>1, <4>1
    <3>4. Good(call'[c])
      BY <3>2 DEF Good
    <3> QED
      BY ZenonT(60), <1>e, <2>3, <3>1, <3>3, <3>4 DEF InsertStagedFails
  <2>4. CASE NotifyStagedPublish(c)
    <3>1. \A x \in Call \ {c} : call'[x] = call[x]
      BY <1>c, <2>4 DEF NotifyStagedPublish
    <3>2. call'[c] = [call[c] EXCEPT !.pc = "sign"]
      BY <1>c, <2>4 DEF NotifyStagedPublish
    <3>3. /\ call'[c].pc = "sign" /\ call'[c].server = call[c].server
          /\ call'[c].row = call[c].row
      BY SMTT(60), <1>c, <3>2 DEF CallState
    <3>4. \A t \in stagedTx' : Owned(t)
      BY <1>o, <2>4, <3>1 DEF NotifyStagedPublish, dbVars
    <3>5. Good(call[c])
      BY <1>g, <1>h, <2>4 DEF NotifyStagedPublish, Alive
    <3>6. Good(call'[c])
      BY <2>4, <3>3, <3>5 DEF NotifyStagedPublish, Good
    <3> QED
      BY <1>e, <2>4, <3>1, <3>4, <3>6 DEF NotifyStagedPublish
  <2>5. CASE Respond(c)
    <3>1. \A x \in Call \ {c} : call'[x] = call[x]
      BY <1>c, <2>5 DEF Respond
    <3>2. \A t \in stagedTx' : Owned(t)
      BY <1>o, <2>5, <3>1 DEF Respond, dbVars
    <3>3. CASE IsValidSequenceID(call[c].row.id)
      <4>1. call'[c] = [call[c] EXCEPT !.pc = "ok",
                          !.reply = SignStagedEnvelope(ident[call[c].server], call[c].row)]
        BY <1>c, <2>5, <3>3 DEF Respond
      <4>2. /\ call'[c].pc = "ok" /\ call'[c].row = call[c].row
            /\ call'[c].reply = SignStagedEnvelope(ident[call[c].server], call[c].row)
        BY SMTT(60), <1>c, <4>1 DEF CallState
      <4>3. call[c].row \in AcceptedRows' /\ ident[call[c].server] = nodeInfo'
        BY <1>a, <1>h, <1>i, <1>n, <2>5 DEF Respond
      <4>4. Good(call'[c])
        BY <4>2, <4>3 DEF Good
      <4> QED
        BY ZenonT(60), <1>e, <2>5, <3>1, <3>2, <4>4 DEF Respond
    <3>4. CASE ~IsValidSequenceID(call[c].row.id)
      <4>1. call'[c].pc = "error"
        BY <1>c, <2>5, <3>4 DEF Respond, CallState
      <4>2. Good(call'[c])
        BY <4>1 DEF Good
      <4> QED
        BY ZenonT(60), <1>e, <2>5, <3>1, <3>2, <4>2 DEF Respond
    <3> QED
      BY <3>3, <3>4
  <2> QED
    BY <1>2, <2>1, <2>2, <2>3, <2>4, <2>5 DEF Handler
<1>3. ASSUME NEW i \in Server, Subscription(i) PROVE HandlerInv'
  BY <1>0, <1>3 DEF Subscription, Query, QueryFails, QueryCancelled, SendPage,
                    WakeOnNotifier, WakeOnTimer, CloseUpdates, dbVars, Alive
<1>4. ASSUME NEW i \in Server, Worker(i) PROVE HandlerInv'
  BY ZenonT(60), <1>0, <1>4 DEF Worker, InsertGatewayEnvelope, InsertGatewayFails, DeleteStaged,
                    DeleteStagedFails, StopWorker, dbVars, Alive
<1>5. ASSUME NEW t \in stagedTx, CommitStaged(t) PROVE HandlerInv'
  <2>1. CASE t.owner = None
    <3>1. \A c \in Call : Good(call[c])
      BY <1>5, <1>g, <1>h DEF CommitStaged, Alive
    <3> QED
      BY <1>5, <1>o, <1>q, <2>1, <3>1 DEF CommitStaged
  <2>2. CASE t.owner # None
    <3> DEFINE c == t.owner
    <3>1. c \in Call /\ call[c].pc = "tx"
      BY <1>o, <2>2
    <3>2. (\A x \in Call \ {c} : call'[x] = call[x]) /\
          call'[c] = [call[c] EXCEPT !.pc = "notify", !.row = t.row]
      BY ZenonT(60), <1>5, <1>c, <2>2, <3>1 DEF CommitStaged
    <3>3. /\ call'[c].pc = "notify" /\ call'[c].server = call[c].server
          /\ call'[c].row = t.row
      BY <1>c, <3>1, <3>2 DEF CallState
    <3>4. t.row \in AcceptedRows'
      BY <1>5 DEF CommitStaged, AcceptedRows
    <3>5. proc'[call[c].server] # "down" /\ call[c].server \in Server
      BY <1>5, <1>h, <3>1 DEF CommitStaged, Alive
    <3>6. Good(call'[c])
      BY <3>3, <3>4, <3>5 DEF Good
    <3>7. \A u \in stagedTx' : Owned(u)
      <4>1. \A u \in stagedTx' : u \in stagedTx /\ u # t
        BY <1>5 DEF CommitStaged
      <4> QED
        BY <4>1 DEF IInv, StagingInv
    <3> QED
      BY <1>5, <1>e, <3>1, <3>2, <3>6, <3>7 DEF CommitStaged
  <2> QED
    BY <2>1, <2>2
<1>6. ASSUME NEW t \in stagedTx, AbortStaged(t) PROVE HandlerInv'
  <2>1. CASE t.owner = None
    <3>1. \A c \in Call : Good(call[c])
      BY <1>6, <1>g, <1>h DEF AbortStaged, Alive
    <3> QED
      BY <1>6, <1>o, <1>q, <2>1, <3>1 DEF AbortStaged
  <2>2. CASE t.owner # None
    <3> DEFINE c == t.owner
    <3>1. c \in Call
      BY <1>o, <2>2
    <3>2. (\A x \in Call \ {c} : call'[x] = call[x]) /\ call'[c].pc = "error"
      BY <1>6, <1>c, <2>2, <3>1 DEF AbortStaged, CallState
    <3>3. Good(call'[c])
      BY <3>2 DEF Good
    <3>4. \A u \in stagedTx' : Owned(u)
      <4>1. \A u \in stagedTx' : u \in stagedTx /\ u # t
        BY <1>6 DEF AbortStaged
      <4> QED
        BY <4>1 DEF IInv, StagingInv
    <3> QED
      BY <1>6, <1>e, <3>1, <3>2, <3>3, <3>4 DEF AbortStaged
  <2> QED
    BY <2>1, <2>2
<1>7. ASSUME NEW t \in gatewayTx, CommitGateway(t) \/ AbortGateway(t) PROVE HandlerInv'
  BY <1>0, <1>7 DEF CommitGateway, AbortGateway, Alive
<1>8. CASE UNCHANGED vars
  BY <1>0, <1>8 DEF vars, dbVars, Alive
<1> QED
  BY <1>1, <1>2, <1>3, <1>4, <1>5, <1>6, <1>7, <1>8 DEF Next, Database

-----------------------------------------------------------------------------
(* Nobody waits in vain *)

\* A transaction whose caller did not give up stays as it is.
LEMMA DisownKeeps ==
  ASSUME NEW T, NEW O, NEW t \in T, t.owner \notin O
  PROVE  t \in Disown(T, O)
BY DEF Disown

\* A handler that waits for its insert still has its transaction after any step: the
\* commit or abort that ends it answers the handler, and a handler that gives up or dies
\* with its process waits no more (service.go:85-92).
LEMMA HandlerWaits ==
  ASSUME IInv, WaitInv, [Next]_vars, NEW c \in Call, call'[c].pc = "tx"
  PROVE  \E t \in stagedTx' : t.owner = c
<1>c. call \in [Call -> CallState] /\ c # None
  BY ConstantsAssumption DEF IInv, TypeOK
<1>w. call[c].pc = "tx" => \E t \in stagedTx : t.owner = c
  BY DEF WaitInv
<1>0. ASSUME call[c].pc = "tx", \A t \in stagedTx : t.owner = c => t \in stagedTx'
      PROVE  \E t \in stagedTx' : t.owner = c
  BY <1>0, <1>w
<1>u. ASSUME UNCHANGED <<call, stagedTx>> PROVE \E t \in stagedTx' : t.owner = c
  BY <1>u, <1>0
<1>1. ASSUME NEW i \in Server, Die(i) PROVE \E t \in stagedTx' : t.owner = c
  <2>1. /\ call'[c] = IF call[c].server = i /\ call[c].pc \notin {"ok", "error"}
                      THEN [call[c] EXCEPT !.pc = "error"] ELSE call[c]
        /\ stagedTx' = Disown(stagedTx, {x \in Call : call[x].server = i})
    BY <1>1 DEF Die
  <2>2. [call[c] EXCEPT !.pc = "error"].pc = "error"
    BY <1>c DEF CallState
  <2>3. call[c].pc = "tx" /\ call[c].server # i
    BY <2>1, <2>2
  <2> QED
    BY <1>0, <2>1, <2>3, DisownKeeps
<1>2. ASSUME NEW i \in Server, Lifecycle(i) PROVE \E t \in stagedTx' : t.owner = c
  BY <1>1, <1>2, <1>u DEF Lifecycle, Start, Cancel, Crash, Exit, dbVars
<1>3. ASSUME NEW x \in Call, Handler(x) PROVE \E t \in stagedTx' : t.owner = c
  <2>1. CASE InsertStaged(x)
    <3>1. CASE x = c
      <4> DEFINE t == [row |-> [id |-> nextval(stagedSeq), env |-> call[x].env], owner |-> x]
      <4>1. t \in stagedTx' /\ t.owner = c
        BY <2>1, <3>1 DEF InsertStaged
      <4> QED
        BY <4>1
    <3>2. CASE x # c
      <4>1. call'[c] = call[c] /\ stagedTx \subseteq stagedTx'
        BY <1>c, <2>1, <3>2 DEF InsertStaged
      <4> QED
        BY <1>0, <4>1
    <3> QED
      BY <3>1, <3>2
  <2>2. CASE InsertStagedFails(x)
    <3>1. x # c /\ call'[c] = call[c] /\ stagedTx' = Disown(stagedTx, {x})
      <4>1. [call[x] EXCEPT !.pc = "error"].pc = "error"
        BY <1>c DEF CallState
      <4> QED
        BY <1>c, <2>2, <4>1 DEF InsertStagedFails
    <3> QED
      BY <1>0, <3>1, DisownKeeps
  <2>3. CASE (\E i \in Server, e \in PayerEnv : PublishEnvelope(x, i, e))
             \/ NotifyStagedPublish(x) \/ Respond(x)
    <3>1. UNCHANGED stagedTx /\ \A y \in Call \ {x} : call'[y] = call[y]
      BY <1>c, <2>3 DEF PublishEnvelope, NotifyStagedPublish, Respond, dbVars
    <3>2. call'[x].pc # "tx"
      <4>0. call[x] \in CallState /\ call' = [call EXCEPT ![x] = call'[x]]
        BY <1>c, <2>3 DEF PublishEnvelope, NotifyStagedPublish, Respond
      <4>1. CASE NotifyStagedPublish(x)
        BY <1>c, <4>0, <4>1 DEF NotifyStagedPublish, CallState
      <4>2. CASE Respond(x)
        BY <1>c, <4>0, <4>2 DEF Respond, CallState
      <4>3. ASSUME NEW i \in Server, NEW e \in PayerEnv, PublishEnvelope(x, i, e)
            PROVE  call'[x].pc # "tx"
        BY <1>c, <4>3 DEF PublishEnvelope, NewCall
      <4> QED
        BY <2>3, <4>1, <4>2, <4>3
    <3> QED
      BY <1>0, <3>1, <3>2
  <2> QED
    BY <1>3, <2>1, <2>2, <2>3 DEF Handler
<1>4. ASSUME NEW i \in Server, Subscription(i) PROVE UNCHANGED <<call, stagedTx>>
  BY <1>4 DEF Subscription, Query, QueryFails, QueryCancelled, SendPage,
              WakeOnNotifier, WakeOnTimer, CloseUpdates, dbVars
<1>5. ASSUME NEW i \in Server, Worker(i) PROVE UNCHANGED <<call, stagedTx>>
  BY <1>5 DEF Worker, InsertGatewayEnvelope, InsertGatewayFails, DeleteStaged,
              DeleteStagedFails, StopWorker, dbVars
<1>6. ASSUME NEW t \in stagedTx, CommitStaged(t) \/ AbortStaged(t)
      PROVE  \E u \in stagedTx' : u.owner = c
  <2>1. t.owner # c
    <3>1. [call[c] EXCEPT !.pc = "notify", !.row = t.row].pc = "notify"
          /\ [call[c] EXCEPT !.pc = "error"].pc = "error"
      BY <1>c DEF CallState
    <3> QED
      BY <1>c, <1>6, <3>1 DEF CommitStaged, AbortStaged
  <2>2. call'[c] = call[c] /\ stagedTx' = stagedTx \ {t}
    BY <1>c, <1>6, <2>1 DEF CommitStaged, AbortStaged
  <2> QED
    BY <1>0, <2>1, <2>2
<1>7. ASSUME NEW t \in gatewayTx, CommitGateway(t) \/ AbortGateway(t)
      PROVE  UNCHANGED <<call, stagedTx>>
  BY <1>7 DEF CommitGateway, AbortGateway
<1>8. CASE UNCHANGED vars
  BY <1>8, <1>u DEF vars, dbVars
<1> QED
  BY <1>2, <1>3, <1>4, <1>5, <1>6, <1>7, <1>8, <1>u DEF Next, Database

\* A worker that waits for its insert still has its transaction (publishWorker.go:118-133).
LEMMA WorkerWaits ==
  ASSUME IInv, WaitInv, [Next]_vars, NEW j \in Server, wrkPc'[j] = "tx"
  PROVE  \E t \in gatewayTx' : t.owner = j
<1>w. wrkPc \in [Server -> {"select", "publish", "tx", "delete", "stopped"}] /\ j # None
  BY ConstantsAssumption DEF IInv, TypeOK
<1>0. ASSUME wrkPc[j] = "tx", \A t \in gatewayTx : t.owner = j => t \in gatewayTx'
      PROVE  \E t \in gatewayTx' : t.owner = j
  BY <1>0 DEF WaitInv
<1>u. ASSUME wrkPc'[j] = wrkPc[j], UNCHANGED gatewayTx PROVE \E t \in gatewayTx' : t.owner = j
  BY <1>u, <1>0
<1>1. ASSUME NEW i \in Server, Lifecycle(i) PROVE \E t \in gatewayTx' : t.owner = j
  <2>1. CASE Die(i)
    <3>1. j # i /\ wrkPc'[j] = wrkPc[j] /\ gatewayTx' = Disown(gatewayTx, {i})
      BY <1>w, <2>1 DEF Die
    <3> QED
      BY <1>0, <3>1, DisownKeeps
  <2>2. CASE Cancel(i) \/ \E d \in Identity : Start(i, d)
    BY <1>u, <2>2 DEF Cancel, Start, dbVars, wrkVars
  <2> QED
    BY <1>1, <2>1, <2>2 DEF Lifecycle, Crash, Exit
<1>2. ASSUME NEW c \in Call, Handler(c) PROVE UNCHANGED <<wrkPc, gatewayTx>>
  BY ZenonT(60), <1>2 DEF Handler, PublishEnvelope, InsertStaged, InsertStagedFails,
                          NotifyStagedPublish, Respond, dbVars, wrkVars
<1>3. ASSUME NEW i \in Server, Subscription(i) PROVE wrkPc'[j] = wrkPc[j] /\ UNCHANGED gatewayTx
  BY <1>w, <1>3 DEF Subscription, Query, QueryFails, QueryCancelled, SendPage,
              WakeOnNotifier, WakeOnTimer, CloseUpdates, dbVars, wrkVars
<1>4. ASSUME NEW i \in Server, Worker(i) PROVE \E t \in gatewayTx' : t.owner = j
  <2>1. ASSUME NEW r \in batch[i], InsertGatewayEnvelope(i, r)
        PROVE  \E t \in gatewayTx' : t.owner = j
    <3>1. CASE i = j
      <4> DEFINE t == [row |-> [id |-> nextval(gatewaySeq), node |-> ident[i].node, seq |-> r.id,
                                env |-> SignStagedEnvelope(ident[i], r)],
                       conflict |-> Conflicts(ident[i].node, r.id), owner |-> i]
      <4>1. t \in gatewayTx' /\ t.owner = j
        BY <2>1, <3>1 DEF InsertGatewayEnvelope
      <4> QED
        BY <4>1
    <3>2. CASE i # j
      <4>1. wrkPc'[j] = wrkPc[j] /\ gatewayTx \subseteq gatewayTx'
        BY <1>w, <2>1, <3>2 DEF InsertGatewayEnvelope
      <4> QED
        BY <1>0, <4>1
    <3> QED
      BY <3>1, <3>2
  <2>2. ASSUME NEW r \in batch[i], DeleteStaged(i, r) \/ DeleteStagedFails(i, r)
        PROVE  wrkPc'[j] = wrkPc[j] /\ UNCHANGED gatewayTx
    BY <1>w, <2>2 DEF DeleteStaged, DeleteStagedFails, NextRow, dbVars
  <2>3. CASE InsertGatewayFails(i)
    <3>1. j # i /\ wrkPc'[j] = wrkPc[j] /\ gatewayTx' = Disown(gatewayTx, {i})
      BY <1>w, <2>3 DEF InsertGatewayFails
    <3> QED
      BY <1>0, <3>1, DisownKeeps
  <2>4. CASE StopWorker(i)
    BY <1>u, <1>w, <2>4 DEF StopWorker, dbVars
  <2> QED
    BY <1>4, <1>u, <2>1, <2>2, <2>3, <2>4 DEF Worker
<1>5. ASSUME NEW t \in stagedTx, CommitStaged(t) \/ AbortStaged(t)
      PROVE  UNCHANGED <<wrkPc, gatewayTx>>
  BY <1>5 DEF CommitStaged, AbortStaged, wrkVars
<1>6. ASSUME NEW t \in gatewayTx, CommitGateway(t) \/ AbortGateway(t)
      PROVE  \E u \in gatewayTx' : u.owner = j
  <2>1. t.owner # j
    BY <1>w, <1>6 DEF CommitGateway, AbortGateway
  <2>2. wrkPc'[j] = wrkPc[j] /\ gatewayTx' = gatewayTx \ {t}
    BY <1>w, <1>6, <2>1 DEF CommitGateway, AbortGateway
  <2> QED
    BY <1>0, <2>1, <2>2
<1>7. CASE UNCHANGED vars
  BY <1>7, <1>u DEF vars, dbVars, wrkVars
<1> QED
  BY <1>1, <1>2, <1>3, <1>4, <1>5, <1>6, <1>7, <1>u DEF Next, Database

=============================================================================
