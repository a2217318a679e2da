----------------------- MODULE PublishPipelineProofs -----------------------
(* Theorems about PublishPipeline, for every value of its constants. *)
EXTENDS PublishRowProofs

\* The prover of every leaf that names no other, and its time limit in seconds.
USE ZenonT(60)

(* The gateway grows by the next row *)

\* The row a worker is about to insert is the first that is not published.
LEMMA NextToPublish ==
  ASSUME IInv, NEW i \in Server, NEW r \in batch[i], First(r, batch[i]),
         NEW q \in staged, ~Published(q.id)
  PROVE  r.id <= q.id
<1>1. r \in Row /\ q \in Row /\ r.id \in Nat /\ q.id \in Nat /\ lastSeenID[i] \in Nat
  BY SMTT(60) DEF IInv, TypeOK, Row
<1>2. r.id <= lastSeenID[i]
  BY DEF IInv, InFlightInv
<1>3. q.id <= lastSeenID[i] => q \in page[i] \cup batch[i]
  BY DEF IInv, NoRowSkipped
<1>4. q \in page[i] => r.id < q.id
  BY DEF IInv, InFlightInv
<1> QED
  BY SMTT(60), <1>1, <1>2, <1>3, <1>4 DEF First

\* A transaction that will add a row adds it above everything in the gateway.
LEMMA PendingIsNext ==
  ASSUME IInv, NEW t \in gatewayTx, ~t.conflict, NEW g \in gateway
  PROVE  g.id < t.row.id /\ g.seq < t.row.seq
<1>1. t.row.seq = t.row.env.row.id /\ t.row.env.row \in AcceptedRows /\ ~Published(t.row.seq)
  BY DEF IInv, GatewayInv, IdentityInv
<1>2. t.row.env.row \notin PublishedRows
  BY SMTT(60), <1>1 DEF PublishedRows, Published, IInv, IdentityInv
<1>3. t.row.env.row \in staged
  BY <1>1, <1>2 DEF AcceptedRows
<1> QED
  BY <1>1, <1>3 DEF IInv, GatewayInv

\* The order of gateway IDs stays the order of sequence IDs.
LEMMA InOrderStep ==
  ASSUME IInv, [Next]_vars
  PROVE  InOrder'
<1>1. CASE gateway' = gateway
  BY <1>1 DEF IInv, InOrder
<1>2. ASSUME NEW t \in gatewayTx, ~t.conflict, gateway' = gateway \cup {t.row} PROVE InOrder'
  <2>1. t.row.id \in Nat /\ \A g \in gateway : g.id \in Nat
    BY DEF IInv, TypeOK, GatewayTx, GatewayRow
  <2>2. \A g \in gateway : g.id < t.row.id /\ g.seq < t.row.seq
    BY <1>2, PendingIsNext
  <2> QED
    BY SMTT(60), <1>2, <2>1, <2>2 DEF IInv, InOrder
<1> QED
  BY <1>1, <1>2, GatewayStep

\* The gateway stays a prefix of the accepted rows, and the pending insert the next one.
LEMMA GatewayInvStep ==
  ASSUME IInv, [Next]_vars
  PROVE  GatewayInv'
<1>t. /\ gatewayTx \in SUBSET GatewayTx /\ gatewaySeq \in Nat
      /\ batch \in [Server -> SUBSET Row]
      /\ wrkPc \in [Server -> {"select", "publish", "tx", "delete", "stopped"}]
  BY DEF IInv, TypeOK
<1>g. GatewayInv
  BY DEF IInv
<1>o. \A t \in gatewayTx : t.owner # None =>
        t.owner \in Server /\ wrkPc[t.owner] = "tx" /\ First(t.row.env.row, batch[t.owner])
  BY <1>g, <1>t DEF GatewayInv, GatewayTx
<1> DEFINE Waits(t) == t.owner # None =>
                         wrkPc'[t.owner] = "tx" /\ First(t.row.env.row, batch'[t.owner])
<1>0. ASSUME UNCHANGED <<gateway, gatewaySeq>>, staged' \subseteq staged,
             AcceptedRows' = AcceptedRows,
             \A t, u \in gatewayTx' : t = u,
             \A u \in gatewayTx' : \E t \in gatewayTx : u.row = t.row /\ u.conflict = t.conflict,
             \A u \in gatewayTx' : Waits(u)
      PROVE  GatewayInv'
  <2>1. \A r \in staged' : Published(r.id)' \/ \A g \in gateway' : g.seq < r.id
    BY <1>0, <1>g DEF GatewayInv, Published
  <2>2. ASSUME NEW u \in gatewayTx'
        PROVE  /\ u.row.id = gatewaySeq'
               /\ \A g \in gateway' : g.id < u.row.id
               /\ u.row.env.row \in AcceptedRows'
               /\ u.conflict <=> Published(u.row.seq)'
               /\ ~u.conflict => \A r \in staged' : Published(r.id)' \/ u.row.seq <= r.id
    <3>1. PICK t \in gatewayTx : u.row = t.row /\ u.conflict = t.conflict
      BY <1>0
    <3> QED
      BY SMTT(60), <1>0, <1>g, <3>1 DEF GatewayInv, Published
  <2>3. \A u \in gatewayTx' :
          u.owner # None => wrkPc'[u.owner] = "tx" /\ First(u.row.env.row, batch'[u.owner])
    BY <1>0
  <2> QED
    BY <1>0, <1>g, <2>1, <2>2, <2>3 DEF GatewayInv, First
\* The owner of an open transaction waits for it: a step of another goroutine, or
\* of a worker that is not waiting, leaves the owner where it is.
<1>q. ASSUME UNCHANGED <<gateway, gatewaySeq, gatewayTx>>, staged' \subseteq staged,
             AcceptedRows' = AcceptedRows,
             \A i \in Server : wrkPc[i] = "tx" => wrkPc'[i] = "tx" /\ batch'[i] = batch[i]
      PROVE  GatewayInv'
  <2>1. \A u \in gatewayTx' : Waits(u)
    BY <1>o, <1>q
  <2> QED
    BY <1>0, <1>g, <1>q, <2>1 DEF GatewayInv
<1>1. ASSUME NEW i \in Server, Lifecycle(i) PROVE GatewayInv'
  <2>1. AcceptedRows' = AcceptedRows /\ UNCHANGED <<gateway, gatewaySeq, staged>>
    BY <1>1 DEF Lifecycle, Start, Cancel, Crash, Exit, Die, dbVars, AcceptedRows, PublishedRows
  <2>2. CASE Die(i)
    <3>1. \A u \in gatewayTx' : \E t \in gatewayTx :
            /\ u.row = t.row /\ u.conflict = t.conflict
            /\ (u.owner = None \/ (u = t /\ t.owner \notin {i}))
      BY <1>t, <2>2, DisownGateway DEF Die
    <3>2. \A t, u \in gatewayTx' : t = u
      BY <1>g, <2>2, DisownUnique DEF Die, GatewayInv
    <3>3. \A u \in gatewayTx' : Waits(u)
      <4>1. \A j \in Server \ {i} : wrkPc'[j] = wrkPc[j] /\ batch'[j] = batch[j]
        BY <1>t, <2>2 DEF Die
      <4> QED
        BY <1>o, <3>1, <4>1
    <3> QED
      BY <1>0, <2>1, <3>1, <3>2, <3>3
  <2>3. CASE Cancel(i) \/ \E d \in Identity : Start(i, d)
    BY <1>q, <2>1, <2>3 DEF Cancel, Start, dbVars, wrkVars
  <2> QED
    BY <1>1, <2>2, <2>3 DEF Lifecycle, Crash, Exit
<1>2. ASSUME NEW c \in Call, Handler(c) PROVE GatewayInv'
  <2>1. UNCHANGED <<gateway, gatewaySeq, gatewayTx, staged, wrkPc, batch>>
    BY ZenonT(60), <1>2 DEF Handler, PublishEnvelope, InsertStaged, InsertStagedFails,
                NotifyStagedPublish, Respond, dbVars, wrkVars
  <2> QED
    BY <1>q, <2>1 DEF AcceptedRows, PublishedRows
<1>3. ASSUME NEW i \in Server, Subscription(i) PROVE GatewayInv'
  <2>1. UNCHANGED <<gateway, gatewaySeq, gatewayTx, staged>>
    BY <1>3 DEF Subscription, Query, QueryFails, QueryCancelled, SendPage,
                WakeOnNotifier, WakeOnTimer, CloseUpdates, dbVars
  <2>2. \A j \in Server : wrkPc[j] = "tx" => wrkPc'[j] = "tx" /\ batch'[j] = batch[j]
    BY <1>3, <1>t DEF Subscription, Query, QueryFails, QueryCancelled, SendPage,
                      WakeOnNotifier, WakeOnTimer, CloseUpdates, wrkVars
  <2> QED
    BY <1>q, <2>1, <2>2 DEF AcceptedRows, PublishedRows
<1>4. ASSUME NEW i \in Server, Worker(i) PROVE GatewayInv'
  <2>a. AcceptedRows' = AcceptedRows
    <3>1. ASSUME NEW t \in stagedTx, CommitStaged(t) PROVE FALSE
      BY <1>4, <3>1 DEF CommitStaged, Worker, InsertGatewayEnvelope, InsertGatewayFails,
                        DeleteStaged, DeleteStagedFails, StopWorker, dbVars
    <3> QED
      BY <3>1, AcceptedStep
  <2>1. ASSUME NEW r \in batch[i], InsertGatewayEnvelope(i, r) PROVE GatewayInv'
    <3> DEFINE t == [row |-> [id |-> gatewaySeq + 1, node |-> ident[i].node, seq |-> r.id,
                              env |-> SignStagedEnvelope(ident[i], r)],
                     conflict |-> Conflicts(ident[i].node, r.id), owner |-> i]
    <3>1. /\ gatewayTx' = {t} /\ gatewaySeq' = gatewaySeq + 1 /\ First(r, batch[i])
          /\ UNCHANGED <<staged, gateway, batch>>
      BY <2>1 DEF InsertGatewayEnvelope, GatewayLockFree, nextval
    <3>2. /\ t.row.id = gatewaySeq + 1 /\ t.row.env.row = r /\ t.row.seq = r.id
          /\ t.owner = i
      BY DEF SignStagedEnvelope
    <3>3. wrkPc'[i] = "tx"
      BY <1>t, <2>1 DEF InsertGatewayEnvelope
    <3>4. \A g \in gateway : g.id <= gatewaySeq /\ g.id \in Nat
      BY <1>g DEF GatewayInv, IInv, TypeOK, GatewayRow
    <3>5. \A g \in gateway : g.id < gatewaySeq + 1 /\ g.id <= gatewaySeq + 1
      BY SMTT(60), <1>t, <3>4
    <3>6. r \in AcceptedRows'
      BY <2>a DEF IInv, InFlightInv
    <3>7. Conflicts(ident[i].node, r.id) <=> Published(r.id)
      BY <2>1 DEF InsertGatewayEnvelope, Running, Alive, Conflicts, Published, IInv, IdentityInv
    <3>8. \A q \in staged : Published(q.id) \/ r.id <= q.id
      BY <3>1, NextToPublish
    <3>c. t.conflict <=> Published(r.id)
      BY <3>7
    <3> HIDE DEF t
    <3>9. (\A q \in staged' : Published(q.id)' \/ \A g \in gateway' : g.seq < q.id)
          /\ (\A g \in gateway' : g.id <= gatewaySeq')
      BY <1>g, <3>1, <3>5 DEF GatewayInv, Published
    <3>10. t.row.id = gatewaySeq' /\ \A g \in gateway' : g.id < t.row.id
      BY <3>1, <3>2, <3>5
    <3>11. t.row.env.row \in AcceptedRows'
      BY <3>2, <3>6
    <3>13. /\ t.conflict <=> \E g \in gateway' : g.seq = t.row.seq
           /\ \A q \in staged' : Published(q.id)' \/ t.row.seq <= q.id
      BY <3>1, <3>2, <3>8, <3>c DEF Published
    <3>14. wrkPc'[t.owner] = "tx" /\ First(t.row.env.row, batch'[t.owner])
      BY <3>1, <3>2, <3>3
    <3>15. ASSUME NEW u \in gatewayTx'
           PROVE  /\ u.row.id = gatewaySeq'
                  /\ \A g \in gateway' : g.id < u.row.id
                  /\ u.row.env.row \in AcceptedRows'
                  /\ u.conflict <=> Published(u.row.seq)'
                  /\ ~u.conflict => \A q \in staged' : Published(q.id)' \/ u.row.seq <= q.id
                  /\ wrkPc'[u.owner] = "tx" /\ First(u.row.env.row, batch'[u.owner])
      <4>1. u = t
        BY <3>1
      <4> QED
        BY <4>1, <3>10, <3>11, <3>13, <3>14 DEF Published
    <3> QED
      BY <3>1, <3>9, <3>15 DEF GatewayInv, First
  <2>2. ASSUME NEW r \in batch[i], DeleteStaged(i, r) \/ DeleteStagedFails(i, r)
        PROVE  GatewayInv'
    <3>1. UNCHANGED <<gateway, gatewaySeq, gatewayTx>> /\ staged' \subseteq staged
      BY <2>2 DEF DeleteStaged, DeleteStagedFails, dbVars
    <3>2. \A j \in Server : wrkPc[j] = "tx" => wrkPc'[j] = "tx" /\ batch'[j] = batch[j]
      BY <1>t, <2>2 DEF DeleteStaged, DeleteStagedFails, NextRow
    <3> QED
      BY <1>q, <2>a, <3>1, <3>2
  <2>3. CASE InsertGatewayFails(i)
    <3>1. \A u \in gatewayTx' : \E t \in gatewayTx :
            /\ u.row = t.row /\ u.conflict = t.conflict
            /\ (u.owner = None \/ (u = t /\ t.owner \notin {i}))
      BY <1>t, <2>3, DisownGateway DEF InsertGatewayFails
    <3>2. \A t, u \in gatewayTx' : t = u
      BY <1>g, <2>3, DisownUnique DEF InsertGatewayFails, GatewayInv
    <3>3. \A j \in Server \ {i} : wrkPc'[j] = wrkPc[j] /\ batch'[j] = batch[j]
      BY <1>t, <2>3 DEF InsertGatewayFails
    <3>4. \A u \in gatewayTx' : Waits(u)
      BY <1>o, <3>1, <3>3
    <3> QED
      BY ZenonT(60), <1>0, <2>3, <2>a, <3>1, <3>2, <3>4 DEF InsertGatewayFails
  <2>4. CASE StopWorker(i)
    BY <1>q, <1>t, <2>4, <2>a DEF StopWorker, dbVars
  <2> QED
    BY <1>4, <2>1, <2>2, <2>3, <2>4 DEF Worker
<1>5. ASSUME NEW t \in stagedTx, CommitStaged(t) PROVE GatewayInv'
  <2>1. /\ staged' = staged \cup {t.row} /\ AcceptedRows' = AcceptedRows \cup {t.row}
        /\ UNCHANGED <<gateway, gatewaySeq, gatewayTx, wrkPc, batch>>
    BY <1>5 DEF CommitStaged, wrkVars, AcceptedRows, PublishedRows
  <2>2. \A r \in AcceptedRows : r.id < t.row.id
    BY DEF IInv, StagingInv
  <2>3. \A g \in gateway : g.seq < t.row.id
    BY <2>2 DEF AcceptedRows, PublishedRows, IInv, IdentityInv
  <2>4. \A u \in gatewayTx : u.row.seq < t.row.id
    BY <1>g, <2>2 DEF GatewayInv, IInv, IdentityInv
  <2>5. t.row.id \in Nat /\ \A u \in gatewayTx : u.row.seq \in Nat
    BY DEF IInv, TypeOK, StagedTx, Row, GatewayTx, GatewayRow
  <2>6. \A r \in staged' : Published(r.id)' \/ \A g \in gateway' : g.seq < r.id
    BY <1>g, <2>1, <2>3 DEF GatewayInv, Published
  <2>7. \A u \in gatewayTx' :
          /\ u.row.env.row \in AcceptedRows'
          /\ u.conflict <=> Published(u.row.seq)'
          /\ ~u.conflict => \A r \in staged' : Published(r.id)' \/ u.row.seq <= r.id
    BY SMTT(60), <1>g, <2>1, <2>4, <2>5 DEF GatewayInv, Published
  <2> QED
    BY <1>g, <2>1, <2>6, <2>7 DEF GatewayInv, First
<1>6. ASSUME NEW t \in stagedTx, AbortStaged(t) PROVE GatewayInv'
  BY <1>q, <1>6 DEF AbortStaged, wrkVars, AcceptedRows, PublishedRows
<1>7. ASSUME NEW t \in gatewayTx, CommitGateway(t) PROVE GatewayInv'
  <2>1. gatewayTx' = {} /\ UNCHANGED <<staged, gatewaySeq>>
    BY <1>7, <1>g DEF CommitGateway, GatewayInv
  <2>2. CASE t.conflict
    BY <1>7, <1>g, <2>1, <2>2 DEF CommitGateway, GatewayInv, Published
  <2>3. CASE ~t.conflict
    <3>1. gateway' = gateway \cup {t.row}
      BY <1>7, <2>3 DEF CommitGateway
    <3>2. t.row.id = gatewaySeq /\ \A r \in staged : Published(r.id) \/ t.row.seq <= r.id
      BY <1>g, <2>3 DEF GatewayInv
    <3>3. t.row.seq \in Nat /\ \A r \in staged : r.id \in Nat
      BY DEF IInv, TypeOK, GatewayTx, GatewayRow, Row
    <3>4. ASSUME NEW r \in staged PROVE Published(r.id)' \/ \A g \in gateway' : g.seq < r.id
      BY SMTT(60), <1>g, <3>1, <3>2, <3>3 DEF GatewayInv, Published
    <3>5. \A g \in gateway' : g.id <= gatewaySeq'
      BY SMTT(60), <1>g, <1>t, <2>1, <3>1, <3>2 DEF GatewayInv
    <3> QED
      BY <2>1, <3>4, <3>5 DEF GatewayInv
  <2> QED
    BY <2>2, <2>3
<1>8. ASSUME NEW t \in gatewayTx, AbortGateway(t) PROVE GatewayInv'
  <2>1. gatewayTx' = {} /\ UNCHANGED <<staged, gateway, gatewaySeq>>
    BY <1>8, <1>g DEF AbortGateway, GatewayInv
  <2> QED
    BY <1>g, <2>1 DEF GatewayInv, Published
<1>9. CASE UNCHANGED vars
  BY <1>q, <1>9 DEF vars, dbVars, wrkVars, AcceptedRows, PublishedRows
<1> QED
  BY <1>1, <1>2, <1>3, <1>4, <1>5, <1>6, <1>7, <1>8, <1>9 DEF Next, Database

\* A row that becomes visible has a handler that is about to notify.
LEMMA WakeupStep ==
  ASSUME IInv, WakeupInv, [Next]_vars
  PROVE  WakeupInv'
<1> SUFFICES ASSUME faults' = 0 PROVE WakeupInv'
  BY DEF WakeupInv, NoLostWakeup
<1>q. faults = 0 /\ [Quiet]_vars
  BY QuietStep
<1>1. ASSUME NEW r \in staged, r \in staged'
      PROVE  \E i \in Server : Running(i)' /\ Attends(i, r)'
  <2>1. PICK i \in Server : Running(i) /\ Attends(i, r)
    BY <1>q DEF WakeupInv, NoLostWakeup
  <2> QED
    BY <1>1, <2>1, NobodyGivesUp, WakeupKept
<1>2. ASSUME NEW r \in staged', r \notin staged
      PROVE  \E i \in Server : Running(i)' /\ Attends(i, r)'
  <2>1. PICK t \in stagedTx : CommitStaged(t) /\ r = t.row
    BY ZenonT(60), <1>q, <1>2 DEF Quiet, vars, dbVars, Start, Query, SendPage, WakeOnNotifier,
       WakeOnTimer, InsertGatewayEnvelope, DeleteStaged, PublishEnvelope, InsertStaged,
       NotifyStagedPublish, Respond, CommitStaged, CommitGateway
  <2>2. t.owner \in Call /\ call[t.owner].pc = "tx" /\ call[t.owner] \in CallState
    BY <1>q DEF WakeupInv, IInv, TypeOK, StagedTx, HandlerInv
  <2>3. PICK i \in Server : i = call[t.owner].server /\ Running(i)
    BY SMTT(60), <1>q, <2>2 DEF WakeupInv, IInv, HandlerInv, Alive, Running, TypeOK
  <2>4. call'[t.owner].pc = "notify" /\ call'[t.owner].server = i
    <3>1. call \in [Call -> CallState] /\ t.owner # None
      BY <2>2, ConstantsAssumption DEF IInv, TypeOK
    <3>2. call'[t.owner] = [call[t.owner] EXCEPT !.pc = "notify", !.row = t.row]
      BY ZenonT(60), <2>1, <2>2, <3>1 DEF CommitStaged
    <3> QED
      BY <2>2, <2>3, <3>2 DEF CallState
  <2>5. WillPoll(i)'
    BY <2>2, <2>4 DEF WillPoll
  <2>6. lastSeenID'[i] < r.id
    BY <2>1 DEF CommitStaged, subVars, IInv, StagingInv
  <2> QED
    BY <2>3, <2>5, <2>6, NobodyGivesUp DEF Attends
<1>3. NoLostWakeup'
  BY <1>1, <1>2 DEF NoLostWakeup
<1> QED
  BY <1>3, NobodyGivesUp DEF WakeupInv

-----------------------------------------------------------------------------
(* The invariant and what follows from it *)

\* The invariant holds before the first process has started, with empty tables.
LEMMA InitIInv == Init => IInv
<1> SUFFICES ASSUME Init PROVE IInv
  OBVIOUS
<1>1. TypeOK
  <2>1. NewCall \in CallState
    BY DEF NewCall, CallState
  <2>2. IsFiniteSet(staged)
    BY FS_EmptySet DEF Init
  <2> QED
    BY SMTT(60), <2>1, <2>2, ConstantsAssumption DEF Init, TypeOK
<1>2. AcceptedRows = {}
  BY DEF Init, AcceptedRows, PublishedRows
<1>3. \A c \in Call : call[c].pc = "idle"
  BY DEF Init, NewCall
<1>4. IdentityInv /\ HandlerInv
  BY <1>2, <1>3 DEF Init, IdentityInv, HandlerInv, Alive
<1>5. StagingInv
  BY SMTT(60), <1>2 DEF Init, StagingInv
<1>6. InFlightInv /\ NoRowSkipped /\ GatewayInv /\ InOrder
  BY DEF Init, InFlightInv, NoRowSkipped, GatewayInv, InOrder
<1> QED
  BY <1>1, <1>4, <1>5, <1>6 DEF IInv

\* The inductive invariant holds in every reachable state of the publish path,
\* for any number of processes, calls, rows and faults and any page size.
THEOREM InductiveInvariant == Spec => []IInv
<1>1. IInv /\ [Next]_vars => IInv'
  <2> SUFFICES ASSUME IInv, [Next]_vars PROVE IInv'
    OBVIOUS
  <2>1. TypeOK'
    BY TypeStep
  <2>2. IdentityInv' /\ HandlerInv' /\ StagingInv'
    BY IdentityStep, HandlerStep, StagingStep
  <2>3. InFlightInv' /\ NoRowSkipped' /\ GatewayInv' /\ InOrder'
    BY InFlightStep, NoRowSkippedStep, GatewayInvStep, InOrderStep
  <2> QED
    BY <2>1, <2>2, <2>3 DEF IInv
<1> QED
  BY <1>1, InitIInv, PTL DEF Spec

\* Tables, transactions, goroutines and handlers keep their types.
THEOREM TypeCorrect == Spec => []TypeOK
<1>1. IInv => TypeOK
  BY DEF IInv
<1> QED
  BY <1>1, InductiveInvariant, PTL

\* Envelopes are inserted into gateway_envelopes in the order of their sequence
\* IDs, each once (00001_init-schema.up.sql:44-45, publishWorker.go:82-147).
THEOREM PublishedInOrder == Spec => []InOrder
<1>1. IInv => InOrder
  BY DEF IInv
<1> QED
  BY <1>1, InductiveInvariant, PTL

\* No subscription moves lastSeenID past a row it does not carry (subscription.go:95).
THEOREM NothingSkipped == Spec => []NoRowSkipped
<1>1. IInv => NoRowSkipped
  BY DEF IInv
<1> QED
  BY <1>1, InductiveInvariant, PTL

\* As long as nothing fails, a notification that finds the channel full or the
\* subscription busy is not lost: every staged row is in the hands of a process or about
\* to be polled (publishWorker.go:75-81, subscription.go:78-101).
THEOREM NoWakeupLost == Spec => []NoLostWakeup
<1>1. Init => WakeupInv
  BY DEF Init, WakeupInv, NoLostWakeup
<1>2. IInv /\ WakeupInv /\ [Next]_vars => WakeupInv'
  BY WakeupStep
<1>3. WakeupInv => NoLostWakeup
  BY DEF WakeupInv
<1> QED
  BY <1>1, <1>2, <1>3, InductiveInvariant, PTL DEF Spec

\* A published row that a handler answered for is published as it was answered.
LEMMA AnswerFacts ==
  ASSUME IInv, NEW c \in Call, call[c].pc = "ok", NEW g \in gateway, g.env.row = call[c].row
  PROVE  g.env = call[c].reply
<1>1. call[c].reply = [signer |-> nodeInfo, row |-> call[c].row]
  BY DEF IInv, HandlerInv, SignStagedEnvelope
<1>2. g.env \in [signer : Identity, row : Row] /\ g.env.signer = nodeInfo
  BY DEF IInv, TypeOK, GatewayRow, OriginatorEnv, IdentityInv
<1>3. g.env = [signer |-> nodeInfo, row |-> call[c].row]
  BY <1>2
<1> QED
  BY <1>1, <1>3

\* An answered envelope is never lost: it is staged or published exactly as answered
\* (service.go:85-100, publishWorker.go:135-146).
THEOREM AnswersAreDurable == Spec => []AnsweredIsDurable
<1>1. IInv => AnsweredIsDurable
  <2> SUFFICES ASSUME IInv, NEW c \in Call, call[c].pc = "ok", call[c].row \notin staged
               PROVE  \E g \in gateway : g.env = call[c].reply
    BY DEF AnsweredIsDurable
  <2>1. call[c].row \in AcceptedRows
    BY DEF IInv, HandlerInv
  <2>2. PICK g \in gateway : g.env.row = call[c].row
    BY <2>1 DEF AcceptedRows, PublishedRows
  <2> QED
    BY <2>2, AnswerFacts
<1> QED
  BY <1>1, InductiveInvariant, PTL

\* The gateway holds under a sequence ID exactly what was answered for it, whichever
\* process published it (registrant.go:67-103 and 127-153).
THEOREM AnswersMatch == Spec => []AnswerMatchesGateway
<1>1. IInv => AnswerMatchesGateway
  <2> SUFFICES ASSUME IInv, NEW c \in Call, call[c].pc = "ok",
                      NEW g \in gateway, g.seq = call[c].row.id
               PROVE  g.env = call[c].reply
    BY DEF AnswerMatchesGateway
  <2>1. call[c].row \in AcceptedRows
    BY DEF IInv, HandlerInv
  <2>2. g.env.row \in AcceptedRows /\ g.env.row.id = call[c].row.id
    BY DEF AcceptedRows, PublishedRows, IInv, IdentityInv
  <2>3. g.env.row = call[c].row
    BY <2>1, <2>2 DEF IInv, StagingInv
  <2> QED
    BY <2>3, AnswerFacts
<1> QED
  BY <1>1, InductiveInvariant, PTL

\* A node publishes only envelopes addressed to it (service.go:127).
THEOREM OnlyOwnEnvelopes == Spec => []TargetsPublisher
<1>1. IInv => TargetsPublisher
  <2> SUFFICES ASSUME IInv, NEW g \in gateway PROVE g.env.row.env.client.target = g.node
    BY DEF TargetsPublisher
  <2>1. g.node = nodeInfo.node /\ g.env.row \in AcceptedRows
    BY DEF IInv, IdentityInv, AcceptedRows, PublishedRows
  <2>2. Accepts(nodeInfo, g.env.row.env)
    BY <2>1 DEF IInv, IdentityInv
  <2> QED
    BY <2>1, <2>2 DEF Accepts, validateClientInfo
<1> QED
  BY <1>1, InductiveInvariant, PTL

\* Gateway IDs become visible in increasing order (00001_init-schema.up.sql:30).
THEOREM GatewayIDsInCommitOrder == Spec => GatewayIDsGrow
<1>1. IInv /\ [Next]_vars => [\A g \in gateway' \ gateway : \A h \in gateway : h.id < g.id]_vars
  <2> SUFFICES ASSUME IInv, [Next]_vars, NEW g \in gateway' \ gateway, NEW h \in gateway
               PROVE  h.id < g.id
    OBVIOUS
  <2>1. PICK t \in gatewayTx : ~t.conflict /\ g = t.row
    BY GatewayStep
  <2> QED
    BY <2>1, PendingIsNext
<1> QED
  BY <1>1, InductiveInvariant, PTL DEF Spec, GatewayIDsGrow

\* For any number of processes, calls and rows and any page size, handlers,
\* subscriptions, workers and database never all wait for each other: who holds a row
\* can go on with it, and as long as nothing fails there is someone who can for every
\* row that is staged (subscription.go:78-101, publishWorker.go:75-97).
THEOREM NobodyIsStuck == Spec => []NeverStuck
<1>1. Init => WaitInv
  BY SMTT(60) DEF Init, WaitInv, NewCall
<1>2. IInv /\ WaitInv /\ [Next]_vars => WaitInv'
  BY HandlerWaits, WorkerWaits, GoroutinesBusy DEF WaitInv
<1>3. IInv /\ WaitInv /\ NoLostWakeup => NeverStuck
  <2> SUFFICES ASSUME IInv, WaitInv, NoLostWakeup PROVE NeverStuck
    OBVIOUS
  <2>1. ASSUME faults = 0, NEW r \in staged, IsValidSequenceID(r.id)
        PROVE  \E i \in Server : Running(i) /\ CanGo(i)
    <3>1. PICK i \in Server : Running(i) /\ Attends(i, r)
      BY <2>1 DEF NoLostWakeup
    <3>2. CASE r \in page[i] \cup batch[i]
      BY <2>1, <3>1, <3>2, HolderCanGo
    <3>3. CASE lastSeenID[i] < r.id /\ WillPoll(i)
      <4>1. CASE subPc[i] = "send"
        <5>1. PICK q \in page[i] : TRUE
          BY <4>1 DEF WaitInv
        <5>2. /\ q \in Row /\ q.id <= lastSeenID[i] /\ lastSeenID[i] \in Nat
              /\ q.id \in Nat \ {0} /\ r.id \in Nat /\ MaxLocalID \in Nat
          BY SMTT(60), ConstantsAssumption DEF IInv, InFlightInv, TypeOK, Row
        <5>3. IsValidSequenceID(q.id)
          BY SMTT(60), <2>1, <3>3, <5>2 DEF IsValidSequenceID
        <5> QED
          BY <3>1, <5>3, HolderCanGo
      <4>2. CASE subPc[i] # "send"
        <5>1. subPc[i] \in {"poll", "select"}
          BY <3>1, <4>2 DEF WaitInv, Running, IInv, TypeOK
        <5> QED
          BY <3>1, <3>3, <4>2, <5>1 DEF WillPoll, CanGo
      <4> QED
        BY <4>1, <4>2
    <3> QED
      BY <3>1, <3>2, <3>3 DEF Attends
  <2>2. \A c \in Call : call[c].pc = "tx" => \E t \in stagedTx : t.owner = c
    BY DEF WaitInv
  <2> QED
    BY <2>1, <2>2, HolderCanGo DEF NeverStuck
<1> QED
  BY <1>1, <1>2, <1>3, InductiveInvariant, NoWakeupLost, PTL DEF Spec

-----------------------------------------------------------------------------
(* Refinement *)

\* Only Respond adds an answered row; the row it adds is accepted, and its ID fits a SID.
LEMMA AnsweredStep ==
  ASSUME IInv, [Next]_vars
  PROVE  \/ AnsweredRows' = AnsweredRows
         \/ /\ UNCHANGED <<staged, gateway>>
            /\ \E r \in AcceptedRows : /\ IsValidSequenceID(r.id)
                                     /\ AnsweredRows' = AnsweredRows \cup {r}
<1>c. call \in [Call -> CallState]
  BY DEF IInv, TypeOK
<1>s. ASSUME \A c \in Call : /\ call'[c].pc = "ok" <=> call[c].pc = "ok"
                             /\ call[c].pc = "ok" => call'[c].row = call[c].row
      PROVE  AnsweredRows' = AnsweredRows
  BY <1>s DEF AnsweredRows
<1>u. ASSUME UNCHANGED call PROVE AnsweredRows' = AnsweredRows
  BY <1>u DEF AnsweredRows
<1>e. ASSUME NEW c \in Call, NEW z, call' = [call EXCEPT ![c] = z],
             z.pc # "ok", call[c].pc # "ok"
      PROVE  AnsweredRows' = AnsweredRows
  BY <1>c, <1>e, <1>s
<1>1. ASSUME NEW i \in Server, Lifecycle(i) PROVE AnsweredRows' = AnsweredRows
  <2>1. CASE Die(i)
    <3>1. \A c \in Call :
            \/ call'[c] = call[c]
            \/ call[c].pc # "ok" /\ call'[c] = [call[c] EXCEPT !.pc = "error"]
      BY <2>1 DEF Die
    <3>2. \A c \in Call : call'[c] = call[c] \/ (call[c].pc # "ok" /\ call'[c].pc = "error")
      BY ZenonT(60), <3>1, <1>c DEF CallState
    <3> QED
      BY <3>2, <1>s
  <2>2. CASE UNCHANGED call
    BY <2>2, <1>u
  <2> QED
    BY <1>1, <2>1, <2>2 DEF Lifecycle, Start, Cancel, Crash, Exit
<1>2. ASSUME NEW i \in Server, Subscription(i) \/ Worker(i) PROVE UNCHANGED call
  BY ZenonT(60), <1>2 DEF Subscription, Query, QueryFails, QueryCancelled, SendPage, WakeOnNotifier,
              WakeOnTimer, CloseUpdates, Worker, InsertGatewayEnvelope, InsertGatewayFails,
              DeleteStaged, DeleteStagedFails, StopWorker
<1>3. ASSUME NEW c \in Call, Handler(c), ~Respond(c) PROVE AnsweredRows' = AnsweredRows
  <2>1. ASSUME NEW i \in Server, NEW e \in PayerEnv, PublishEnvelope(c, i, e)
        PROVE  AnsweredRows' = AnsweredRows
    <3>1. PICK z : call' = [call EXCEPT ![c] = z] /\ z.pc \in {"insert", "error"}
      <4>1. /\ [NewCall EXCEPT !.pc = "insert", !.server = i, !.env = e].pc = "insert"
            /\ [NewCall EXCEPT !.pc = "error"].pc = "error"
        BY DEF NewCall
      <4> QED
        BY ZenonT(60), <2>1, <4>1 DEF PublishEnvelope
    <3>2. call[c].pc # "ok" /\ z.pc # "ok"
      BY <2>1, <3>1 DEF PublishEnvelope
    <3> QED
      BY ZenonT(60), <3>1, <3>2, <1>e
  <2>2. ASSUME NEW pc \in {"tx", "error", "sign"}, call[c].pc # "ok",
               call' = [call EXCEPT ![c].pc = pc]
        PROVE  AnsweredRows' = AnsweredRows
    <3>1. [call[c] EXCEPT !.pc = pc].pc = pc
      BY <1>c DEF CallState
    <3> QED
      BY ZenonT(60), <2>2, <3>1, <1>e
  <2>3. CASE InsertStaged(c) \/ InsertStagedFails(c) \/ NotifyStagedPublish(c)
    BY <2>2, <2>3 DEF InsertStaged, InsertStagedFails, NotifyStagedPublish
  <2> QED
    BY <1>3, <2>1, <2>3 DEF Handler
<1>4. ASSUME NEW c \in Call, Respond(c)
      PROVE  \/ AnsweredRows' = AnsweredRows
             \/ /\ UNCHANGED <<staged, gateway>>
                /\ \E r \in AcceptedRows : /\ IsValidSequenceID(r.id)
                                         /\ AnsweredRows' = AnsweredRows \cup {r}
  <2>1. PICK z : /\ call' = [call EXCEPT ![c] = z]
                 /\ \/ z.pc = "error"
                    \/ z.pc = "ok" /\ z.row = call[c].row /\ IsValidSequenceID(call[c].row.id)
    <3>1. \A rep : /\ [call[c] EXCEPT !.pc = "ok", !.reply = rep].pc = "ok"
                  /\ [call[c] EXCEPT !.pc = "ok", !.reply = rep].row = call[c].row
                  /\ [call[c] EXCEPT !.pc = "error"].pc = "error"
      BY <1>c DEF CallState
    <3>2. CASE IsValidSequenceID(call[c].row.id)
      <4> DEFINE z == [call[c] EXCEPT !.pc = "ok",
                                      !.reply = SignStagedEnvelope(ident[call[c].server], call[c].row)]
      <4>1. call' = [call EXCEPT ![c] = z]
        BY ZenonT(60), <1>4, <3>2 DEF Respond
      <4>2. z.pc = "ok" /\ z.row = call[c].row
        BY ZenonT(60), <3>1
      <4> QED
        BY ZenonT(60), <3>2, <4>1, <4>2
    <3>3. CASE ~IsValidSequenceID(call[c].row.id)
      <4>1. call' = [call EXCEPT ![c] = [call[c] EXCEPT !.pc = "error"]]
        BY ZenonT(60), <1>4, <3>3 DEF Respond
      <4> QED
        BY ZenonT(60), <3>1, <4>1
    <3> QED
      BY <3>2, <3>3
  <2>2. call[c].pc = "sign" /\ UNCHANGED <<staged, gateway>>
    BY <1>4 DEF Respond, dbVars
  <2>3. call[c].row \in AcceptedRows
    BY <2>2 DEF IInv, HandlerInv
  <2>4. CASE z.pc = "error"
    BY ZenonT(60), <2>1, <2>2, <2>4, <1>e
  <2>5. CASE z.pc = "ok" /\ z.row = call[c].row /\ IsValidSequenceID(call[c].row.id)
    <3>1. \A x \in Call : IF x = c THEN call'[x] = z ELSE call'[x] = call[x]
      BY <2>1, <1>c
    <3>2. AnsweredRows' = AnsweredRows \cup {call[c].row}
      BY SMTT(60), <3>1, <2>2, <2>5 DEF AnsweredRows
    <3> QED
      BY <2>2, <2>3, <2>5, <3>2
  <2> QED
    BY <2>1, <2>4, <2>5
<1>5. ASSUME NEW t \in stagedTx, CommitStaged(t) \/ AbortStaged(t)
      PROVE  AnsweredRows' = AnsweredRows
  <2>1. CASE t.owner = None
    BY <1>5, <1>u, <2>1 DEF CommitStaged, AbortStaged
  <2>2. CASE t.owner # None
    <3>1. t.owner \in Call /\ call[t.owner].pc = "tx"
      BY <2>2 DEF IInv, TypeOK, StagedTx, HandlerInv
    <3>2. /\ [call[t.owner] EXCEPT !.pc = "notify", !.row = t.row].pc = "notify"
          /\ [call[t.owner] EXCEPT !.pc = "error"].pc = "error"
      BY SMTT(60), <3>1, <1>c DEF CallState
    <3> QED
      BY ZenonT(60), <1>5, <1>e, <2>2, <3>1, <3>2 DEF CommitStaged, AbortStaged
  <2> QED
    BY <2>1, <2>2
<1>6. ASSUME NEW t \in gatewayTx, CommitGateway(t) \/ AbortGateway(t) PROVE UNCHANGED call
  BY <1>6 DEF CommitGateway, AbortGateway
<1>7. CASE UNCHANGED vars
  BY <1>7, <1>u DEF vars
<1> QED
  BY <1>1, <1>2, <1>3, <1>4, <1>5, <1>6, <1>7, <1>u DEF Next, Database

\* The publish path implements OriginatorLog: the commit of a staged row is Accept,
\* the answer of the handler Answer, the commit of a gateway row Publish, and every
\* other step leaves the log alone (service.go:64-101, publishWorker.go:82-147).
THEOREM Refinement == Spec => ImplementsLog
<1>1. Init => Log!Init
  <2> SUFFICES ASSUME Init PROVE Log!Init
    OBVIOUS
  <2>1. \A c \in Call : call[c].pc = "idle"
    BY DEF Init, NewCall
  <2> QED
    BY <2>1 DEF Init, Log!Init, AcceptedRows, PublishedRows, AnsweredRows
<1>2. IInv /\ [Next]_vars => [Log!Next]_(Log!vars)
  <2> SUFFICES ASSUME IInv, [Next]_vars PROVE [Log!Next]_(Log!vars)
    OBVIOUS
  <2>1. ASSUME NEW t \in stagedTx, CommitStaged(t), AcceptedRows' = AcceptedRows \cup {t.row}
        PROVE  Log!Accept
    <3>1. t.row \in [id : Nat \ {0}, env : PayerEnv] /\ stagedSeq \in 0 .. MaxStaged /\ MaxStaged \in Nat
      BY ConstantsAssumption DEF IInv, TypeOK, StagedTx, Row
    <3>2. t.row.id = stagedSeq /\ \A r \in AcceptedRows : r.id < t.row.id
      BY DEF IInv, StagingInv
    <3>3. t.row.id \in 1 .. MaxStaged /\ t.row.env \in PayerEnv
          /\ t.row = [id |-> t.row.id, env |-> t.row.env]
      BY SMTT(60), <3>1, <3>2
    <3>4. UNCHANGED gateway /\ ~ UNCHANGED staged
      <4>1. t.row \notin staged
        BY SMTT(60), <3>1, <3>2 DEF AcceptedRows
      <4> QED
        BY <2>1, <4>1 DEF CommitStaged
    <3>5. AnsweredRows' = AnsweredRows
      BY <3>4, AnsweredStep
    <3>6. PublishedRows' = PublishedRows
      BY <3>4 DEF PublishedRows
    <3> QED
      BY <2>1, <3>2, <3>3, <3>5, <3>6 DEF Log!Accept
  <2>2. ASSUME NEW t \in gatewayTx, CommitGateway(t), ~t.conflict, gateway' = gateway \cup {t.row}
        PROVE  Log!Publish
    <3> DEFINE r == t.row.env.row
    <3>1. r \in AcceptedRows /\ t.row.seq = r.id /\ ~Published(r.id)
          /\ \A q \in staged : Published(q.id) \/ r.id <= q.id
      BY <2>2 DEF IInv, GatewayInv, IdentityInv
    <3>2. r \notin PublishedRows
      BY SMTT(60), <3>1 DEF PublishedRows, Published, IInv, IdentityInv
    <3>3. \A q \in staged : Published(q.id) => q \in PublishedRows
      BY SMTT(60) DEF IInv, IdentityInv, StagingInv, Published, PublishedRows, AcceptedRows
    <3>4. \A q \in AcceptedRows : q.id \in Nat
      BY DEF IInv, TypeOK, AcceptedRows, PublishedRows, Row, GatewayRow, OriginatorEnv
    <3>5. \A q \in AcceptedRows : q.id < r.id => q \in PublishedRows
      BY SMTT(60), <3>1, <3>3, <3>4 DEF AcceptedRows
    <3>6. PublishedRows' = PublishedRows \cup {r}
      BY <2>2 DEF PublishedRows
    <3>7. AcceptedRows' = AcceptedRows
      BY <2>2, <3>1, <3>6 DEF AcceptedRows, CommitGateway
    <3>8. AnsweredRows' = AnsweredRows
      BY <2>2 DEF AnsweredRows, CommitGateway
    <3> QED
      BY <3>1, <3>2, <3>5, <3>6, <3>7, <3>8 DEF Log!Publish
  <2>3. ASSUME UNCHANGED gateway, AcceptedRows' = AcceptedRows PROVE [Log!Answer]_(Log!vars)
    <3>1. PublishedRows' = PublishedRows
      BY <2>3 DEF PublishedRows
    <3> QED
      BY <2>3, <3>1, AnsweredStep DEF Log!Answer, Log!vars
  <2> QED
    BY <2>1, <2>2, <2>3, AcceptedStep, GatewayStep DEF Log!Next
<1> QED
  BY <1>1, <1>2, InductiveInvariant, PTL DEF Spec, ImplementsLog, Log!Spec

\* A process that starts or ends takes a step of DatabaseOwner.
LEMMA LifecycleStep ==
  ASSUME IInv, NEW i \in Server, Lifecycle(i)
  PROVE  [Ownership!Next]_(Ownership!vars)
<1>t. /\ proc \in [Server -> {"down", "up", "stopping"}]
      /\ ident \in [Server -> Identity \cup {None}]
      /\ nodeInfo \in Identity \cup {None}
  BY DEF IInv, TypeOK
<1>s. ASSUME \A j \in Server \ {i} : proc'[j] = proc[j] /\ ident'[j] = ident[j]
      PROVE  Serving' = [Serving EXCEPT ![i] = IF proc'[i] = "down" THEN None ELSE ident'[i]]
  <2>1. \A j \in Server \ {i} : Serving'[j] = Serving[j]
    BY <1>s DEF Serving, Alive
  <2>2. Serving'[i] = IF proc'[i] = "down" THEN None ELSE ident'[i]
    BY DEF Serving, Alive
  <2>3. /\ Serving = [j \in Server |-> Serving[j]]
        /\ Serving' = [j \in Server |-> Serving'[j]]
    BY DEF Serving
  <2> QED
    BY <2>1, <2>2, <2>3
<1>1. ASSUME NEW d \in Identity, Start(i, d) PROVE Ownership!Serve(i)
  <2>1. nodeInfo # None => nodeInfo = d
    BY <1>1, <1>t, ConstantsAssumption DEF Start, ensureDatabaseMatches
  <2>2. nodeInfo' = d
    BY <1>1, <2>1 DEF Start
  <2>3. Serving[i] = None
    BY <1>1 DEF Start, Serving, Alive
  <2>4. proc'[i] = "up" /\ ident'[i] = d
        /\ \A j \in Server \ {i} : proc'[j] = proc[j] /\ ident'[j] = ident[j]
    BY <1>1, <1>t DEF Start
  <2> QED
    BY <1>s, <2>1, <2>2, <2>3, <2>4 DEF Ownership!Serve
<1>2. ASSUME Cancel(i) PROVE UNCHANGED <<nodeInfo, Serving>>
  BY <1>2, <1>t DEF Cancel, Running, Serving, Alive
<1>3. ASSUME Alive(i), Die(i) PROVE Ownership!Stop(i)
  <2>1. Serving[i] # None
    <3>1. ident[i] = nodeInfo /\ nodeInfo # None
      BY <1>3 DEF IInv, IdentityInv
    <3> QED
      BY <1>3, <3>1 DEF Serving, Alive
  <2>2. UNCHANGED nodeInfo /\ proc'[i] = "down"
        /\ \A j \in Server \ {i} : proc'[j] = proc[j] /\ ident'[j] = ident[j]
    BY <1>3, <1>t DEF Die
  <2> QED
    BY <1>s, <2>1, <2>2 DEF Ownership!Stop
<1> QED
  BY <1>1, <1>2, <1>3 DEF Lifecycle, Crash, Exit, Running, Alive, Ownership!Next, Ownership!vars

\* For any number of servers and identities, the processes of the publish path, which
\* start in one step, own the database in the way that the statements of
\* ensureDatabaseMatches (registrant.go:127-153) implement: under one identity, for good.
THEOREM PipelineIsOwned == Spec => ImplementsOwner
<1>1. Init => Ownership!Init
  BY DEF Init, Ownership!Init, Serving, Alive
<1>2. IInv /\ [Next]_vars => [Ownership!Next]_(Ownership!vars)
  <2> SUFFICES ASSUME IInv, [Next]_vars PROVE [Ownership!Next]_(Ownership!vars)
    OBVIOUS
  <2>0. ASSUME UNCHANGED <<nodeInfo, ident, proc>> PROVE UNCHANGED Ownership!vars
    BY <2>0 DEF Ownership!vars, Serving, Alive
  <2>1. ASSUME NEW i \in Server, Lifecycle(i) PROVE [Ownership!Next]_(Ownership!vars)
    BY <2>1, LifecycleStep
  <2>2. ASSUME NEW c \in Call, Handler(c) PROVE UNCHANGED <<nodeInfo, ident, proc>>
    BY ZenonT(60), <2>2 DEF Handler, PublishEnvelope, InsertStaged, InsertStagedFails,
                            NotifyStagedPublish, Respond
  <2>3. ASSUME NEW i \in Server, Subscription(i) PROVE UNCHANGED <<nodeInfo, ident, proc>>
    BY <2>3 DEF Subscription, Query, QueryFails, QueryCancelled, SendPage,
                WakeOnNotifier, WakeOnTimer, CloseUpdates
  <2>4. ASSUME NEW i \in Server, Worker(i) PROVE UNCHANGED <<nodeInfo, ident, proc>>
    BY <2>4 DEF Worker, InsertGatewayEnvelope, InsertGatewayFails, DeleteStaged,
                DeleteStagedFails, StopWorker
  <2>5. ASSUME Database PROVE UNCHANGED <<nodeInfo, ident, proc>>
    BY ZenonT(60), <2>5 DEF Database, CommitStaged, AbortStaged, CommitGateway, AbortGateway
  <2>6. ASSUME UNCHANGED vars PROVE UNCHANGED <<nodeInfo, ident, proc>>
    BY <2>6 DEF vars
  <2> QED
    BY <2>0, <2>1, <2>2, <2>3, <2>4, <2>5, <2>6 DEF Next
<1> QED
  BY <1>1, <1>2, InductiveInvariant, PTL DEF Spec, ImplementsOwner, Ownership!Spec

\* The same holds of the publish path, whose processes crash, stop and start again under
\* any identity: those that are up publish under one, for good (registrant.go:25-49).
THEOREM OwnershipKept == Spec => Ownership!Promise
<1> DEFINE One == \A p \in Server : Serving[p] # None => Serving[p] = nodeInfo
           Kept == nodeInfo # None => nodeInfo' = nodeInfo
<1>1. Ownership!Init => One
  BY DEF Ownership!Init
<1>2. One /\ DOMAIN Serving = Server /\ [Ownership!Next]_(Ownership!vars)
      => One' /\ [Kept]_(Ownership!vars)
  <2> SUFFICES ASSUME One, DOMAIN Serving = Server, [Ownership!Next]_(Ownership!vars)
               PROVE  One' /\ [Kept]_(Ownership!vars)
    OBVIOUS
  <2> HIDE DEF Serving
  <2>1. CASE Ownership!Claim
    BY <2>1 DEF Ownership!Claim
  <2>2. ASSUME NEW p \in Server, Ownership!Serve(p) PROVE One' /\ Kept
    BY <2>2 DEF Ownership!Serve
  <2>3. ASSUME NEW p \in Server, Ownership!Stop(p) PROVE One' /\ Kept
    BY <2>3 DEF Ownership!Stop
  <2>4. CASE UNCHANGED Ownership!vars
    BY <2>4 DEF Ownership!vars
  <2> QED
    BY <2>1, <2>2, <2>3, <2>4 DEF Ownership!Next
<1>3. DOMAIN Serving = Server
  BY DEF Serving
<1> QED
  BY <1>1, <1>2, <1>3, PipelineIsOwned, PTL DEF ImplementsOwner, Ownership!Spec, Ownership!Promise

-----------------------------------------------------------------------------
(* Exhausted IDs *)

\* Sequence IDs that do not fit a SID never leave the staging table, for any largest ID
\* and whatever crashes, fails and is retried (service.go:95-98, publishWorker.go:101-108).
THEOREM OnlyFittingIDsLeave == Spec => []OnlyFittingIDs
<1>1. Init => FitInv
  <2> SUFFICES ASSUME Init PROVE FitInv
    OBVIOUS
  <2>1. \A c \in Call : call[c].pc = "idle"
    BY DEF Init, NewCall
  <2> QED
    BY <2>1 DEF Init, FitInv, AnsweredRows
<1>2. IInv /\ FitInv /\ [Next]_vars => FitInv'
  <2> SUFFICES ASSUME IInv, FitInv, [Next]_vars PROVE FitInv'
    OBVIOUS
  <2>1. \A r \in AnsweredRows' : IsValidSequenceID(r.id)
    BY AnsweredStep DEF FitInv
  <2>2. \A g \in gateway' : IsValidSequenceID(g.seq)
    BY SMTT(60), GatewayStep DEF FitInv
  <2>3. \A u \in gatewayTx' : IsValidSequenceID(u.row.seq)
    <3>1. ASSUME NEW i \in Server, NEW r \in batch[i], InsertGatewayEnvelope(i, r)
          PROVE  \A u \in gatewayTx' : IsValidSequenceID(u.row.seq)
      <4>1. PICK e, k, o :
              gatewayTx' = gatewayTx \cup
                {[row |-> [id |-> nextval(gatewaySeq), node |-> ident[i].node,
                           seq |-> r.id, env |-> e], conflict |-> k, owner |-> o]}
        BY ZenonT(60), <3>1 DEF InsertGatewayEnvelope
      <4>2. IsValidSequenceID(r.id)
        BY <3>1 DEF InsertGatewayEnvelope
      <4>3. \A t \in gatewayTx : IsValidSequenceID(t.row.seq)
        BY DEF FitInv
      <4>4. ASSUME NEW u \in gatewayTx', u \notin gatewayTx PROVE u.row.seq = r.id
        BY SMTT(60), <4>1, <4>4
      <4> QED
        BY <4>2, <4>3, <4>4
    <3> QED
      BY <3>1, GatewayTxStep DEF FitInv
  <2> QED
    BY <2>1, <2>2, <2>3 DEF FitInv, IsValidSequenceID
<1>3. IInv /\ FitInv => OnlyFittingIDs
  <2> SUFFICES ASSUME IInv, FitInv, NEW r \in AcceptedRows, ~IsValidSequenceID(r.id)
               PROVE  r \in staged /\ ~Published(r.id)
    BY DEF OnlyFittingIDs, FitInv
  <2>1. ~Published(r.id)
    BY DEF Published, FitInv
  <2>2. r \notin PublishedRows
    BY <2>1 DEF PublishedRows, Published, IInv, IdentityInv
  <2> QED
    BY <2>1, <2>2 DEF AcceptedRows
<1> QED
  BY <1>1, <1>2, <1>3, InductiveInvariant, PTL DEF Spec

-----------------------------------------------------------------------------
(* A subscription without its worker *)

\* Nothing but the end of the process takes an abandoned subscription out of its send,
\* for any number of processes, rows and calls (subscription.go:96, publishWorker.go:85-86).
THEOREM AbandonedStaysSo == Spec => AbandonedForGood
<1>1. IInv /\ [Next]_vars =>
        [\A i \in Server : Abandoned(i) =>
           \/ Abandoned(i)' /\ page'[i] = page[i]
           \/ ~Alive(i)']_vars
  <2> SUFFICES ASSUME IInv, [Next]_vars, NEW i \in Server, Abandoned(i)
               PROVE  (Abandoned(i)' /\ page'[i] = page[i]) \/ ~Alive(i)'
    OBVIOUS
  <2> DEFINE Goal == (Abandoned(i)' /\ page'[i] = page[i]) \/ ~Alive(i)'
  <2>t. /\ proc \in [Server -> {"down", "up", "stopping"}]
        /\ subPc \in [Server -> {"poll", "send", "select", "closed"}]
        /\ page \in [Server -> SUBSET Row]
        /\ wrkPc \in [Server -> {"select", "publish", "tx", "delete", "stopped"}]
    BY DEF IInv, TypeOK
  <2>a. proc[i] = "stopping" /\ subPc[i] = "send" /\ wrkPc[i] = "stopped"
    BY DEF Abandoned
  <2>0. ASSUME proc'[i] = proc[i], subPc'[i] = subPc[i], page'[i] = page[i], wrkPc'[i] = wrkPc[i]
        PROVE  Goal
    BY <2>0 DEF Abandoned
  <2>1. ASSUME NEW j \in Server, Lifecycle(j) PROVE Goal
    <3>1. CASE Die(j)
      BY <2>t, <2>0, <3>1 DEF Die, Alive
    <3>2. CASE Cancel(j) \/ \E d \in Identity : Start(j, d)
      BY <2>t, <2>a, <2>0, <3>2 DEF Cancel, Start, Running, Alive, subVars, wrkVars
    <3> QED
      BY <2>1, <3>1, <3>2 DEF Lifecycle, Crash, Exit
  <2>2. ASSUME NEW c \in Call, Handler(c) PROVE UNCHANGED <<proc, subPc, page, wrkPc>>
    BY ZenonT(60), <2>2 DEF Handler, PublishEnvelope, InsertStaged, InsertStagedFails,
                            NotifyStagedPublish, Respond, subVars, wrkVars
  <2>3. ASSUME NEW j \in Server, Subscription(j) PROVE Goal
    <3>1. CASE Query(j)
      <4>1. j # i /\ UNCHANGED <<proc, wrkPc>>
        BY <2>a, <3>1 DEF Query, wrkVars
      <4>2. subPc'[i] = subPc[i] /\ page'[i] = page[i]
        BY <2>t, <3>1, <4>1 DEF Query
      <4> QED
        BY <2>0, <4>1, <4>2
    <3>2. CASE QueryFails(j) \/ QueryCancelled(j)
      BY <2>t, <2>a, <2>0, <3>2 DEF QueryFails, QueryCancelled, wrkVars
    <3>3. CASE SendPage(j)
      BY <2>t, <2>a, <2>0, <3>3 DEF SendPage
    <3>4. CASE WakeOnNotifier(j) \/ WakeOnTimer(j) \/ CloseUpdates(j)
      BY <2>t, <2>a, <2>0, <3>4 DEF WakeOnNotifier, WakeOnTimer, CloseUpdates, wrkVars
    <3> QED
      BY <2>3, <3>1, <3>2, <3>3, <3>4 DEF Subscription
  <2>4. ASSUME NEW j \in Server, Worker(j) PROVE Goal
    <3>1. ASSUME NEW r \in batch[j], InsertGatewayEnvelope(j, r) PROVE Goal
      BY <2>t, <2>a, <2>0, <3>1 DEF InsertGatewayEnvelope, subVars
    <3>2. ASSUME NEW r \in batch[j], DeleteStaged(j, r) \/ DeleteStagedFails(j, r) PROVE Goal
      BY <2>t, <2>a, <2>0, <3>2 DEF DeleteStaged, DeleteStagedFails, NextRow, subVars
    <3>3. CASE InsertGatewayFails(j) \/ StopWorker(j)
      BY <2>t, <2>a, <2>0, <3>3 DEF InsertGatewayFails, StopWorker, subVars
    <3> QED
      BY <2>4, <3>1, <3>2, <3>3 DEF Worker
  <2>5. ASSUME NEW t \in stagedTx, CommitStaged(t) \/ AbortStaged(t)
        PROVE  UNCHANGED <<proc, subPc, page, wrkPc>>
    BY <2>5 DEF CommitStaged, AbortStaged, subVars, wrkVars
  <2>6. ASSUME NEW t \in gatewayTx, CommitGateway(t) \/ AbortGateway(t) PROVE Goal
    <3>1. t.owner # None => wrkPc[t.owner] = "tx"
      BY DEF IInv, GatewayInv
    <3> QED
      BY <2>t, <2>a, <2>0, <2>6, <3>1 DEF CommitGateway, AbortGateway, subVars
  <2>7. CASE UNCHANGED vars
    BY <2>7, <2>0 DEF vars, subVars, wrkVars
  <2> QED
    BY <2>0, <2>1, <2>2, <2>3, <2>4, <2>5, <2>6, <2>7 DEF Next, Database
<1> QED
  BY <1>1, InductiveInvariant, PTL DEF Spec, AbandonedForGood

-----------------------------------------------------------------------------
(* What the log promises *)

\* OriginatorLog keeps its promise, and with it the publish path that implements it: an
\* ID names one envelope, and the published ones are at all times a prefix of the accepted
\* (service.go:64-101, publishWorker.go:82-147).
THEOREM PromiseKept == Spec => []Log!Promise
<1>1. Log!Init => Log!Promise
  BY DEF Log!Init, Log!Promise
<1>2. Log!Promise /\ [Log!Next]_(Log!vars) => Log!Promise'
  <2> SUFFICES ASSUME Log!Promise, [Log!Next]_(Log!vars) PROVE Log!Promise'
    OBVIOUS
  <2>t. AcceptedRows \subseteq [id : 1 .. MaxStaged, env : PayerEnv] /\ MaxStaged \in Nat
    BY ConstantsAssumption DEF Log!Promise
  <2>1. CASE Log!Accept
    <3>1. PICK id \in 1 .. MaxStaged, e \in PayerEnv :
            /\ \A r \in AcceptedRows : r.id < id
            /\ AcceptedRows' = AcceptedRows \cup {[id |-> id, env |-> e]}
            /\ AnsweredRows' = AnsweredRows /\ PublishedRows' = PublishedRows
      BY <2>1 DEF Log!Accept
    <3>2. \A r \in PublishedRows : r.id < id
      BY <3>1 DEF Log!Promise
    <3> QED
      BY SMTT(60), <2>t, <3>1, <3>2 DEF Log!Promise
  <2>2. CASE Log!Answer
    BY <2>2 DEF Log!Answer, Log!Promise
  <2>3. CASE Log!Publish
    BY <2>3 DEF Log!Publish, Log!Promise
  <2>4. CASE UNCHANGED Log!vars
    BY <2>4 DEF Log!vars, Log!Promise
  <2> QED
    BY <2>1, <2>2, <2>3, <2>4 DEF Log!Next
<1> QED
  BY <1>1, <1>2, Refinement, PTL DEF ImplementsLog, Log!Spec

=============================================================================
