-------------------------- MODULE PublishRowProofs --------------------------
(* Steps of PublishPipeline: the staging table and the rows in memory. *)
EXTENDS PublishHandlerProofs, WellFoundedInduction

\* The prover of every leaf that names no other, and its time limit in seconds.
USE ZenonT(60)

(* Staging: IDs become visible in order *)

\* Disowning does not make two transactions of one.
LEMMA DisownUnique ==
  ASSUME NEW T, NEW O, \A t, u \in T : t = u
  PROVE  \A t, u \in Disown(T, O) : t = u
BY DEF Disown

\* What a poll reads: rows above lastSeenID, and with a row every such row below it.
LEMMA PageFacts ==
  ASSUME TypeOK, NEW last \in Nat, NEW r \in SelectStagedOriginatorEnvelopes(last)
  PROVE  /\ r \in staged /\ r \in Row /\ r.id \in Nat /\ last < r.id
         /\ \A q \in staged : last < q.id /\ q.id <= r.id
                           => q \in SelectStagedOriginatorEnvelopes(last)
<1> DEFINE above == {q \in staged : q.id > last}
           Below(q) == {x \in above : x.id < q.id}
<1>1. r \in staged /\ r \in Row /\ r.id \in Nat /\ last < r.id
  BY DEF SelectStagedOriginatorEnvelopes, TypeOK, Row
<1>2. Cardinality(Below(r)) < NumRows
  BY DEF SelectStagedOriginatorEnvelopes
<1>3. ASSUME NEW q \in staged, last < q.id, q.id <= r.id
      PROVE  q \in SelectStagedOriginatorEnvelopes(last)
  <2>1. \A x \in staged : x.id \in Nat
    BY DEF TypeOK, Row
  <2>2. Below(q) \subseteq Below(r)
    BY SMTT(60), <1>1, <1>3, <2>1
  <2>3. IsFiniteSet(Below(r))
    BY FS_Subset DEF TypeOK
  <2>4. /\ Cardinality(Below(q)) <= Cardinality(Below(r))
        /\ Cardinality(Below(q)) \in Nat /\ Cardinality(Below(r)) \in Nat
    BY <2>2, <2>3, FS_Subset, FS_CardinalityType
  <2>5. Cardinality(Below(q)) < NumRows
    BY SMTT(60), <1>2, <2>4, ConstantsAssumption
  <2> QED
    BY <1>3, <2>1, <2>5 DEF SelectStagedOriginatorEnvelopes
<1> QED
  BY <1>1, <1>3

\* A set of natural numbers has a smallest element.
LEMMA SmallestID ==
  ASSUME NEW S \in SUBSET Nat, S # {}
  PROVE  \E m \in S : \A k \in S : m <= k
<1>1. PICK m \in S : \A k \in S : <<k, m>> \notin OpToRel(<, Nat)
  BY NatLessThanWellFounded, WFMin
<1>2. \A k \in S : ~(k < m)
  BY ZenonT(60), <1>1 DEF OpToRel
<1> QED
  BY SMTT(60), <1>2

\* A poll that leaves a row out has a full page (subscription.go:96-98).
LEMMA FullPage ==
  ASSUME TypeOK, NEW last \in Nat, NEW r \in staged, last < r.id,
         r \notin SelectStagedOriginatorEnvelopes(last)
  PROVE  /\ ~(Cardinality(SelectStagedOriginatorEnvelopes(last)) < NumRows)
         /\ SelectStagedOriginatorEnvelopes(last) # {}
<1> DEFINE above == {q \in staged : q.id > last}
           results == SelectStagedOriginatorEnvelopes(last)
           rest == above \ results
           Below(q) == {x \in above : x.id < q.id}
<1>1. \A q \in staged : q.id \in Nat
  BY DEF TypeOK, Row
<1>2. PICK q \in rest : \A x \in rest : q.id <= x.id
  <2> DEFINE S == {x.id : x \in rest}
  <2>1. S \in SUBSET Nat /\ S # {}
    BY <1>1
  <2>2. PICK m \in S : \A k \in S : m <= k
    BY ZenonT(60), <2>1, SmallestID
  <2> QED
    BY <2>2
<1>3. ~(Cardinality(Below(q)) < NumRows)
  BY <1>2 DEF SelectStagedOriginatorEnvelopes
<1>4. Below(q) \subseteq results
  BY SMTT(60), <1>1, <1>2
<1>5. IsFiniteSet(results) /\ IsFiniteSet(Below(q))
  BY ZenonT(60), FS_Subset DEF TypeOK, SelectStagedOriginatorEnvelopes
<1>6. /\ Cardinality(Below(q)) <= Cardinality(results)
      /\ Cardinality(Below(q)) \in Nat /\ Cardinality(results) \in Nat
  BY <1>4, <1>5, FS_Subset, FS_CardinalityType
<1>7. ~(Cardinality(results) < NumRows)
  BY SMTT(60), <1>3, <1>6, ConstantsAssumption
<1>8. results # {}
  BY SMTT(60), <1>7, FS_EmptySet, ConstantsAssumption
<1> QED
  BY <1>7, <1>8

\* The staging lock keeps IDs becoming visible in order (00001_init-schema.up.sql:54-68).
LEMMA StagingStep ==
  ASSUME IInv, [Next]_vars
  PROVE  StagingInv'
<1>t. /\ stagedTx \in SUBSET StagedTx /\ stagedSeq \in Nat /\ MaxStaged \in Nat
      /\ lastSeenID \in [Server -> Nat] /\ TypeOK
  BY SMTT(60), ConstantsAssumption DEF IInv, TypeOK
<1>a. AcceptedRows \subseteq Row
  BY DEF AcceptedRows, PublishedRows, IInv, TypeOK, GatewayRow, OriginatorEnv
<1>i. \A r \in Row : r.id \in Nat
  BY DEF Row
<1>s. StagingInv
  BY DEF IInv
<1>0. ASSUME stagedSeq' = stagedSeq, AcceptedRows' = AcceptedRows,
             \A i \in Server : lastSeenID'[i] = lastSeenID[i] \/ lastSeenID'[i] = 0,
             \A u \in stagedTx' : \E t \in stagedTx : u.row = t.row,
             \A t, u \in stagedTx' : t = u
      PROVE  StagingInv'
  <2>1. \A t \in stagedTx : t.row.id \in Nat \ {0}
    BY <1>t DEF StagedTx, Row
  <2>2. \A i \in Server : lastSeenID'[i] <= stagedSeq'
    BY SMTT(60), <1>0, <1>s, <1>t DEF StagingInv
  <2>3. ASSUME NEW u \in stagedTx'
        PROVE  /\ u.row.id = stagedSeq'
               /\ \A r \in AcceptedRows' : r.id < u.row.id
               /\ \A i \in Server : lastSeenID'[i] < u.row.id
    <3>1. PICK t \in stagedTx : u.row = t.row
      BY <1>0
    <3> QED
      BY SMTT(60), <1>0, <1>s, <1>t, <2>1, <3>1 DEF StagingInv
  <2> QED
    BY <1>0, <1>s, <2>2, <2>3 DEF StagingInv
\* A step that leaves the staging transactions and the subscriptions alone.
<1>q. ASSUME AcceptedRows' = AcceptedRows, UNCHANGED <<stagedSeq, stagedTx, lastSeenID>>
      PROVE  StagingInv'
  BY <1>0, <1>q, <1>s DEF StagingInv
<1>1. ASSUME NEW i \in Server, Lifecycle(i) PROVE StagingInv'
  <2>1. AcceptedRows' = AcceptedRows
    BY <1>1 DEF Lifecycle, Start, Cancel, Crash, Exit, Die, dbVars, AcceptedRows, PublishedRows
  <2>2. CASE Die(i)
    <3>1. \A u \in stagedTx' : \E t \in stagedTx : u.row = t.row
      BY SMTT(60), <1>t, <2>2, DisownStaged DEF Die
    <3>2. \A t, u \in stagedTx' : t = u
      BY <1>s, <2>2, DisownUnique DEF Die, StagingInv
    <3>3. \A j \in Server : lastSeenID'[j] = lastSeenID[j] \/ lastSeenID'[j] = 0
      BY <1>t, <2>2 DEF Die
    <3> QED
      BY <1>0, <2>1, <2>2, <3>1, <3>2, <3>3 DEF Die
  <2>3. CASE Cancel(i) \/ \E d \in Identity : Start(i, d)
    BY <1>q, <2>1, <2>3 DEF Cancel, Start, dbVars, subVars
  <2> QED
    BY <1>1, <2>2, <2>3 DEF Lifecycle, Crash, Exit
<1>2. ASSUME NEW c \in Call, Handler(c) PROVE StagingInv'
  <2>1. AcceptedRows' = AcceptedRows
    BY ZenonT(60), <1>2 DEF Handler, PublishEnvelope, InsertStaged, InsertStagedFails,
                NotifyStagedPublish, Respond, dbVars, AcceptedRows, PublishedRows
  <2>2. CASE InsertStaged(c)
    <3>1. stagedTx' = {[row |-> [id |-> stagedSeq + 1, env |-> call[c].env], owner |-> c]}
      BY <2>2 DEF InsertStaged, StagedLockFree, nextval
    <3>2. stagedSeq' = stagedSeq + 1 /\ lastSeenID' = lastSeenID
      BY <2>2 DEF InsertStaged, nextval, subVars
    <3>3. \A r \in AcceptedRows : r.id <= stagedSeq /\ r.id \in Nat
      BY <1>a, <1>i, <1>s DEF StagingInv
    <3>4. \A i \in Server : lastSeenID[i] <= stagedSeq /\ lastSeenID[i] \in Nat
      BY <1>s, <1>t DEF StagingInv
    <3>5. \A r, q \in AcceptedRows : r.id = q.id => r = q
      BY <1>s DEF StagingInv
    <3> QED
      BY SMTT(60), <1>t, <2>1, <3>1, <3>2, <3>3, <3>4, <3>5 DEF StagingInv
  <2>3. CASE InsertStagedFails(c)
    <3>1. \A u \in stagedTx' : \E t \in stagedTx : u.row = t.row
      BY SMTT(60), <1>t, <2>3, DisownStaged DEF InsertStagedFails
    <3>2. \A t, u \in stagedTx' : t = u
      BY <1>s, <2>3, DisownUnique DEF InsertStagedFails, StagingInv
    <3> QED
      BY <1>0, <2>1, <2>3, <3>1, <3>2 DEF InsertStagedFails, subVars
  <2>4. CASE UNCHANGED <<stagedSeq, stagedTx, lastSeenID>>
    BY <1>q, <2>1, <2>4
  <2> QED
    BY ZenonT(60), <1>2, <2>2, <2>3, <2>4 DEF Handler, PublishEnvelope, NotifyStagedPublish,
                                  Respond, dbVars, subVars
<1>3. ASSUME NEW i \in Server, Subscription(i) PROVE StagingInv'
  <2>1. AcceptedRows' = AcceptedRows /\ UNCHANGED <<stagedSeq, stagedTx>>
    BY <1>3 DEF Subscription, Query, QueryFails, QueryCancelled, SendPage, WakeOnNotifier,
                WakeOnTimer, CloseUpdates, dbVars, AcceptedRows, PublishedRows
  <2>2. ASSUME NEW r \in SelectStagedOriginatorEnvelopes(lastSeenID[i]),
               lastSeenID' = [lastSeenID EXCEPT ![i] = r.id]
        PROVE  StagingInv'
    <3>1. r \in AcceptedRows /\ r.id \in Nat
      BY <1>t, PageFacts DEF AcceptedRows
    <3>2. \A j \in Server : lastSeenID'[j] <= stagedSeq'
      BY <1>s, <1>t, <2>1, <2>2, <3>1 DEF StagingInv
    <3>3. \A t \in stagedTx : \A j \in Server : lastSeenID'[j] < t.row.id
      BY <1>s, <1>t, <2>2, <3>1 DEF StagingInv
    <3> QED
      BY <1>s, <2>1, <3>2, <3>3 DEF StagingInv
  <2>3. CASE UNCHANGED lastSeenID
    BY <1>q, <2>1, <2>3
  <2> QED
    BY <1>3, <2>2, <2>3 DEF Subscription, Query, QueryFails, QueryCancelled, SendPage,
                            WakeOnNotifier, WakeOnTimer, CloseUpdates
<1>4. ASSUME NEW i \in Server, Worker(i) PROVE StagingInv'
  <2>1. UNCHANGED <<stagedSeq, stagedTx, lastSeenID>>
    BY <1>4 DEF Worker, InsertGatewayEnvelope, InsertGatewayFails, DeleteStaged,
                DeleteStagedFails, StopWorker, dbVars, subVars
  <2>2. AcceptedRows' = AcceptedRows
    <3>1. ASSUME NEW t \in stagedTx, CommitStaged(t) PROVE FALSE
      BY <2>1, <3>1 DEF CommitStaged
    <3> QED
      BY <3>1, AcceptedStep
  <2> QED
    BY <1>q, <2>1, <2>2
<1>5. ASSUME NEW t \in stagedTx, CommitStaged(t) PROVE StagingInv'
  <2>1. stagedTx' = {} /\ UNCHANGED <<stagedSeq, lastSeenID>>
    BY <1>5, <1>s DEF CommitStaged, StagingInv, subVars
  <2>2. AcceptedRows' = AcceptedRows \cup {t.row}
    BY <1>5 DEF CommitStaged, AcceptedRows, PublishedRows
  <2>3. t.row.id \in Nat /\ t.row.id = stagedSeq /\ \A r \in AcceptedRows : r.id < t.row.id
    BY <1>s, <1>t DEF StagingInv, StagedTx, Row
  <2>4. \A r \in AcceptedRows' : r.id <= stagedSeq'
    BY SMTT(60), <1>s, <2>1, <2>2, <2>3 DEF StagingInv
  <2>5. \A r, q \in AcceptedRows' : r.id = q.id => r = q
    BY SMTT(60), <1>a, <1>i, <1>s, <2>2, <2>3 DEF StagingInv
  <2> QED
    BY <1>s, <2>1, <2>4, <2>5 DEF StagingInv
<1>6. ASSUME NEW t \in stagedTx, AbortStaged(t) PROVE StagingInv'
  <2>1. stagedTx' \subseteq stagedTx /\ UNCHANGED <<stagedSeq, lastSeenID, staged, gateway>>
    BY <1>6 DEF AbortStaged, subVars
  <2>2. AcceptedRows' = AcceptedRows
    BY <2>1 DEF AcceptedRows, PublishedRows
  <2> QED
    BY <1>0, <1>s, <2>1, <2>2 DEF StagingInv
<1>7. ASSUME NEW t \in gatewayTx, CommitGateway(t) \/ AbortGateway(t) PROVE StagingInv'
  <2>1. UNCHANGED <<stagedSeq, stagedTx, lastSeenID>>
    BY <1>7 DEF CommitGateway, AbortGateway, subVars
  <2>2. AcceptedRows' = AcceptedRows
    <3>1. ASSUME NEW u \in stagedTx, CommitStaged(u) PROVE FALSE
      BY <2>1, <3>1 DEF CommitStaged
    <3> QED
      BY <3>1, AcceptedStep
  <2> QED
    BY <1>q, <2>1, <2>2
<1>8. CASE UNCHANGED vars
  BY <1>q, <1>8 DEF vars, dbVars, subVars, AcceptedRows, PublishedRows
<1> QED
  BY <1>1, <1>2, <1>3, <1>4, <1>5, <1>6, <1>7, <1>8 DEF Next, Database

-----------------------------------------------------------------------------
(* Rows in memory *)

\* Nothing leaves gateway_envelopes.
LEMMA PublishedStep ==
  ASSUME IInv, [Next]_vars
  PROVE  gateway \subseteq gateway'
BY GatewayStep

\* Pages and batches keep their order, and the row a worker is deleting is published.
LEMMA InFlightStep ==
  ASSUME IInv, [Next]_vars
  PROVE  InFlightInv'
<1> DEFINE Good(p, b, l, s, w) ==
      /\ p \cup b \subseteq AcceptedRows'
      /\ \A r \in p \cup b : r.id <= l
      /\ \A r \in b, q \in p : r.id < q.id
      /\ p # {} => s = "send"
      /\ b # {} => w \in {"publish", "tx", "delete"}
      /\ w = "delete" => \A r \in b : First(r, b) => \E g \in gateway' : g.seq = r.id
<1>a. AcceptedRows \subseteq AcceptedRows' /\ gateway \subseteq gateway'
  BY AcceptedStep, PublishedStep
<1>t. /\ page \in [Server -> SUBSET Row] /\ batch \in [Server -> SUBSET Row]
      /\ lastSeenID \in [Server -> Nat] /\ TypeOK
      /\ subPc \in [Server -> {"poll", "send", "select", "closed"}]
      /\ wrkPc \in [Server -> {"select", "publish", "tx", "delete", "stopped"}]
  BY DEF IInv, TypeOK
<1>i. \A r \in Row : r.id \in Nat
  BY DEF Row
<1>f. \A i \in Server :
        /\ page[i] \cup batch[i] \subseteq AcceptedRows
        /\ \A r \in page[i] \cup batch[i] : r.id <= lastSeenID[i]
        /\ \A r \in batch[i], q \in page[i] : r.id < q.id
        /\ page[i] # {} => subPc[i] = "send"
        /\ batch[i] # {} => wrkPc[i] \in {"publish", "tx", "delete"}
        /\ wrkPc[i] = "delete" => \A r \in batch[i] : First(r, batch[i]) => Published(r.id)
  BY DEF IInv, InFlightInv
<1>g. \A i \in Server : Good(page[i], batch[i], lastSeenID[i], subPc[i], wrkPc[i])
  BY <1>a, <1>f DEF Published
<1>q. ASSUME \A i \in Server : Good(page'[i], batch'[i], lastSeenID'[i], subPc'[i], wrkPc'[i])
      PROVE  InFlightInv'
  BY <1>q DEF InFlightInv, Published, First
<1> HIDE DEF Good
<1>0. ASSUME UNCHANGED <<page, batch, lastSeenID, subPc, wrkPc>> PROVE InFlightInv'
  BY <1>0, <1>g, <1>q
<1>e. ASSUME NEW i \in Server,
             Good(page'[i], batch'[i], lastSeenID'[i], subPc'[i], wrkPc'[i]),
             \A j \in Server \ {i} :
               /\ page'[j] = page[j] /\ batch'[j] = batch[j] /\ lastSeenID'[j] = lastSeenID[j]
               /\ subPc'[j] = subPc[j] /\ wrkPc'[j] = wrkPc[j]
      PROVE  InFlightInv'
  BY <1>e, <1>g, <1>q
<1>1. ASSUME NEW i \in Server, Lifecycle(i) PROVE InFlightInv'
  <2>1. CASE Die(i)
    <3>1. /\ page'[i] = {} /\ batch'[i] = {} /\ lastSeenID'[i] = 0
          /\ subPc'[i] = "poll" /\ wrkPc'[i] = "select"
      BY <1>t, <2>1 DEF Die
    <3>2. Good(page'[i], batch'[i], lastSeenID'[i], subPc'[i], wrkPc'[i])
      BY <3>1 DEF Good
    <3> QED
      BY <1>e, <1>t, <2>1, <3>2 DEF Die
  <2>2. CASE Cancel(i) \/ \E d \in Identity : Start(i, d)
    BY <1>0, <2>2 DEF Cancel, Start, subVars, wrkVars
  <2> QED
    BY <1>1, <2>1, <2>2 DEF Lifecycle, Crash, Exit
<1>2. ASSUME NEW c \in Call, Handler(c) PROVE InFlightInv'
  BY ZenonT(60), <1>0, <1>2 DEF Handler, PublishEnvelope, InsertStaged, InsertStagedFails,
                    NotifyStagedPublish, Respond, subVars, wrkVars
<1>3. ASSUME NEW i \in Server, Subscription(i) PROVE InFlightInv'
  \* The subscription is not sending, so it holds no page.
  <2>1. ASSUME subPc[i] \in {"poll", "select"}, NEW s,
               subPc' = [subPc EXCEPT ![i] = s],
               UNCHANGED <<page, batch, lastSeenID, wrkPc>>
        PROVE  InFlightInv'
    <3>1. page[i] = {} /\ subPc'[i] = s
      BY <1>f, <1>t, <2>1
    <3>2. Good(page'[i], batch'[i], lastSeenID'[i], subPc'[i], wrkPc'[i])
      BY <1>g, <2>1, <3>1 DEF Good
    <3> QED
      BY <1>e, <1>t, <2>1, <3>2
  <2>2. CASE Query(i)
    <3> DEFINE results == SelectStagedOriginatorEnvelopes(lastSeenID[i])
    <3>1. ASSUME NEW r \in results, Last(r, results),
                 lastSeenID' = [lastSeenID EXCEPT ![i] = r.id],
                 page' = [page EXCEPT ![i] = results],
                 subPc' = [subPc EXCEPT ![i] = "send"],
                 UNCHANGED <<batch, wrkPc>>
          PROVE  InFlightInv'
      <4>1. \A q \in results : q \in staged /\ lastSeenID[i] < q.id /\ q.id \in Nat /\ q.id <= r.id
        BY <1>t, <3>1, PageFacts DEF Last
      <4>2. results \subseteq AcceptedRows'
        BY <1>a, <4>1 DEF AcceptedRows
      <4> HIDE DEF results
      <4>3. /\ page'[i] = results /\ lastSeenID'[i] = r.id /\ subPc'[i] = "send"
            /\ batch'[i] = batch[i] /\ wrkPc'[i] = wrkPc[i]
        BY <1>t, <3>1
      <4>4. \A b \in batch[i] : b.id <= lastSeenID[i] /\ b.id \in Nat
        BY <1>f, <1>i, <1>t
      <4>5. \A q \in results : q.id <= r.id /\ \A b \in batch[i] : b.id < q.id /\ b.id <= r.id
        BY SMTT(60), <1>t, <3>1, <4>1, <4>4
      <4>6. Good(results, batch[i], r.id, "send", wrkPc[i])
        BY <1>g, <3>1, <4>2, <4>5 DEF Good
      <4> QED
        BY <1>e, <1>t, <3>1, <4>3, <4>6
    <3>2. CASE /\ results = {} /\ subPc' = [subPc EXCEPT ![i] = "select"]
               /\ UNCHANGED <<lastSeenID, page>>
      BY ZenonT(60), <2>1, <2>2, <3>2 DEF Query, wrkVars
    <3> QED
      BY <2>2, <3>1, <3>2 DEF Query, wrkVars
  <2>3. CASE SendPage(i)
    <3>1. batch[i] = {} /\ wrkPc'[i] = "publish" /\ batch'[i] = page[i] /\ page'[i] = {}
          /\ lastSeenID'[i] = lastSeenID[i]
      BY <1>f, <1>t, <2>3 DEF SendPage
    <3>2. Good(page'[i], batch'[i], lastSeenID'[i], subPc'[i], wrkPc'[i])
      BY <1>g, <3>1 DEF Good
    <3> QED
      BY <1>e, <1>t, <2>3, <3>2 DEF SendPage
  <2>4. CASE QueryFails(i) \/ QueryCancelled(i)
    BY <2>1, <2>4 DEF QueryFails, QueryCancelled, wrkVars
  <2>5. CASE WakeOnNotifier(i) \/ WakeOnTimer(i) \/ CloseUpdates(i)
    BY <2>1, <2>5 DEF WakeOnNotifier, WakeOnTimer, CloseUpdates, wrkVars
  <2> QED
    BY <1>3, <2>2, <2>3, <2>4, <2>5 DEF Subscription
\* A step of worker i that keeps its batch and does not enter "delete".
<1>w. ASSUME NEW i \in Server, NEW w \in {"publish", "tx", "stopped"},
             w = "stopped" => wrkPc[i] = "select",
             wrkPc' = [wrkPc EXCEPT ![i] = w],
             UNCHANGED <<page, batch, lastSeenID, subPc>>
      PROVE  InFlightInv'
  <2>1. wrkPc'[i] = w /\ (w = "stopped" => batch[i] = {})
    BY <1>f, <1>t, <1>w
  <2>2. Good(page'[i], batch'[i], lastSeenID'[i], subPc'[i], wrkPc'[i])
    BY <1>g, <1>w, <2>1 DEF Good
  <2> QED
    BY <1>e, <1>t, <1>w, <2>2
<1>4. ASSUME NEW i \in Server, Worker(i) PROVE InFlightInv'
  <2>1. ASSUME NEW r \in batch[i], NextRow(i, r), UNCHANGED <<page, lastSeenID, subPc>>
        PROVE  InFlightInv'
    <3>1. /\ batch'[i] = batch[i] \ {r}
          /\ wrkPc'[i] = IF batch[i] = {r} THEN "select" ELSE "publish"
      BY <1>t, <2>1 DEF NextRow
    <3>2. Good(page'[i], batch'[i], lastSeenID'[i], subPc'[i], wrkPc'[i])
      BY <1>g, <2>1, <3>1 DEF Good
    <3> QED
      BY <1>e, <1>t, <2>1, <3>2 DEF NextRow
  <2>2. ASSUME NEW r \in batch[i],
               InsertGatewayEnvelope(i, r) \/ DeleteStaged(i, r) \/ DeleteStagedFails(i, r)
        PROVE  InFlightInv'
    BY <1>w, <2>1, <2>2 DEF InsertGatewayEnvelope, DeleteStaged, DeleteStagedFails, subVars
  <2>3. CASE InsertGatewayFails(i) \/ StopWorker(i)
    BY <1>w, <2>3 DEF InsertGatewayFails, StopWorker, subVars
  <2> QED
    BY <1>4, <2>2, <2>3 DEF Worker
<1>5. ASSUME NEW t \in stagedTx, CommitStaged(t) \/ AbortStaged(t) PROVE InFlightInv'
  BY <1>0, <1>5 DEF CommitStaged, AbortStaged, subVars, wrkVars
<1>6. ASSUME NEW t \in gatewayTx, CommitGateway(t) PROVE InFlightInv'
  <2>1. CASE t.owner = None
    BY <1>0, <1>6, <2>1 DEF CommitGateway, subVars
  <2>2. CASE t.owner # None
    <3> DEFINE i == t.owner
    <3>1. i \in Server /\ wrkPc[i] = "tx" /\ First(t.row.env.row, batch[i])
      BY <2>2 DEF IInv, TypeOK, GatewayTx, GatewayInv
    <3>2. wrkPc' = [wrkPc EXCEPT ![i] = "delete"] /\ UNCHANGED <<page, batch, lastSeenID, subPc>>
      BY <1>6, <2>2 DEF CommitGateway, subVars
    <3>3. \E g \in gateway' : g.seq = t.row.env.row.id
      BY SMTT(60), <1>6 DEF CommitGateway, IInv, GatewayInv, IdentityInv, Published
    <3>4. \A r \in batch[i] : First(r, batch[i]) => r.id = t.row.env.row.id
      BY SMTT(60), <1>i, <1>t, <3>1 DEF First
    <3>5. wrkPc'[i] = "delete"
      BY <1>t, <3>1, <3>2
    <3>6. Good(page'[i], batch'[i], lastSeenID'[i], subPc'[i], wrkPc'[i])
      BY <1>g, <3>1, <3>2, <3>3, <3>4, <3>5 DEF Good
    <3> QED
      BY <1>e, <1>t, <3>1, <3>2, <3>6
  <2> QED
    BY <2>1, <2>2
<1>7. ASSUME NEW t \in gatewayTx, AbortGateway(t) PROVE InFlightInv'
  <2>1. t.owner \in Server \cup {None}
    BY DEF IInv, TypeOK, GatewayTx
  <2> QED
    BY ZenonT(60), <1>0, <1>7, <1>w, <2>1 DEF AbortGateway, subVars
<1>8. CASE UNCHANGED vars
  BY <1>0, <1>8 DEF vars, subVars, wrkVars
<1> QED
  BY <1>1, <1>2, <1>3, <1>4, <1>5, <1>6, <1>7, <1>8 DEF Next, Database

\* lastSeenID moves past a row only when the row enters the page, and a row leaves
\* the batch only when it is published; a new row is above every lastSeenID.
LEMMA NoRowSkippedStep ==
  ASSUME IInv, [Next]_vars
  PROVE  NoRowSkipped'
<1>p. \A id : Published(id) => Published(id)'
  BY PublishedStep DEF Published
<1>t. /\ page \in [Server -> SUBSET Row] /\ batch \in [Server -> SUBSET Row]
      /\ lastSeenID \in [Server -> Nat] /\ staged \subseteq Row /\ TypeOK
  BY DEF IInv, TypeOK
<1>i. \A r \in Row : r.id \in Nat /\ 0 < r.id
  BY SMTT(60) DEF Row
<1>s. \A i \in Server : \A r \in staged :
        r.id <= lastSeenID[i] => Published(r.id) \/ r \in page[i] \cup batch[i]
  BY DEF IInv, NoRowSkipped
<1>f. \A i \in Server : /\ page[i] # {} => subPc[i] = "send"
                        /\ batch[i] # {} => wrkPc[i] \in {"publish", "tx", "delete"}
  BY DEF IInv, InFlightInv
<1>0. ASSUME staged' \subseteq staged, UNCHANGED lastSeenID,
             \A i \in Server : \A r \in page[i] \cup batch[i] :
               Published(r.id) \/ r \in page'[i] \cup batch'[i]
      PROVE  NoRowSkipped'
  BY <1>0, <1>p, <1>s DEF NoRowSkipped
<1>q. ASSUME UNCHANGED <<staged, lastSeenID, page, batch>> PROVE NoRowSkipped'
  BY <1>0, <1>q
<1>1. ASSUME NEW i \in Server, Lifecycle(i) PROVE NoRowSkipped'
  <2>1. CASE Die(i)
    <3>1. \A j \in Server \ {i} : /\ lastSeenID'[j] = lastSeenID[j]
                                 /\ page'[j] = page[j] /\ batch'[j] = batch[j]
      BY <1>t, <2>1 DEF Die
    <3>2. lastSeenID'[i] = 0 /\ staged' = staged
      BY <1>t, <2>1 DEF Die
    <3>3. \A r \in staged : ~(r.id <= 0)
      BY SMTT(60), <1>i, <1>t
    <3> QED
      BY <1>p, <1>s, <3>1, <3>2, <3>3 DEF NoRowSkipped
  <2>2. CASE Cancel(i) \/ \E d \in Identity : Start(i, d)
    BY <1>q, <2>2 DEF Cancel, Start, dbVars, subVars, wrkVars
  <2> QED
    BY <1>1, <2>1, <2>2 DEF Lifecycle, Crash, Exit
<1>2. ASSUME NEW c \in Call, Handler(c) PROVE NoRowSkipped'
  BY ZenonT(60), <1>q, <1>2 DEF Handler, PublishEnvelope, InsertStaged, InsertStagedFails,
                    NotifyStagedPublish, Respond, dbVars, subVars, wrkVars
<1>3. ASSUME NEW i \in Server, Subscription(i) PROVE NoRowSkipped'
  <2>1. CASE Query(i)
    <3> DEFINE results == SelectStagedOriginatorEnvelopes(lastSeenID[i])
    <3>1. ASSUME NEW r \in results,
                 lastSeenID' = [lastSeenID EXCEPT ![i] = r.id],
                 page' = [page EXCEPT ![i] = results]
          PROVE  NoRowSkipped'
      <4>1. \A q \in staged : lastSeenID[i] < q.id /\ q.id <= r.id => q \in results
        BY <1>t, PageFacts
      <4> HIDE DEF results
      <4>2. /\ lastSeenID'[i] = r.id /\ page'[i] = results /\ page[i] = {}
            /\ UNCHANGED <<staged, batch>>
        BY <1>f, <1>t, <2>1, <3>1 DEF Query, dbVars, wrkVars
      <4>3. ASSUME NEW q \in staged, q.id <= r.id
            PROVE  Published(q.id) \/ q \in results \cup batch[i]
        BY SMTT(60), <1>i, <1>s, <1>t, <4>1, <4>2, <4>3
      <4>4. ASSUME NEW j \in Server, NEW q \in staged', q.id <= lastSeenID'[j]
            PROVE  Published(q.id)' \/ q \in page'[j] \cup batch'[j]
        <5>1. CASE j = i
          BY <1>p, <4>2, <4>3, <4>4, <5>1
        <5>2. CASE j # i
          BY <1>p, <1>s, <1>t, <3>1, <4>2, <4>4, <5>2
        <5> QED
          BY <5>1, <5>2
      <4> QED
        BY <4>4 DEF NoRowSkipped
    <3>2. CASE UNCHANGED <<lastSeenID, page>>
      BY <1>q, <2>1, <3>2 DEF Query, dbVars, wrkVars
    <3> QED
      BY <2>1, <3>1, <3>2 DEF Query
  <2>2. CASE SendPage(i)
    <3>1. batch[i] = {} /\ UNCHANGED <<staged, lastSeenID>>
      BY <1>f, <2>2 DEF SendPage, dbVars
    <3>2. \A j \in Server : page[j] \cup batch[j] = page'[j] \cup batch'[j]
      BY <1>t, <2>2, <3>1 DEF SendPage
    <3> QED
      BY <1>0, <3>1, <3>2
  <2> QED
    BY <1>q, <1>3, <2>1, <2>2 DEF Subscription, QueryFails, QueryCancelled,
         WakeOnNotifier, WakeOnTimer, CloseUpdates, dbVars, wrkVars
<1>4. ASSUME NEW i \in Server, Worker(i) PROVE NoRowSkipped'
  <2>1. ASSUME NEW r \in batch[i], DeleteStaged(i, r) \/ DeleteStagedFails(i, r)
        PROVE  NoRowSkipped'
    <3>1. /\ staged' \subseteq staged /\ UNCHANGED <<lastSeenID, page>>
          /\ wrkPc[i] = "delete" /\ First(r, batch[i])
          /\ batch' = [batch EXCEPT ![i] = @ \ {r}]
      BY <2>1 DEF DeleteStaged, DeleteStagedFails, NextRow, dbVars, subVars
    <3>2. Published(r.id)
      BY <3>1 DEF IInv, InFlightInv
    <3> QED
      BY <1>0, <1>t, <3>1, <3>2
  <2>2. ASSUME NEW r \in batch[i], InsertGatewayEnvelope(i, r) PROVE NoRowSkipped'
    BY <1>q, <2>2 DEF InsertGatewayEnvelope, subVars
  <2>3. CASE InsertGatewayFails(i) \/ StopWorker(i)
    BY <1>q, <2>3 DEF InsertGatewayFails, StopWorker, dbVars, subVars
  <2> QED
    BY <1>4, <2>1, <2>2, <2>3 DEF Worker
<1>5. ASSUME NEW t \in stagedTx, CommitStaged(t) PROVE NoRowSkipped'
  <2>1. staged' = staged \cup {t.row} /\ UNCHANGED <<lastSeenID, page, batch>>
    BY <1>5 DEF CommitStaged, subVars, wrkVars
  <2>2. t.row.id \in Nat /\ \A i \in Server : lastSeenID[i] < t.row.id
    BY DEF IInv, TypeOK, StagedTx, Row, StagingInv
  <2> QED
    BY SMTT(60), <1>p, <1>s, <1>t, <2>1, <2>2 DEF NoRowSkipped
<1>6. ASSUME NEW t \in stagedTx, AbortStaged(t) PROVE NoRowSkipped'
  BY <1>q, <1>6 DEF AbortStaged, subVars, wrkVars
<1>7. ASSUME NEW t \in gatewayTx, CommitGateway(t) \/ AbortGateway(t) PROVE NoRowSkipped'
  BY <1>q, <1>7 DEF CommitGateway, AbortGateway, subVars
<1>8. CASE UNCHANGED vars
  BY <1>q, <1>8 DEF vars, dbVars, subVars, wrkVars
<1> QED
  BY <1>1, <1>2, <1>3, <1>4, <1>5, <1>6, <1>7, <1>8 DEF Next, Database

-----------------------------------------------------------------------------
(* Wakeups, as long as nothing fails *)

\* The steps that are no failure and follow none.
Quiet ==
  \/ \E i \in Server :
       \/ \E d \in Identity : Start(i, d)
       \/ Query(i) \/ SendPage(i) \/ WakeOnNotifier(i) \/ WakeOnTimer(i)
       \/ \E r \in batch[i] : InsertGatewayEnvelope(i, r) \/ DeleteStaged(i, r)
  \/ \E c \in Call :
       \/ \E i \in Server, e \in PayerEnv : PublishEnvelope(c, i, e)
       \/ InsertStaged(c) \/ NotifyStagedPublish(c) \/ Respond(c)
  \/ \E t \in stagedTx : CommitStaged(t)
  \/ \E t \in gatewayTx : CommitGateway(t)

\* Until the first fault only those happen: a process stops after a fault, and an error
\* of a query, an insert or a delete is one.
LEMMA QuietStep ==
  ASSUME IInv, WakeupInv, [Next]_vars, faults' = 0
  PROVE  faults = 0 /\ [Quiet]_vars
<1>1. faults \in Nat
  BY SMTT(60) DEF IInv, TypeOK
<1>2. ~Fault
  BY SMTT(60), <1>1 DEF Fault
<1>3. CASE UNCHANGED vars
  BY <1>3 DEF vars
<1>4. ASSUME faults = 0 PROVE \A i \in Server : proc[i] # "stopping" /\ (Alive(i) => Running(i))
  BY <1>4 DEF WakeupInv, IInv, TypeOK, Alive, Running
<1>5. ASSUME NEW i \in Server, Lifecycle(i) PROVE faults = 0 /\ Quiet
  BY <1>2, <1>4, <1>5 DEF Lifecycle, Cancel, Crash, Exit, Start, Quiet
<1>6. ASSUME NEW i \in Server, Subscription(i) PROVE faults = 0 /\ Quiet
  BY <1>2, <1>4, <1>6 DEF Subscription, Query, QueryFails, QueryCancelled, SendPage,
     WakeOnNotifier, WakeOnTimer, CloseUpdates, Quiet
<1>7. ASSUME NEW i \in Server, Worker(i) PROVE faults = 0 /\ Quiet
  <2>1. ASSUME NEW r \in batch[i], InsertGatewayEnvelope(i, r) \/ DeleteStaged(i, r)
        PROVE  faults = 0 /\ Quiet
    BY <2>1 DEF InsertGatewayEnvelope, DeleteStaged, Quiet
  <2>2. ASSUME NEW r \in batch[i], DeleteStagedFails(i, r) PROVE FALSE
    BY <1>2, <2>2 DEF DeleteStagedFails
  <2>3. CASE InsertGatewayFails(i) \/ StopWorker(i)
    BY <1>2, <1>4, <2>3 DEF InsertGatewayFails, StopWorker
  <2> QED
    BY <1>7, <2>1, <2>2, <2>3 DEF Worker
<1>8. ASSUME NEW c \in Call, Handler(c) PROVE faults = 0 /\ Quiet
  BY ZenonT(60), <1>2, <1>8 DEF Handler, PublishEnvelope, InsertStaged,
     InsertStagedFails, NotifyStagedPublish, Respond, Quiet
<1>9. ASSUME Database PROVE faults = 0 /\ Quiet
  BY ZenonT(60), <1>2, <1>9 DEF Database, CommitStaged, AbortStaged, CommitGateway,
     AbortGateway, Quiet
<1> QED
  BY <1>3, <1>5, <1>6, <1>7, <1>8, <1>9 DEF Next

\* No process stops, and every insert that is under way has a handler.
LEMMA NobodyGivesUp ==
  ASSUME IInv, WakeupInv, [Next]_vars, faults' = 0
  PROVE  /\ \A i \in Server : (Running(i) => Running(i)') /\ proc'[i] # "stopping"
         /\ \A t \in stagedTx' : t.owner # None
<1>q. faults = 0 /\ [Quiet]_vars
  BY QuietStep
<1>p. /\ proc \in [Server -> {"down", "up", "stopping"}]
      /\ \A i \in Server : proc[i] # "stopping"
      /\ \A t \in stagedTx : t.owner # None
  BY <1>q DEF IInv, TypeOK, WakeupInv
<1>1. ASSUME NEW i \in Server, NEW d \in Identity, Start(i, d)
      PROVE  /\ \A j \in Server : proc'[j] = IF j = i THEN "up" ELSE proc[j]
             /\ stagedTx' = stagedTx
  BY <1>p, <1>1 DEF Start, dbVars
<1>2. ASSUME NEW i \in Server, NEW r \in batch[i], InsertGatewayEnvelope(i, r) \/ DeleteStaged(i, r)
      PROVE  UNCHANGED <<proc, stagedTx>>
  BY <1>2 DEF InsertGatewayEnvelope, DeleteStaged
<1>3. ASSUME NEW c \in Call, InsertStaged(c)
      PROVE  proc' = proc /\ \A t \in stagedTx' : t \in stagedTx \/ t.owner = c
  BY SMTT(60), <1>3 DEF InsertStaged
<1>4. ASSUME NEW t \in stagedTx, CommitStaged(t)
      PROVE  proc' = proc /\ stagedTx' \subseteq stagedTx
  BY <1>4 DEF CommitStaged
<1>5. \/ UNCHANGED <<proc, stagedTx>>
      \/ \E i \in Server, d \in Identity : Start(i, d)
      \/ \E c \in Call : InsertStaged(c)
      \/ \E t \in stagedTx : CommitStaged(t)
  BY ZenonT(60), <1>q, <1>2 DEF Quiet, vars, dbVars, Query, SendPage, WakeOnNotifier, WakeOnTimer,
     PublishEnvelope, NotifyStagedPublish, Respond, CommitGateway
<1>6. \A c \in Call : c # None
  BY ConstantsAssumption
<1> QED
  BY <1>p, <1>1, <1>3, <1>4, <1>5, <1>6 DEF Running

\* Who is going to see a row, or holds it, still does after the step.
LEMMA WakeupKept ==
  ASSUME IInv, WakeupInv, [Next]_vars, faults' = 0, NEW r \in staged, r \in staged',
         NEW j \in Server, Attends(j, r)
  PROVE  Attends(j, r)'
<1>q. faults = 0 /\ [Quiet]_vars
  BY QuietStep
<1>t. /\ page \in [Server -> SUBSET Row] /\ batch \in [Server -> SUBSET Row]
      /\ lastSeenID \in [Server -> Nat] /\ staged \subseteq Row /\ TypeOK
      /\ subPc \in [Server -> {"poll", "send", "select", "closed"}]
      /\ notifier \in [Server -> BOOLEAN]
      /\ \A q \in Row : q.id \in Nat
  BY DEF IInv, TypeOK, Row
<1>c. call \in [Call -> CallState]
  BY DEF IInv, TypeOK
<1>f. \A i \in Server : /\ page[i] # {} => subPc[i] = "send"
                        /\ batch[i] # {} => wrkPc[i] \in {"publish", "tx", "delete"}
  BY DEF IInv, InFlightInv
<1>0. ASSUME page'[j] = page[j], batch'[j] = batch[j], subPc'[j] = subPc[j],
             lastSeenID'[j] = lastSeenID[j],
             notifier[j] => notifier'[j],
             \A c \in Call : call[c].pc = "notify" /\ call[c].server = j =>
               notifier'[j] \/ (call'[c].pc = "notify" /\ call'[c].server = j)
      PROVE  Attends(j, r)'
  BY <1>0 DEF Attends, WillPoll
<1>1. ASSUME NEW i \in Server, Query(i)
      PROVE  Attends(j, r)'
  <2> DEFINE results == SelectStagedOriginatorEnvelopes(lastSeenID[i])
  <2>1. CASE j # i
    BY <1>0, <1>t, <1>1, <2>1 DEF Query, wrkVars
  <2>2. CASE j = i /\ r \in batch[i]
    BY <1>1, <2>2 DEF Query, wrkVars, Attends
  <2>3. CASE j = i /\ r \notin batch[i]
    <3>1. lastSeenID[i] < r.id /\ lastSeenID[i] \in Nat /\ page[i] = {}
      BY <1>f, <1>t, <1>1, <2>3 DEF Query, Attends
    <3>2. r \in results \/ (~(Cardinality(results) < NumRows) /\ results # {})
      BY <1>t, <3>1, FullPage
    <3>3. \A x \in results : r \notin results => x.id < r.id
      BY SMTT(60), <1>t, <3>1, PageFacts
    <3> HIDE DEF results
    <3>4. PICK x \in results : /\ lastSeenID' = [lastSeenID EXCEPT ![i] = x.id]
                               /\ page' = [page EXCEPT ![i] = results]
                               /\ subPc' = [subPc EXCEPT ![i] = "send"]
      BY <1>1, <3>2 DEF Query, results
    <3>5. lastSeenID'[i] = x.id /\ page'[i] = results /\ subPc'[i] = "send"
      BY <1>t, <3>4
    <3> QED
      BY <2>3, <3>2, <3>3, <3>5 DEF Attends, WillPoll
  <2> QED
    BY <2>1, <2>2, <2>3
<1>2. ASSUME NEW i \in Server, SendPage(i)
      PROVE  Attends(j, r)'
  <2>1. CASE j # i
    BY <1>0, <1>t, <1>2, <2>1 DEF SendPage
  <2>2. CASE j = i
    <3>1. /\ batch[i] = {} /\ batch'[i] = page[i] /\ UNCHANGED <<notifier, lastSeenID, call>>
          /\ ~(Cardinality(page[i]) < NumRows) => subPc'[i] = "poll"
          /\ subPc[i] = "send"
      BY <1>f, <1>t, <1>2 DEF SendPage
    <3> QED
      BY <2>2, <3>1 DEF Attends, WillPoll
  <2> QED
    BY <2>1, <2>2
<1>3. ASSUME NEW i \in Server, WakeOnNotifier(i) \/ WakeOnTimer(i)
      PROVE  Attends(j, r)'
  <2>1. CASE j # i
    BY <1>0, <1>t, <1>3, <2>1 DEF WakeOnNotifier, WakeOnTimer, wrkVars
  <2>2. CASE j = i
    <3>1. subPc'[i] = "poll" /\ UNCHANGED <<page, batch, lastSeenID>>
      BY <1>t, <1>3 DEF WakeOnNotifier, WakeOnTimer, wrkVars
    <3> QED
      BY <2>2, <3>1 DEF Attends, WillPoll
  <2> QED
    BY <2>1, <2>2
<1>4. ASSUME NEW i \in Server, NEW x \in batch[i], DeleteStaged(i, x)
      PROVE  Attends(j, r)'
  <2>1. /\ r # x /\ UNCHANGED <<notifier, subVars, call>>
        /\ batch' = [batch EXCEPT ![i] = batch[i] \ {x}]
    BY <1>4 DEF DeleteStaged, NextRow
  <2>2. r \in batch[j] => r \in batch'[j]
    BY <1>t, <2>1
  <2> QED
    BY <2>1, <2>2 DEF Attends, WillPoll, subVars
<1>5. ASSUME NEW c \in Call, NEW i \in Server, NEW e \in PayerEnv, PublishEnvelope(c, i, e)
      PROVE  Attends(j, r)'
  <2>1. \A x \in Call : call[x].pc = "notify" => call'[x] = call[x]
    BY <1>c, <1>5 DEF PublishEnvelope
  <2>2. UNCHANGED <<notifier, subVars, batch>>
    BY <1>5 DEF PublishEnvelope, wrkVars
  <2> QED
    BY <1>0, <2>1, <2>2 DEF subVars
<1>6. ASSUME NEW c \in Call, InsertStaged(c) \/ Respond(c)
      PROVE  Attends(j, r)'
  <2>1. \A x \in Call : call[x].pc = "notify" => call'[x] = call[x]
    BY <1>c, <1>6 DEF InsertStaged, Respond
  <2>2. UNCHANGED <<notifier, subVars, batch>>
    BY <1>6 DEF InsertStaged, Respond, wrkVars
  <2> QED
    BY <1>0, <2>1, <2>2 DEF subVars
<1>7. ASSUME NEW c \in Call, NotifyStagedPublish(c)
      PROVE  Attends(j, r)'
  <2>1. \A x \in Call : x # c => call'[x] = call[x]
    BY <1>c, <1>7 DEF NotifyStagedPublish
  <2>2. (notifier[j] \/ call[c].server = j) => notifier'[j]
    BY <1>t, <1>7 DEF NotifyStagedPublish
  <2>3. UNCHANGED <<subVars, batch>>
    BY <1>7 DEF NotifyStagedPublish, wrkVars
  <2> QED
    BY <1>0, <2>1, <2>2, <2>3 DEF subVars
<1>8. ASSUME NEW t \in stagedTx, CommitStaged(t)
      PROVE  Attends(j, r)'
  <2>1. /\ UNCHANGED <<notifier, subVars, batch>>
        /\ call' = IF t.owner = None THEN call
                   ELSE [call EXCEPT ![t.owner] = [@ EXCEPT !.pc = "notify", !.row = t.row]]
    BY <1>8 DEF CommitStaged, wrkVars
  <2>2. t.owner # None => call[t.owner].pc = "tx"
    BY DEF IInv, HandlerInv
  <2>3. \A x \in Call : call[x].pc = "notify" => call'[x] = call[x]
    BY <1>c, <2>1, <2>2
  <2> QED
    BY <1>0, <2>1, <2>3 DEF subVars
<1>9. ASSUME UNCHANGED <<notifier, subVars, batch, call>>
      PROVE  Attends(j, r)'
  BY <1>0, <1>9 DEF subVars
<1>10. ASSUME NEW i \in Server, \E d \in Identity : Start(i, d)
       PROVE  UNCHANGED <<notifier, subVars, batch, call>>
  BY <1>10 DEF Start, wrkVars
<1>11. ASSUME NEW i \in Server, NEW x \in batch[i], InsertGatewayEnvelope(i, x)
       PROVE  UNCHANGED <<notifier, subVars, batch, call>>
  BY <1>11 DEF InsertGatewayEnvelope
<1>12. ASSUME NEW t \in gatewayTx, CommitGateway(t)
       PROVE  UNCHANGED <<notifier, subVars, batch, call>>
  BY <1>12 DEF CommitGateway
<1>13. CASE UNCHANGED vars
  BY <1>9, <1>13 DEF vars, wrkVars
<1> QED
  BY <1>q, <1>1, <1>2, <1>3, <1>4, <1>5, <1>6, <1>7, <1>8, <1>9, <1>10, <1>11, <1>12, <1>13
     DEF Quiet

-----------------------------------------------------------------------------
(* Nobody waits in vain *)

\* A subscription that sends has a page, a worker that publishes has a batch, and both
\* end only when the context is cancelled (subscription.go:62-66, publishWorker.go:85-86).
LEMMA GoroutinesBusy ==
  ASSUME IInv, WaitInv, [Next]_vars, NEW j \in Server
  PROVE  /\ wrkPc'[j] \in {"publish", "tx", "delete"} => batch'[j] # {}
         /\ subPc'[j] = "send" => page'[j] # {}
         /\ wrkPc'[j] = "stopped" \/ subPc'[j] = "closed" => proc'[j] = "stopping"
<1> DEFINE Good(w, b, s, p, pr) ==
      /\ w \in {"publish", "tx", "delete"} => b # {}
      /\ s = "send" => p # {}
      /\ w = "stopped" \/ s = "closed" => pr = "stopping"
<1> SUFFICES Good(wrkPc'[j], batch'[j], subPc'[j], page'[j], proc'[j])
  OBVIOUS
<1>t. /\ page \in [Server -> SUBSET Row] /\ batch \in [Server -> SUBSET Row]
      /\ subPc \in [Server -> {"poll", "send", "select", "closed"}]
      /\ wrkPc \in [Server -> {"select", "publish", "tx", "delete", "stopped"}]
      /\ proc \in [Server -> {"down", "up", "stopping"}]
  BY DEF IInv, TypeOK
<1>g. Good(wrkPc[j], batch[j], subPc[j], page[j], proc[j])
  BY DEF WaitInv
<1>u. ASSUME UNCHANGED <<proc, subPc, page, wrkPc, batch>>
      PROVE  Good(wrkPc'[j], batch'[j], subPc'[j], page'[j], proc'[j])
  BY <1>u, <1>g
<1>1. ASSUME NEW i \in Server, Lifecycle(i)
      PROVE  Good(wrkPc'[j], batch'[j], subPc'[j], page'[j], proc'[j])
  <2>1. CASE Die(i)
    BY <1>t, <1>g, <2>1 DEF Die
  <2>2. CASE Cancel(i)
    BY <1>t, <1>g, <2>2 DEF Cancel, subVars, wrkVars
  <2>3. ASSUME NEW d \in Identity, Start(i, d)
        PROVE  Good(wrkPc'[j], batch'[j], subPc'[j], page'[j], proc'[j])
    BY <1>t, <1>g, <2>3 DEF Start, Alive, subVars, wrkVars
  <2> QED
    BY <1>1, <2>1, <2>2, <2>3 DEF Lifecycle, Crash, Exit
<1>2. ASSUME NEW c \in Call, Handler(c) PROVE UNCHANGED <<proc, subPc, page, wrkPc, batch>>
  BY ZenonT(60), <1>2 DEF Handler, PublishEnvelope, InsertStaged, InsertStagedFails,
                          NotifyStagedPublish, Respond, subVars, wrkVars
<1>3. ASSUME NEW i \in Server, Subscription(i)
      PROVE  Good(wrkPc'[j], batch'[j], subPc'[j], page'[j], proc'[j])
  <2>1. CASE Query(i)
    <3>1. \/ subPc' = [subPc EXCEPT ![i] = "select"] /\ page' = page
          \/ page' = [page EXCEPT ![i] = page'[i]] /\ page'[i] # {} /\ subPc' = [subPc EXCEPT ![i] = "send"]
      BY SMTT(60), <1>t, <2>1 DEF Query
    <3>2. UNCHANGED <<proc, wrkPc, batch>>
      BY <2>1 DEF Query, wrkVars
    <3> QED
      BY <1>t, <1>g, <3>1, <3>2
  <2>2. CASE SendPage(i)
    <3>1. page[i] # {}
      BY <2>2 DEF SendPage, WaitInv
    <3> QED
      BY <1>t, <1>g, <2>2, <3>1 DEF SendPage
  <2>3. CASE QueryFails(i) \/ QueryCancelled(i) \/ WakeOnNotifier(i) \/ WakeOnTimer(i)
    BY <1>t, <1>g, <2>3 DEF QueryFails, QueryCancelled, WakeOnNotifier, WakeOnTimer, wrkVars
  <2>4. CASE CloseUpdates(i)
    BY <1>t, <1>g, <2>4 DEF CloseUpdates, wrkVars
  <2> QED
    BY <1>3, <2>1, <2>2, <2>3, <2>4 DEF Subscription
<1>4. ASSUME NEW i \in Server, Worker(i)
      PROVE  Good(wrkPc'[j], batch'[j], subPc'[j], page'[j], proc'[j])
  <2>1. ASSUME NEW r \in batch[i], InsertGatewayEnvelope(i, r)
        PROVE  Good(wrkPc'[j], batch'[j], subPc'[j], page'[j], proc'[j])
    BY <1>t, <1>g, <2>1 DEF InsertGatewayEnvelope, subVars
  <2>2. ASSUME NEW r \in batch[i], DeleteStaged(i, r) \/ DeleteStagedFails(i, r)
        PROVE  Good(wrkPc'[j], batch'[j], subPc'[j], page'[j], proc'[j])
    <3>1. /\ batch' = [batch EXCEPT ![i] = batch[i] \ {r}]
          /\ wrkPc' = [wrkPc EXCEPT ![i] = IF batch[i] = {r} THEN "select" ELSE "publish"]
          /\ UNCHANGED <<proc, subPc, page>>
      BY <2>2 DEF DeleteStaged, DeleteStagedFails, NextRow, subVars
    <3>2. batch[i] # {r} => batch[i] \ {r} # {}
      BY <2>2
    <3> QED
      BY <1>t, <1>g, <3>1, <3>2
  <2>3. CASE InsertGatewayFails(i)
    BY <1>t, <1>g, <2>3 DEF InsertGatewayFails, subVars
  <2>4. CASE StopWorker(i)
    BY <1>t, <1>g, <2>4 DEF StopWorker, subVars
  <2> QED
    BY <1>4, <2>1, <2>2, <2>3, <2>4 DEF Worker
<1>5. ASSUME NEW t \in stagedTx, CommitStaged(t) \/ AbortStaged(t)
      PROVE  UNCHANGED <<proc, subPc, page, wrkPc, batch>>
  BY <1>5 DEF CommitStaged, AbortStaged, subVars, wrkVars
<1>6. ASSUME NEW t \in gatewayTx, CommitGateway(t) \/ AbortGateway(t)
      PROVE  Good(wrkPc'[j], batch'[j], subPc'[j], page'[j], proc'[j])
  <2>1. t.owner = None \/ wrkPc[t.owner] = "tx"
    BY DEF IInv, GatewayInv
  <2> QED
    BY <1>t, <1>g, <1>6, <2>1 DEF CommitGateway, AbortGateway, subVars
<1>7. CASE UNCHANGED vars
  BY <1>7, <1>u DEF vars, subVars, wrkVars
<1> QED
  BY <1>1, <1>2, <1>3, <1>4, <1>5, <1>6, <1>7, <1>u DEF Next, Database

\* A process that is up and holds a row whose ID fits a SID has a step to take: its
\* worker comes to the row only through rows below it, whose IDs fit as well.
LEMMA HolderCanGo ==
  ASSUME IInv, WaitInv, NEW i \in Server, Running(i),
         NEW r \in page[i] \cup batch[i], IsValidSequenceID(r.id)
  PROVE  CanGo(i)
<1>t. /\ page[i] \subseteq Row /\ batch[i] \subseteq Row
      /\ wrkPc[i] \in {"select", "publish", "tx", "delete", "stopped"}
      /\ \A q \in Row : q.id \in Nat \ {0}
      /\ MaxLocalID \in Nat
  BY ConstantsAssumption DEF IInv, TypeOK, Row
<1>f. /\ page[i] # {} => subPc[i] = "send"
      /\ batch[i] # {} <=> wrkPc[i] \in {"publish", "tx", "delete"}
      /\ wrkPc[i] # "stopped"
      /\ \A b \in batch[i], q \in page[i] : b.id < q.id
  BY DEF IInv, InFlightInv, WaitInv, Running
<1>1. CASE batch[i] = {}
  BY <1>1, <1>f, <1>t DEF CanGo
<1>2. CASE batch[i] # {}
  <2> DEFINE S == {q.id : q \in batch[i]}
  <2>1. S \in SUBSET Nat /\ S # {}
    BY <1>2, <1>t
  <2>2. PICK m \in S : \A k \in S : m <= k
    BY ZenonT(60), <2>1, SmallestID
  <2>3. PICK b \in batch[i] : b.id = m
    BY <2>2
  <2>4. First(b, batch[i])
    BY <2>2, <2>3 DEF First
  <2>5. b.id <= r.id
    <3>1. CASE r \in batch[i]
      BY <2>4, <3>1 DEF First
    <3>2. CASE r \in page[i]
      <4>1. b.id < r.id
        BY <1>f, <3>2
      <4> QED
        BY SMTT(60), <1>t, <3>2, <4>1
    <3> QED
      BY <3>1, <3>2
  <2>6. IsValidSequenceID(b.id)
    BY SMTT(60), <1>t, <2>5 DEF IsValidSequenceID
  <2>7. wrkPc[i] = "tx" => \E t \in gatewayTx : t.owner = i
    BY DEF WaitInv
  <2> QED
    BY <1>2, <1>f, <2>4, <2>6, <2>7 DEF CanGo
<1> QED
  BY <1>1, <1>2

=============================================================================
