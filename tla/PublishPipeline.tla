---------------------------- MODULE PublishPipeline ----------------------------
(***************************************************************************)
(* The publish path of an xmtpd replication node: PublishEnvelope calls    *)
(* (pkg/api/service.go) stage an envelope in Postgres, a DBSubscription    *)
(* (pkg/db/subscription.go) polls the staged rows page by page, and a      *)
(* PublishWorker (pkg/api/publishWorker.go) signs each row, inserts it     *)
(* into gateway_envelopes and deletes it from the staging table.           *)
(*                                                                         *)
(* Several server processes may share the database (the worker's comments  *)
(* speak of "another worker"), processes crash, stop and restart, and any  *)
(* database call may fail before or after it took effect.                  *)
(***************************************************************************)
EXTENDS Integers, FiniteSets

CONSTANTS
  Server,       \* processes that share the database
  Call,         \* PublishEnvelope calls; each is made once
  Identity,     \* [node, key]: the identities a process may be configured with
  PayerEnv,     \* payer envelopes that clients send
  Malformed,    \* client bytes that do not unmarshal
  None,         \* nil, NULL, "no owner"
  NumRows,      \* page size of the subscription (100 in the code)
  MaxLocalID,   \* largest sequence ID that fits a SID (2^48 - 1 in the code)
  MaxStaged,    \* bound of the model: staged IDs ever allocated
  MaxFaults     \* bound of the model: failures, crashes and cancellations

ASSUME ConstantsAssumption ==
  /\ NumRows \in Nat \ {0}
  /\ {MaxLocalID, MaxStaged, MaxFaults} \subseteq Nat
  /\ None \notin Server \cup Call \cup Identity \cup PayerEnv
  /\ \A d, e \in Identity : d.node = e.node /\ d.key = e.key => d = e

VARIABLES
  nodeInfo,                         \* the row of node_info, or None
  staged, stagedSeq, stagedTx,      \* staged_originator_envelopes, its ID
                                    \* sequence, its open transactions
  gateway, gatewaySeq, gatewayTx,   \* the same for gateway_envelopes
  proc, ident,                      \* process status and registrant identity
  notifier,                         \* the notifier channel holds a token
  lastSeenID, subPc, page,          \* subscription goroutine
  wrkPc, batch,                     \* publish worker goroutine
  call,                             \* PublishEnvelope handlers
  faults                            \* faults so far

dbVars  == <<staged, stagedSeq, stagedTx, gateway, gatewaySeq, gatewayTx>>
subVars == <<lastSeenID, subPc, page>>
wrkVars == <<wrkPc, batch>>
vars    == <<nodeInfo, dbVars, proc, ident, notifier, subVars, wrkVars, call, faults>>

Row           == [id : Nat \ {0}, env : PayerEnv]
OriginatorEnv == [signer : Identity, row : Row]
GatewayRow    == [id : Nat \ {0}, node : {d.node : d \in Identity},
                  seq : Nat \ {0}, env : OriginatorEnv]

\* A database transaction outlives the goroutine that waits for it: its owner
\* becomes None when the caller gives up or its process dies.
StagedTx  == [row : Row, owner : Call \cup {None}]
GatewayTx == [row : GatewayRow, conflict : BOOLEAN, owner : Server \cup {None}]

Disown(T, O) == {IF t.owner \in O THEN [t EXCEPT !.owner = None] ELSE t : t \in T}

Running(i) == proc[i] = "up"
Alive(i)   == proc[i] # "down"

\* Rows are handled in ascending ID order, so a page is the set of its rows.
First(r, S) == r \in S /\ \A q \in S : r.id <= q.id
Last(r, S)  == r \in S /\ \A q \in S : q.id <= r.id

Fault == /\ faults < MaxFaults
         /\ faults' = faults + 1

NewCall == [pc |-> "idle", server |-> None, env |-> None, row |-> None, reply |-> None]

Init ==
  /\ nodeInfo = None
  /\ staged = {} /\ stagedSeq = 0 /\ stagedTx = {}
  /\ gateway = {} /\ gatewaySeq = 0 /\ gatewayTx = {}
  /\ proc = [i \in Server |-> "down"]
  /\ ident = [i \in Server |-> None]
  /\ notifier = [i \in Server |-> FALSE]
  /\ lastSeenID = [i \in Server |-> 0]
  /\ subPc = [i \in Server |-> "poll"]
  /\ page = [i \in Server |-> {}]
  /\ wrkPc = [i \in Server |-> "select"]
  /\ batch = [i \in Server |-> {}]
  /\ call = [c \in Call |-> NewCall]
  /\ faults = 0

-----------------------------------------------------------------------------
(* Process lifecycle *)

\* Mutant: the registry record is not compared with the stored row.
AnyDatabaseMatches(d) == TRUE

\* The row of node_info is inserted once and must match ever after.
ensureDatabaseMatches(d) ==
  nodeInfo # None => nodeInfo.node = d.node /\ nodeInfo.key = d.key

\* NewRegistrant succeeds, then the subscription and the worker are started; on
\* a mismatch the process exits and nothing changes.  The goroutines' state was
\* reset when the previous process died.
Start(i, d) ==
  /\ ~Alive(i)
  /\ ensureDatabaseMatches(d)
  /\ nodeInfo' = IF nodeInfo = None THEN d ELSE nodeInfo
  /\ proc' = [proc EXCEPT ![i] = "up"]
  /\ ident' = [ident EXCEPT ![i] = d]
  /\ UNCHANGED <<dbVars, notifier, subVars, wrkVars, call, faults>>

\* The context given to the API server is cancelled.
Cancel(i) ==
  /\ Running(i)
  /\ Fault
  /\ proc' = [proc EXCEPT ![i] = "stopping"]
  /\ UNCHANGED <<nodeInfo, dbVars, ident, notifier, subVars, wrkVars, call>>

\* The process is gone with everything in its memory.  Calls it was serving end
\* without an answer; transactions it had open are left to the database.
Die(i) ==
  /\ proc' = [proc EXCEPT ![i] = "down"]
  /\ ident' = [ident EXCEPT ![i] = None]
  /\ notifier' = [notifier EXCEPT ![i] = FALSE]
  /\ lastSeenID' = [lastSeenID EXCEPT ![i] = 0]
  /\ subPc' = [subPc EXCEPT ![i] = "poll"]
  /\ page' = [page EXCEPT ![i] = {}]
  /\ wrkPc' = [wrkPc EXCEPT ![i] = "select"]
  /\ batch' = [batch EXCEPT ![i] = {}]
  /\ call' = [c \in Call |->
                IF call[c].server = i /\ call[c].pc \notin {"ok", "error"}
                THEN [call[c] EXCEPT !.pc = "error"] ELSE call[c]]
  /\ stagedTx' = Disown(stagedTx, {c \in Call : call[c].server = i})
  /\ gatewayTx' = Disown(gatewayTx, {i})
  /\ UNCHANGED <<nodeInfo, staged, stagedSeq, gateway, gatewaySeq>>

Crash(i) == Running(i) /\ Fault /\ Die(i)

\* main returns after the cancellation, whatever its goroutines are doing.
Exit(i) == proc[i] = "stopping" /\ Die(i) /\ UNCHANGED faults

-----------------------------------------------------------------------------
(* PublishEnvelope *)

\* e.client is None, Malformed or [target, topic]; an envelope without AAD reads
\* as target 0 and no topic.
validatePayerInfo(e) ==
  /\ e.client # None /\ e.sig # None
  /\ e.client # Malformed

validateClientInfo(d, client) ==
  /\ client.target = d.node
  /\ client.topic # None

Accepts(d, e) == validatePayerInfo(e) /\ validateClientInfo(d, e.client)

\* SignStagedEnvelope is a function of the key and the row (the time it signs is
\* a column of the row); it fails only on an ID that does not fit a SID.
IsValidSequenceID(id)    == 0 < id /\ id <= MaxLocalID
SignStagedEnvelope(d, r) == [signer |-> d, row |-> r]

nextval(seq) == seq + 1

\* Mutant: insert_staged_originator_envelope without its advisory lock.
StagedLockIgnored == TRUE

\* The advisory lock is held until the end of the transaction.
StagedLockFree == stagedTx = {}

PublishEnvelope(c, i, e) ==
  /\ call[c].pc = "idle"
  /\ Alive(i)
  /\ call' = [call EXCEPT ![c] =
                IF Accepts(ident[i], e)
                THEN [NewCall EXCEPT !.pc = "insert", !.server = i, !.env = e]
                ELSE [NewCall EXCEPT !.pc = "error"]]
  /\ UNCHANGED <<nodeInfo, dbVars, proc, ident, notifier, subVars, wrkVars, faults>>

\* The lock is taken and the row gets the next ID; nobody sees it yet.
InsertStaged(c) ==
  /\ call[c].pc = "insert"
  /\ StagedLockFree
  /\ stagedSeq < MaxStaged
  /\ stagedSeq' = nextval(stagedSeq)
  /\ stagedTx' = stagedTx \cup
       {[row |-> [id |-> nextval(stagedSeq), env |-> call[c].env], owner |-> c]}
  /\ call' = [call EXCEPT ![c].pc = "tx"]
  /\ UNCHANGED <<nodeInfo, staged, gateway, gatewaySeq, gatewayTx, proc, ident,
                 notifier, subVars, wrkVars, faults>>

CommitStaged(t) ==
  /\ stagedTx' = stagedTx \ {t}
  /\ staged' = staged \cup {t.row}
  /\ call' = IF t.owner = None THEN call
             ELSE [call EXCEPT ![t.owner] = [@ EXCEPT !.pc = "notify", !.row = t.row]]
  /\ UNCHANGED <<nodeInfo, stagedSeq, gateway, gatewaySeq, gatewayTx, proc, ident,
                 notifier, subVars, wrkVars, faults>>

\* The ID stays consumed: sequences are not transactional.
AbortStaged(t) ==
  /\ Fault
  /\ stagedTx' = stagedTx \ {t}
  /\ call' = IF t.owner = None THEN call ELSE [call EXCEPT ![t.owner].pc = "error"]
  /\ UNCHANGED <<nodeInfo, staged, stagedSeq, gateway, gatewaySeq, gatewayTx, proc,
                 ident, notifier, subVars, wrkVars>>

\* The insert returns an error to the handler (request cancelled, connection
\* lost); a transaction that is open may still commit.
InsertStagedFails(c) ==
  /\ call[c].pc \in {"insert", "tx"}
  /\ Fault
  /\ call' = [call EXCEPT ![c].pc = "error"]
  /\ stagedTx' = Disown(stagedTx, {c})
  /\ UNCHANGED <<nodeInfo, staged, stagedSeq, gateway, gatewaySeq, gatewayTx, proc,
                 ident, notifier, subVars, wrkVars>>

\* Mutant: the handler forgets to notify the worker.
NotifySkipped(c) ==
  /\ call[c].pc = "notify"
  /\ call' = [call EXCEPT ![c].pc = "sign"]
  /\ UNCHANGED <<nodeInfo, dbVars, proc, ident, notifier, subVars, wrkVars, faults>>

\* A token is put in the channel of capacity 1, unless one is there already.
NotifyStagedPublish(c) ==
  /\ call[c].pc = "notify"
  /\ notifier' = [notifier EXCEPT ![call[c].server] = TRUE]
  /\ call' = [call EXCEPT ![c].pc = "sign"]
  /\ UNCHANGED <<nodeInfo, dbVars, proc, ident, subVars, wrkVars, faults>>

Respond(c) ==
  LET r == call[c].row
      d == ident[call[c].server] IN
  /\ call[c].pc = "sign"
  /\ call' = [call EXCEPT ![c] =
                IF IsValidSequenceID(r.id)
                THEN [@ EXCEPT !.pc = "ok", !.reply = SignStagedEnvelope(d, r)]
                ELSE [@ EXCEPT !.pc = "error"]]
  /\ UNCHANGED <<nodeInfo, dbVars, proc, ident, notifier, subVars, wrkVars, faults>>

-----------------------------------------------------------------------------
(* DBSubscription *)

\* The rows above lastSeenID, ORDER BY id ASC LIMIT NumRows.
SelectStagedOriginatorEnvelopes(lastSeen) ==
  LET above == {r \in staged : r.id > lastSeen}
  IN  {r \in above : Cardinality({q \in above : q.id < r.id}) < NumRows}

\* One turn of poll's loop.  lastSeenID moves before the page is handed over.
Query(i) ==
  /\ Running(i) /\ subPc[i] = "poll"
  /\ LET results == SelectStagedOriginatorEnvelopes(lastSeenID[i]) IN
       \/ /\ results = {}
          /\ subPc' = [subPc EXCEPT ![i] = "select"]
          /\ UNCHANGED <<lastSeenID, page>>
       \/ \E r \in results :
            /\ Last(r, results)
            /\ lastSeenID' = [lastSeenID EXCEPT ![i] = r.id]
            /\ page' = [page EXCEPT ![i] = results]
            /\ subPc' = [subPc EXCEPT ![i] = "send"]
  /\ UNCHANGED <<nodeInfo, dbVars, proc, ident, notifier, wrkVars, call, faults>>

\* lastSeenID is kept; the next poll asks again.
QueryFails(i) ==
  /\ Running(i) /\ subPc[i] = "poll"
  /\ Fault
  /\ subPc' = [subPc EXCEPT ![i] = "select"]
  /\ UNCHANGED <<nodeInfo, dbVars, proc, ident, notifier, lastSeenID, page, wrkVars, call>>

\* With a cancelled context every query fails.
QueryCancelled(i) ==
  /\ proc[i] = "stopping" /\ subPc[i] = "poll"
  /\ subPc' = [subPc EXCEPT ![i] = "select"]
  /\ UNCHANGED <<nodeInfo, dbVars, proc, ident, notifier, lastSeenID, page, wrkVars,
                 call, faults>>

\* The unbuffered channel: the subscription sends when the worker receives.  A
\* full page makes poll ask for the next one.
SendPage(i) ==
  /\ Alive(i) /\ subPc[i] = "send" /\ wrkPc[i] = "select"
  /\ batch' = [batch EXCEPT ![i] = page[i]]
  /\ wrkPc' = [wrkPc EXCEPT ![i] = "publish"]
  /\ page' = [page EXCEPT ![i] = {}]
  /\ subPc' = [subPc EXCEPT ![i] = IF Cardinality(page[i]) < NumRows THEN "select" ELSE "poll"]
  /\ UNCHANGED <<nodeInfo, dbVars, proc, ident, notifier, lastSeenID, call, faults>>

WakeOnNotifier(i) ==
  /\ Alive(i) /\ subPc[i] = "select" /\ notifier[i]
  /\ notifier' = [notifier EXCEPT ![i] = FALSE]
  /\ subPc' = [subPc EXCEPT ![i] = "poll"]
  /\ UNCHANGED <<nodeInfo, dbVars, proc, ident, lastSeenID, page, wrkVars, call, faults>>

WakeOnTimer(i) ==
  /\ Alive(i) /\ subPc[i] = "select"
  /\ subPc' = [subPc EXCEPT ![i] = "poll"]
  /\ UNCHANGED <<nodeInfo, dbVars, proc, ident, notifier, lastSeenID, page, wrkVars,
                 call, faults>>

\* ctx.Done is seen only in the select; the updates channel is closed.
CloseUpdates(i) ==
  /\ proc[i] = "stopping" /\ subPc[i] = "select"
  /\ subPc' = [subPc EXCEPT ![i] = "closed"]
  /\ UNCHANGED <<nodeInfo, dbVars, proc, ident, notifier, lastSeenID, page, wrkVars,
                 call, faults>>

-----------------------------------------------------------------------------
(* PublishWorker: publishStagedEnvelope for the first row of its batch *)

\* Mutant: insert_gateway_envelope without its advisory lock.
GatewayLockIgnored == TRUE

GatewayLockFree == gatewayTx = {}

\* Mutant: no unique index on (originator_node_id, originator_sequence_id).
NeverConflicts(node, seq) == FALSE

Conflicts(node, seq) == \E g \in gateway : g.node = node /\ g.seq = seq

\* The row is signed, the lock taken and the next gateway ID consumed, even when
\* ON CONFLICT DO NOTHING inserts no row.  A row whose ID does not fit a SID, or
\* any row once the context is cancelled, is retried for ever.
InsertGatewayEnvelope(i, r) ==
  /\ Running(i) /\ wrkPc[i] = "publish" /\ First(r, batch[i])
  /\ IsValidSequenceID(r.id)
  /\ GatewayLockFree
  /\ gatewaySeq' = nextval(gatewaySeq)
  /\ gatewayTx' = gatewayTx \cup
       {[row |-> [id |-> nextval(gatewaySeq), node |-> ident[i].node, seq |-> r.id,
                  env |-> SignStagedEnvelope(ident[i], r)],
         conflict |-> Conflicts(ident[i].node, r.id), owner |-> i]}
  /\ wrkPc' = [wrkPc EXCEPT ![i] = "tx"]
  /\ UNCHANGED <<nodeInfo, staged, stagedSeq, stagedTx, gateway, proc, ident,
                 notifier, subVars, batch, call, faults>>

CommitGateway(t) ==
  /\ gatewayTx' = gatewayTx \ {t}
  /\ gateway' = IF t.conflict THEN gateway ELSE gateway \cup {t.row}
  /\ wrkPc' = IF t.owner = None THEN wrkPc ELSE [wrkPc EXCEPT ![t.owner] = "delete"]
  /\ UNCHANGED <<nodeInfo, staged, stagedSeq, stagedTx, gatewaySeq, proc, ident,
                 notifier, subVars, batch, call, faults>>

\* Mutant: a failed insert is taken for an inserted row.
AbortGatewayIgnored(t) ==
  /\ Fault
  /\ gatewayTx' = gatewayTx \ {t}
  /\ wrkPc' = IF t.owner = None THEN wrkPc ELSE [wrkPc EXCEPT ![t.owner] = "delete"]
  /\ UNCHANGED <<nodeInfo, staged, stagedSeq, stagedTx, gateway, gatewaySeq, proc,
                 ident, notifier, subVars, batch, call>>

AbortGateway(t) ==
  /\ Fault
  /\ gatewayTx' = gatewayTx \ {t}
  /\ wrkPc' = IF t.owner = None THEN wrkPc ELSE [wrkPc EXCEPT ![t.owner] = "publish"]
  /\ UNCHANGED <<nodeInfo, staged, stagedSeq, stagedTx, gateway, gatewaySeq, proc,
                 ident, notifier, subVars, batch, call>>

\* Mutant: an insert that fails ends the goroutine of the worker.
InsertGatewayGivesUp(i) ==
  /\ Alive(i) /\ wrkPc[i] = "tx"
  /\ IF Running(i) THEN Fault ELSE UNCHANGED faults
  /\ wrkPc' = [wrkPc EXCEPT ![i] = "stopped"]
  /\ gatewayTx' = Disown(gatewayTx, {i})
  /\ UNCHANGED <<nodeInfo, staged, stagedSeq, stagedTx, gateway, gatewaySeq, proc,
                 ident, notifier, subVars, batch, call>>

\* The insert returns an error to the worker, which retries; the transaction may
\* still commit.  A cancelled context is one such error.
InsertGatewayFails(i) ==
  /\ Alive(i) /\ wrkPc[i] = "tx"
  /\ IF Running(i) THEN Fault ELSE UNCHANGED faults
  /\ wrkPc' = [wrkPc EXCEPT ![i] = "publish"]
  /\ gatewayTx' = Disown(gatewayTx, {i})
  /\ UNCHANGED <<nodeInfo, staged, stagedSeq, stagedTx, gateway, gatewaySeq, proc,
                 ident, notifier, subVars, batch, call>>

\* The worker goes on to the next row of the batch.
NextRow(i, r) ==
  /\ batch' = [batch EXCEPT ![i] = @ \ {r}]
  /\ wrkPc' = [wrkPc EXCEPT ![i] = IF batch[i] = {r} THEN "select" ELSE "publish"]

DeleteStaged(i, r) ==
  /\ Alive(i) /\ wrkPc[i] = "delete" /\ First(r, batch[i])
  /\ staged' = {q \in staged : q.id # r.id}
  /\ NextRow(i, r)
  /\ UNCHANGED <<nodeInfo, stagedSeq, stagedTx, gateway, gatewaySeq, gatewayTx, proc,
                 ident, notifier, subVars, call, faults>>

\* A failed delete leaves the row staged and the worker goes on.
DeleteStagedFails(i, r) ==
  /\ Alive(i) /\ wrkPc[i] = "delete" /\ First(r, batch[i])
  /\ Fault
  /\ NextRow(i, r)
  /\ UNCHANGED <<nodeInfo, dbVars, proc, ident, notifier, subVars, call>>

StopWorker(i) ==
  /\ proc[i] = "stopping" /\ wrkPc[i] = "select"
  /\ wrkPc' = [wrkPc EXCEPT ![i] = "stopped"]
  /\ UNCHANGED <<nodeInfo, dbVars, proc, ident, notifier, subVars, batch, call, faults>>

-----------------------------------------------------------------------------
Lifecycle(i)    == (\E d \in Identity : Start(i, d)) \/ Cancel(i) \/ Crash(i) \/ Exit(i)

Handler(c)      == \/ \E i \in Server, e \in PayerEnv : PublishEnvelope(c, i, e)
                   \/ InsertStaged(c) \/ InsertStagedFails(c)
                   \/ NotifyStagedPublish(c) \/ Respond(c)

Subscription(i) == \/ Query(i) \/ QueryFails(i) \/ QueryCancelled(i) \/ SendPage(i)
                   \/ WakeOnNotifier(i) \/ WakeOnTimer(i) \/ CloseUpdates(i)

Worker(i)       == \/ \E r \in batch[i] : \/ InsertGatewayEnvelope(i, r)
                                         \/ DeleteStaged(i, r) \/ DeleteStagedFails(i, r)
                   \/ InsertGatewayFails(i) \/ StopWorker(i)

Database        == \/ \E t \in stagedTx : CommitStaged(t) \/ AbortStaged(t)
                   \/ \E t \in gatewayTx : CommitGateway(t) \/ AbortGateway(t)

Next == \/ \E i \in Server : Lifecycle(i) \/ Subscription(i) \/ Worker(i)
        \/ \E c \in Call : Handler(c)
        \/ Database

Spec == Init /\ [][Next]_vars

\* Goroutines run when they can and the database finishes the transactions it was
\* given.  A select picks at random among its ready cases, so it does not pass over
\* ctx.Done for ever (strong fairness).  Nothing makes a client call, a process
\* start, stop or crash, or a fault happen.
FairWithoutTimer ==
  /\ \A i \in Server :
       /\ WF_vars(Query(i)) /\ WF_vars(QueryCancelled(i)) /\ WF_vars(SendPage(i))
       /\ WF_vars(WakeOnNotifier(i))
       /\ WF_vars(\E r \in batch[i] : InsertGatewayEnvelope(i, r))
       /\ WF_vars(\E r \in batch[i] : DeleteStaged(i, r))
       /\ SF_vars(CloseUpdates(i)) /\ SF_vars(StopWorker(i))
  /\ \A c \in Call :
       WF_vars(InsertStaged(c)) /\ WF_vars(NotifyStagedPublish(c)) /\ WF_vars(Respond(c))
  /\ WF_vars(\E t \in stagedTx : CommitStaged(t))
  /\ WF_vars(\E t \in gatewayTx : CommitGateway(t))

\* The one-second timer of the subscription keeps firing.
TimerFires == \A i \in Server : WF_vars(WakeOnTimer(i))

NoTimerSpec == Spec /\ FairWithoutTimer
FairSpec    == NoTimerSpec /\ TimerFires

-----------------------------------------------------------------------------
(* Properties *)

CallState == [pc : {"idle", "insert", "tx", "notify", "sign", "ok", "error"},
              server : Server \cup {None}, env : PayerEnv \cup {None},
              row : Row \cup {None}, reply : OriginatorEnv \cup {None}]

\* Type invariant of the publish path: tables, open transactions, goroutine and
\* handler states.
TypeOK ==
  /\ nodeInfo \in Identity \cup {None}
  /\ staged \subseteq Row /\ IsFiniteSet(staged)
  /\ stagedSeq \in 0 .. MaxStaged /\ stagedTx \subseteq StagedTx
  /\ gateway \subseteq GatewayRow
  /\ gatewaySeq \in Nat /\ gatewayTx \subseteq GatewayTx
  /\ proc \in [Server -> {"down", "up", "stopping"}]
  /\ ident \in [Server -> Identity \cup {None}]
  /\ notifier \in [Server -> BOOLEAN]
  /\ lastSeenID \in [Server -> Nat]
  /\ subPc \in [Server -> {"poll", "send", "select", "closed"}]
  /\ page \in [Server -> SUBSET Row]
  /\ wrkPc \in [Server -> {"select", "publish", "tx", "delete", "stopped"}]
  /\ batch \in [Server -> SUBSET Row]
  /\ call \in [Call -> CallState]
  /\ faults \in 0 .. MaxFaults

\* The staged row with this ID has reached gateway_envelopes.
Published(id) == \E g \in gateway : g.seq = id

\* Envelopes are "inserted in-order into the gateway_envelopes table"
\* (00001_init-schema.up.sql:44-45), exactly once each: the order of gateway IDs
\* is the order of originator sequence IDs, however many workers share the
\* database and whatever crashes, fails and is retried.
InOrder == \A g, h \in gateway : g.id < h.id => g.seq < h.seq

\* No staged row is skipped: a subscription that has moved lastSeenID past a row
\* still carries it, in the page it is handing over or in its worker's batch,
\* unless the row is published (subscription.go:95 moves lastSeenID before the
\* page is delivered, and relies on IDs becoming visible in order).
NoRowSkipped ==
  \A i \in Server : \A r \in staged :
    r.id <= lastSeenID[i] => Published(r.id) \/ r \in page[i] \cup batch[i]

\* The subscription is going to poll: it is about to, its page is full, or a token is
\* in its channel or on its way there.
WillPoll(i) ==
  \/ subPc[i] = "poll" \/ notifier[i]
  \/ subPc[i] = "send" /\ ~(Cardinality(page[i]) < NumRows)
  \/ \E c \in Call : call[c].pc = "notify" /\ call[c].server = i

\* The process has the row, or has not read past it and is going to poll.
Attends(i, r) ==
  r \in page[i] \cup batch[i] \/ (lastSeenID[i] < r.id /\ WillPoll(i))

\* No wakeup is lost: as long as nothing fails, every staged row is in the hands of a
\* process that is up, or such a process has not read past it and is going to poll
\* without waiting for its timer, although the channel holds one token for any number of
\* notifications (publishWorker.go:75-81) and the subscription may be busy when they
\* come (subscription.go:78-101).
NoLostWakeup ==
  faults = 0 => \A r \in staged : \E i \in Server : Running(i) /\ Attends(i, r)

\* Process i has a step to take on its rows that is neither a failure nor the timer: its
\* subscription, its worker, a handler that is about to notify, or the database for it.
\* An insert that finds the lock taken goes on when the transaction that holds it ends.
CanGo(i) ==
  \/ subPc[i] = "poll"
  \/ subPc[i] = "select" /\ notifier[i]
  \/ subPc[i] = "send" /\ wrkPc[i] = "select"
  \/ wrkPc[i] = "publish" /\ \E r \in batch[i] : First(r, batch[i]) /\ IsValidSequenceID(r.id)
  \/ wrkPc[i] = "tx" /\ \E t \in gatewayTx : t.owner = i
  \/ wrkPc[i] = "delete" /\ batch[i] # {}
  \/ \E c \in Call : call[c].pc = "notify" /\ call[c].server = i

\* The handlers, the subscription, the worker and the database never all wait for each
\* other.  A handler that waits for its insert waits for a transaction that is open; a
\* process that is up and has fetched a row whose ID fits a SID can go on with it
\* (publishWorker.go:82-97); and as long as nothing fails some process can go on with
\* every such row in the staging table, although the worker takes a page only when it is
\* through with the last (subscription.go:96) and no timer helps.
NeverStuck ==
  /\ \A c \in Call : call[c].pc = "tx" => \E t \in stagedTx : t.owner = c
  /\ \A i \in Server : \A r \in page[i] \cup batch[i] :
       Running(i) /\ IsValidSequenceID(r.id) => CanGo(i)
  /\ faults = 0 => \A r \in staged :
       IsValidSequenceID(r.id) => \E i \in Server : Running(i) /\ CanGo(i)

\* An envelope that PublishEnvelope returned to a client is durable: it is staged
\* or it is published (publishWorker.go:135-146 deletes the staged row).
AnsweredIsDurable ==
  \A c \in Call : call[c].pc = "ok" =>
    \/ call[c].row \in staged
    \/ \E g \in gateway : g.env = call[c].reply

\* What PublishEnvelope answered for a sequence ID is what gateway_envelopes holds
\* under it, byte for byte, even when another process published it or the node
\* restarted in between with another configuration (registrant.go:124-126).
AnswerMatchesGateway ==
  \A c \in Call : call[c].pc = "ok" =>
    \A g \in gateway : g.seq = call[c].row.id => g.env = call[c].reply

\* A node publishes only envelopes that name it as their target originator
\* (service.go:127), although the check and the publication may happen in
\* different processes.
TargetsPublisher == \A g \in gateway : g.env.row.env.client.target = g.node

\* The gateway ID sequence "matches the insertion order"
\* (00001_init-schema.up.sql:30): a row that becomes visible has a larger ID than
\* every row that was visible before, so a reader that polls by ID misses none.
GatewayIDsGrow ==
  [][\A g \in gateway' \ gateway : \A h \in gateway : h.id < g.id]_vars

\* The refinement mapping: a row is accepted once its insert has committed, and
\* remains so when it moves from the staging table to the gateway.
PublishedRows == {g.env.row : g \in gateway}
AcceptedRows  == staged \cup PublishedRows
AnsweredRows  == {call[c].row : c \in {x \in Call : call[x].pc = "ok"}}

Log == INSTANCE OriginatorLog WITH
         ID <- 1 .. MaxStaged, Env <- PayerEnv,
         accepted <- AcceptedRows, answered <- AnsweredRows, published <- PublishedRows

\* The publish path implements the originator's log: sequence IDs become visible
\* in order, envelopes are published in that order with none left out, and only
\* accepted envelopes are answered (service.go:64-101, publishWorker.go:82-147).
ImplementsLog == Log!Spec

\* The identity each process that is up runs under.
Serving == [i \in Server |-> IF Alive(i) THEN ident[i] ELSE None]

Ownership == INSTANCE DatabaseOwner WITH
               Process <- Server, Owner <- Identity, row <- nodeInfo, serving <- Serving

\* The start of a process here, where NewRegistrant is one step (registrant.go:25-49),
\* is the start that DatabaseOwner allows, which is also what Registrant implements.
ImplementsOwner == Ownership!Spec

StagedID(id) == \E r \in staged : r.id = id

\* If some process eventually stays up and its timer fires, every staged envelope
\* whose ID fits a SID is published: no crash, failed call or lost notification
\* strands it, and the rows with exhausted IDs behind it do not hold it up.
StagedIsPublished ==
  TimerFires /\ (<>[]\E i \in Server : Running(i)) =>
    \A id \in 1 .. MaxStaged :
      IsValidSequenceID(id) => (StagedID(id) ~> Published(id))

\* A published row does not stay in the staging table: without failures the worker
\* empties it, and the notifications alone wake it, whether or not the timer ever fires.
StagingDrains ==
  [](faults = 0) /\ (<>[]\E i \in Server : Running(i)) =>
    \A id \in 1 .. MaxStaged : IsValidSequenceID(id) => (StagedID(id) ~> ~StagedID(id))

\* A cancelled context closes the updates channel, as the test of the subscription
\* asserts after ctxCancel() (subscription_test.go:123-125).
CancelClosesUpdates ==
  \A i \in Server : (proc[i] = "stopping") ~> (subPc[i] = "closed" \/ ~Alive(i))

\* The context was cancelled while the subscription had a page to send, and its worker,
\* which looks at the context too, has left (publishWorker.go:85-86).
Abandoned(i) == proc[i] = "stopping" /\ subPc[i] = "send" /\ wrkPc[i] = "stopped"

\* The send of the page has no case for ctx.Done (subscription.go:96), so an abandoned
\* subscription stays where it is, its channel open and its page undelivered, until
\* the process is gone: this is why CancelClosesUpdates fails.
AbandonedForGood ==
  [][\A i \in Server : Abandoned(i) =>
       \/ Abandoned(i)' /\ page'[i] = page[i]
       \/ ~Alive(i)']_vars

\* Envelopes whose sequence ID does not fit a SID are neither answered nor published:
\* SignStagedEnvelope fails for them in the handler and in the worker alike
\* (service.go:95-98, publishWorker.go:101-108), and they stay in the staging table.
OnlyFittingIDs ==
  /\ \A r \in AnsweredRows : IsValidSequenceID(r.id)
  /\ \A r \in AcceptedRows : IsValidSequenceID(r.id) \/ (r \in staged /\ ~Published(r.id))

-----------------------------------------------------------------------------
(* The inductive invariant behind InOrder, NoRowSkipped and the refinement *)

\* Every process that is up has the identity of node_info, and everything signed
\* or being inserted carries it.
IdentityInv ==
  /\ \A i \in Server : Alive(i) => ident[i] = nodeInfo /\ nodeInfo # None
  /\ \A g \in gateway \cup {t.row : t \in gatewayTx} :
       /\ nodeInfo # None /\ g.env.signer = nodeInfo
       /\ g.node = nodeInfo.node /\ g.seq = g.env.row.id
  /\ \A r \in AcceptedRows \cup {t.row : t \in stagedTx} :
       nodeInfo # None /\ Accepts(nodeInfo, r.env)

\* Handlers: who waits for which transaction, and what an answer contains.
HandlerInv ==
  /\ \A t \in stagedTx : t.owner # None =>
       call[t.owner].pc = "tx" /\ call[t.owner].env = t.row.env
  /\ \A c \in Call :
       /\ call[c].pc \in {"insert", "tx", "notify", "sign"} =>
            call[c].server \in Server /\ Alive(call[c].server)
       /\ call[c].pc \in {"insert", "tx"} =>
            call[c].env \in PayerEnv /\ Accepts(nodeInfo, call[c].env)
       /\ call[c].pc \in {"notify", "sign", "ok"} => call[c].row \in AcceptedRows
       /\ call[c].pc = "ok" => call[c].reply = SignStagedEnvelope(nodeInfo, call[c].row)

\* The staging lock: an ID that is not visible yet is above every visible one and
\* above every lastSeenID.
StagingInv ==
  /\ \A r \in AcceptedRows : r.id <= stagedSeq
  /\ \A r, q \in AcceptedRows : r.id = q.id => r = q
  /\ \A i \in Server : lastSeenID[i] <= stagedSeq
  /\ \A t, u \in stagedTx : t = u
  /\ \A t \in stagedTx :
       /\ t.row.id = stagedSeq
       /\ \A r \in AcceptedRows : r.id < t.row.id
       /\ \A i \in Server : lastSeenID[i] < t.row.id

\* Rows in memory: accepted, at most lastSeenID, the batch before the page; the row
\* a worker deletes is published.
InFlightInv ==
  \A i \in Server :
    /\ page[i] \cup batch[i] \subseteq AcceptedRows
    /\ \A r \in page[i] \cup batch[i] : r.id <= lastSeenID[i]
    /\ \A r \in batch[i], q \in page[i] : r.id < q.id
    /\ page[i] # {} => subPc[i] = "send"
    /\ batch[i] # {} => wrkPc[i] \in {"publish", "tx", "delete"}
    /\ wrkPc[i] = "delete" => \A r \in batch[i] : First(r, batch[i]) => Published(r.id)

\* The gateway is a prefix of the accepted rows, and the insert that is under way
\* is for the first row after that prefix.
GatewayInv ==
  /\ \A r \in staged : Published(r.id) \/ \A g \in gateway : g.seq < r.id
  /\ \A g \in gateway : g.id <= gatewaySeq
  /\ \A t, u \in gatewayTx : t = u
  /\ \A t \in gatewayTx :
       /\ t.row.id = gatewaySeq
       /\ \A g \in gateway : g.id < t.row.id
       /\ t.row.env.row \in AcceptedRows
       /\ t.conflict <=> Published(t.row.seq)
       /\ ~t.conflict => \A r \in staged : Published(r.id) \/ t.row.seq <= r.id
       /\ t.owner # None => wrkPc[t.owner] = "tx" /\ First(t.row.env.row, batch[t.owner])

\* The inductive invariant: together with the type invariant these are preserved
\* by every step and imply the safety properties of the publish path.
IInv ==
  /\ TypeOK /\ IdentityInv /\ HandlerInv /\ StagingInv
  /\ InFlightInv /\ NoRowSkipped /\ GatewayInv /\ InOrder

-----------------------------------------------------------------------------
\* The inductive invariant behind NoLostWakeup, beside IInv: as long as nothing fails
\* no process stops and every insert has a handler that waits for it.
WakeupInv ==
  /\ NoLostWakeup
  /\ faults = 0 => /\ \A i \in Server : proc[i] # "stopping"
                   /\ \A t \in stagedTx : t.owner # None

\* The inductive invariant behind NeverStuck, beside those two: who waits for a
\* transaction has one, who works on rows has some, and only a cancelled context ends
\* the goroutines.
WaitInv ==
  /\ \A c \in Call : call[c].pc = "tx" => \E t \in stagedTx : t.owner = c
  /\ \A i \in Server :
       /\ wrkPc[i] = "tx" => \E t \in gatewayTx : t.owner = i
       /\ wrkPc[i] \in {"publish", "tx", "delete"} => batch[i] # {}
       /\ subPc[i] = "send" => page[i] # {}
       /\ wrkPc[i] = "stopped" \/ subPc[i] = "closed" => proc[i] = "stopping"

\* The inductive invariant behind OnlyFittingIDs, beside IInv: it speaks of the inserts
\* under way as well.
FitInv ==
  /\ \A r \in AnsweredRows : IsValidSequenceID(r.id)
  /\ \A g \in gateway \cup {t.row : t \in gatewayTx} : IsValidSequenceID(g.seq)

=============================================================================
