# Verification of xmtpd in TLA+

xmtpd is a replication node: clients publish envelopes to it over gRPC, the node
stages each envelope in Postgres under a sequence ID of its own, signs it and moves
it to the table from which it is served and replicated. It finds the other nodes in
a contract on a chain, and indexes the events of a second contract. This directory
models those parts in TLA+, checks the models with TLC and proves theorems about them
with TLAPS. Paths below are relative to `src/`.

    tlc   -workers 2 -config Pipeline_two_workers.cfg MCPublishPipeline
    tlapm PublishPipelineProofs.tla

## The system and what is modelled

| Part | Source | Model |
|---|---|---|
| API service, `PublishEnvelope` | `pkg/api/service.go` | `PublishPipeline` |
| Publish worker | `pkg/api/publishWorker.go` | `PublishPipeline` |
| Polling subscription | `pkg/db/subscription.go` | `PublishPipeline` |
| Schema, functions and queries | `pkg/migrations/`, `pkg/db/queries/` | `PublishPipeline` (what the publish path uses) |
| Registrant: own record in the registry, claim of the database | `pkg/registrant/registrant.go` | `Registrant` (signing: `PublishPipeline`); what it promises: `DatabaseOwner` |
| What the publish path promises | | `OriginatorLog` |
| Log streamer, `indexLogs` | `pkg/indexer/` | `LogStreamer` |
| `StartIndexer` | `pkg/indexer/indexer.go` | `StartIndexer`, composed from `LogStreamer` |
| Sequence IDs | `pkg/utils/sid.go` | `Sid` |
| `Nodes` contract | `contracts/src/Nodes.sol` | `Nodes`; what it promises: `NodeList` |
| Node registry, notifier | `pkg/registry/` | `NodeRegistry`; what it promises: `NodeDirectory` |
| Start, signals, shutdown | `cmd/replication/main.go`, `pkg/server`, `pkg/tracing`, `pkg/api/server.go`, `pkg/db/pgx.go` | `ServerLifecycle` |

The parts meet in the abstract specifications. `Nodes` implements `NodeList`; the chain
that `NodeRegistry` polls is an instance of `NodeList`; `NodeRegistry` implements
`NodeDirectory`; the registry each process of `Registrant` reads is an instance of
`NodeDirectory`; `Registrant` and `PublishPipeline` both implement `DatabaseOwner`, the one
statement by statement, the other with a start in one step.

`PROJECT.json` lists every part with its status, maps each definition to the lines it
models, and lists the hazards of the code, each at its line with the properties that
would catch it going wrong.

## PublishPipeline

**State.** One database (`nodeInfo`; `staged` and `gateway` with their ID sequences
and open transactions), and per process of `Server` its status, identity, notifier
token, subscription goroutine (`subPc`, `lastSeenID`, `page`) and worker goroutine
(`wrkPc`, `batch`). `call` holds the handler of each client call. Rows are handled in
ascending ID order, so a page or batch is a set and its next row the one with the
smallest ID.

**Granularity.** One action is what happens between two points at which another
goroutine, process or the database can act: a handler validates, takes the advisory
lock and an ID (`InsertStaged`), waits for the commit (`CommitStaged`, `AbortStaged`),
notifies, signs and answers. An insert into the gateway is a transaction of the same
shape. The delete is one statement and one action.

**Failure.** `MaxFaults` bounds what goes wrong: an insert that is rolled back; an
insert whose caller gets an error while its transaction lives on without an owner and
commits or not; a query or a delete that fails; a cancellation; a crash at any point.
A process may restart at once with any identity that `ensureDatabaseMatches` lets
pass. A cancelled context makes queries and inserts fail; the delete uses a background
context (`publishWorker.go:136`) and does not. `main` returns after a cancellation
without waiting for the goroutines (`Exit`).

**Abstractions.** Envelopes are opaque apart from what validation looks at: client
bytes (absent, malformed, parsed), payer signature, target, topic. Signing is the
function [signer, row]: the signed time is a column of the row, so two workers produce
the same bytes. Postgres is modelled from how the code uses it: sequences are not
transactional, an advisory lock is held to the end of its transaction, the rows a
query sees are the committed ones. A delete whose caller crashed has either happened
or not by the time the process is gone. Sleeps are left out: a retry may happen at any
moment.

| Property | States |
|---|---|
| `InOrder` | the order of gateway IDs is the order of sequence IDs, each envelope once |
| `NoRowSkipped` | what `lastSeenID` has passed is published or carried in memory |
| `AnsweredIsDurable` | an answered envelope is staged or published |
| `AnswerMatchesGateway` | what was answered for an ID is what is published under it |
| `TargetsPublisher` | only envelopes that name this node are published by it |
| `GatewayIDsGrow` | rows become visible in the order of their gateway IDs |
| `ImplementsLog` | refinement of `OriginatorLog` |
| `NeverStuck` | handlers, subscriptions, workers and the database never all wait for each other: who holds a row with a valid ID has a step to take, and without faults so has someone for every staged row, timer or not |
| `NoLostWakeup` | without faults, every staged row is held by a process or waits for one that is going to poll without its timer |
| `ImplementsOwner` | refinement of `DatabaseOwner` * |
| `OnlyFittingIDs` | a sequence ID that does not fit a SID is neither published nor answered * |
| `AbandonedForGood` | a subscription whose worker stopped during its send keeps its page and stays there until the process ends * |
| `StagedIsPublished` | a staged envelope with a valid ID is published |
| `StagingDrains` | without faults it also leaves the staging table, timer or not |

Properties marked * are proved and have no run of their own.

`OriginatorLog` is the abstract specification: IDs are accepted in growing order,
answers are for accepted rows, rows are published in order with no gap. The mapping
takes as accepted the rows that are staged or published, so the move of a row from one
table to the other is invisible, and the delete that follows a publication stutters.
Its `Promise` is what the log is for: an ID names one envelope, and the published rows are
at all times a prefix of the accepted ones.

## LogStreamer and StartIndexer

`LogStreamer` has the chain (`head`, `events`), the watcher goroutine (`watchPc`,
`fromBlock`, `page`, `nextBlock`), the buffered channel, and `indexLogs` (`indexPc`,
`event`). An event is its block; a block holds at most one. A call to the chain client
may fail. `BlockNumber` may be answered by an endpoint up to `MaxLag` blocks behind, so
that `fromBlock` moves back (`lagged` records that it was). `FilterLogs` may be answered
by an endpoint that is behind the end of the page and answers with the events it has
(`short` counts these). All of them use up `MaxFaults`. For an empty range endpoints
either answer with nothing or with an error; both happen. `StoreLog` answers any of
`Outcomes`, also after having retried.

| Property | States |
|---|---|
| `NoGap` | while no page was answered short, no event behind `fromBlock` is missed |
| `LossIsBounded` | each page answered short loses at most `MaxLag` events, and nothing else loses any |
| `HandledInOrder` | while no block number lagged, events are handled in block order, each once |
| `EventsAreHandled` | while no page was answered short, every event is handled in the end |
| `CancelEndsIndexing` | a cancelled context ends `indexLogs` |
| `CancelDrains` | when `indexLogs` has returned, no fetched event is left over, and all behind `fromBlock` are handled if no page was answered short |
| `NoStall` | a send into a full buffer has a reader that has not left, and the reader of an empty one has a watcher that has not stopped, or a closed channel * |
| `RetriesForGood` | with a storer that answers retryable errors alone, `indexLogs` stays with its event for good * |

With a lagging block number blocks are read again and events repeated, which the storer
has to bear. A page answered short is the one way to lose an event for good: the head
and the events of a page come from two calls (`rpcLogStreamer.go:139`, `:157`), and the
next page starts behind the head. The comment at `:69` promises "a complete history";
`LAG_FROM_HIGHEST_BLOCK`, 0 today, would cover lags up to its value. That an endpoint
answers a range above its own head with the events it has, and not with an error, is an
assumption about endpoints.

`StartIndexer` adds the goroutine that runs `indexLogs`, builds the streamer and starts
it, in that order. `WaitsForItself` is the state it never leaves (finding 3).

## Nodes and NodeRegistry

`Nodes` is the contract: counter, stored nodes, and the state of the ERC721 and Ownable
libraries it relies on, with one action per transaction. A reverted call is no step.
`TokensAreNodes` says that tokens, stored nodes and listed nodes are the same IDs up to
the limit of the `uint16` counter, whatever is transferred, approved or renounced.
`ImplementsNodeList` is the refinement the registry needs: seen through `allNodes`, the
list grows at its end and an ID keeps its key. Like `OriginatorLog`, the other abstract
specifications (`NodeList`, `NodeDirectory`, `DatabaseOwner`) state under the name `Promise`
what their users may rely on.

`NodeRegistry` is `SmartContractRegistry`. `chain` holds the list of the contract at
every block, and a call is answered for the newest block or, as a fault, for an earlier
one, or fails. One action is one critical section: `processChangedNode` stores and
triggers under its locks; `processNewNodes` triggers (`announceNewNodes`) and then
stores (`storeNewNodes`), and anyone may run in between. `trigger` starts one goroutine per
registered channel; `pending` holds those that have not met their listener, which they
do in any order. A notification is abstracted to the IDs it carries. The notifier of a node
is not there until `OnChangedNode` makes it, and `processChangedNode` triggers only one that
it finds. A `CancelSubscription` may be called again, which closes a closed channel and
panics. Four variables are history: `answered` has the block of the last completed answer
that held a node, `late` the listeners that cancelled with a goroutine on its way, `known` and
`missed` what a listener of new nodes found when it registered and what was on its way then.

| Property | States |
|---|---|
| `GetNodesInRange` | the IDs of the map are 0 .. n-1, as `GetNodes` assumes (`contractRegistry.go:110-113`) |
| `ListFollowsAnswers` | outside a refresh every node is listed as in the last completed answer that held it, within one perhaps as in the answer being processed |
| `ListIsFresh` | once a refresh has read the newest block and is done, the list is what the contract holds, in every field |
| `ImplementsDirectory` | the keys listed are a prefix of those registered, and only grow |
| `ChangeAnnounced` | an entry changes only together with a notification to every listener of it, although notifiers are made on demand |
| `AnnouncedOnce` | a listener of new nodes is told of each later node, once, except those in `missed` |
| `IdleCancelIsSafe` | a listener that cancelled with nothing on its way is sent nothing more, and only one that cancelled with a goroutine on its way, or twice, ends the process |
| `Converges`, `CancelStopsLoop` | liveness of the list and of the loop |

The exception in `AnnouncedOnce` is real: `processNewNodes` notifies before it stores
(`contractRegistry.go:157-163`), and who registers and reads the list in between neither
finds the node nor is ever told of it.

An answer for an earlier block may be shorter than the list. The nodes it does not hold stay
as they were, so `GetNodes` may return nodes as of several blocks; `ListFollowsAnswers` says
which. `GetNodesInRange` rests on the IDs that `Nodes` hands out, from 0 without a gap. The
tests of the registry feed it other IDs (1 and 2, and random ones) through a mock; `GetNodes`,
which those tests do not call, would panic on them.

## Registrant

Processes on one database start with any key and a registry of any age, look up their
record, insert the identity, or read and compare it, and crash or lose an answer at any
point. `OneIdentity`: processes past `NewRegistrant` have the identity of the database.
`ImplementsOwner` says more: the insert, the read and the comparison together are the step
of `DatabaseOwner` that claims the database or finds it one's own, an insert whose answer
was lost is a claim, and the owner never changes.
`RestartAccepted`: a mismatch is reported only to another key; it holds because the
search takes the first record with the key, and the first one is the same in every
prefix of the registrations. `EarlierNodesStart`: a registered key that does not parse
becomes a nil `SigningKey`, which `getRegistryRecord` dereferences (`registrant.go:115`).
This panic is in the model; the property says whom it can stop: servers whose key was
registered after the invalid one or not at all, never one registered before.

## Sid

Shifts and masks are multiplication, division and remainder by the two spans, which
the proofs leave open; `MCSid` compares them with operations on bits. Nodes issue IDs
from a growing serial number, past the last that is valid. `SidIdentifies` and
`SidsInOrder` say that a SID gives back its parts and sorts by them.

## ServerLifecycle

The goroutines of `main`, of its body and of gRPC, the context, the buffered channels of
the two `signal.Notify` and `doneC`, and signals at any moment; one that no channel is
registered for ends the process. A step of the start that fails for good ends the
process (`log.Fatal`). The goroutine that serves gRPC reads `s.grpcListener` when it is first
scheduled (`ReadListener`), and `Close` closes the listener, sets the field to nil and waits,
in three steps: a signal right after the start may let the goroutine read nil and panic, which
`PanicWrap` passes on. `Serve` returns when the listener is closed or when it cannot accept
(`AcceptFails`), and the body then goes on without it.

| Property | States |
|---|---|
| `CleanExit` | `main` returns only after the listener of the API is closed and its goroutine gone, and the process panics only when `Close` is waiting for that goroutine |
| `NoDeadlock` | while the process runs, one of its goroutines has a step to take, or the node is up and waits for a signal |
| `TermEndsProcess` | a signal received by `WaitForShutdown` ends the process, in whatever order `main` and the body see it |
| `CancelEndsOrWaits` | once the context is cancelled, the process ends or waits for a SIGINT or SIGTERM and nothing else |
| `StepsRunOut` | a step of a goroutine ends the process or is one of the 18 + `MaxPings` it can take in its life, whatever signals come |

The second case of `CancelEndsOrWaits` happens on SIGHUP, SIGQUIT or a signal before
`WaitForShutdown` has registered: `main` waits for a body that does not look at the
context (`main.go:80-81`, `server.go:72`), although `GoPanicWrap` asks for it
(`tracing.go:111`), until a second signal comes. `CleanExit` is about the listener:
connections that were accepted go on until the process ends, since `Close` does not stop the
gRPC server.

`main` passes an empty registry today (`main.go:58`), with which `NewRegistrant` fails and the
process ends in `Fatal` whatever its configuration. The run lets `NewRegistrant` find the node
or not (`OwnNodeListed`), so that it covers today's program and one with a registry that holds
the node; the properties are about both. Nor does `NewAPIServer` register the replication
service with its gRPC server, which serves health checks only (`api/server.go:71-80`):
`PublishPipeline` models the handlers as they are when they are called.

## Runs

| Run | Instance | Shows |
|---|---|---|
| `two_workers` | 2 processes, 2 calls, 2 nodes with 2 keys each, 9 envelopes (valid and invalid), pages of 2, 1 fault, symmetry in processes, calls, nodes and keys | the safety properties of the publish path, the refinement of `OriginatorLog` |
| `liveness` | 1 process, 3 calls, pages of 1, 1 fault, IDs exhausted at the third; fairness without the timer | `NoLostWakeup`, `StagedIsPublished`, `StagingDrains` |
| `cancel` | 1 process, 1 call | finding 1 |
| `streamer` | 4 blocks from 1, pages of 2 + 1 blocks, buffer 1, lag 2, 2 faults | the safety and liveness properties of the streamer |
| `streamer_stuck` | 4 blocks, the storer of the code | finding 2 |
| `start_indexer` | 4 blocks from 0, no fault | finding 3 |
| `nodes` | 2 accounts, 2 keys, 2 addresses, counter up to 2 | `TokensAreNodes`, the refinement of `NodeList` |
| `registry` | 1 listener, 2 nodes, 4 blocks, a valid and an invalid key, 1 fault | the safety and liveness properties of the registry, the refinement of `NodeDirectory` |
| `registry_cancel` | 1 listener, 1 node, 3 blocks | finding 4 |
| `registrant` | 2 processes, 2 keys and the invalid one, 4 nodes, symmetry | `RestartAccepted`, `EarlierNodesStart`, the refinement of `DatabaseOwner` |
| `sid` | 3 of 4 nodes, 2 bits each, serial numbers past the last valid | `SidIdentifies`, `SidsInOrder`, `AgreesWithBits` |
| `lifecycle` | node listed or not, failures | `CleanExit`, `NoDeadlock`, `TermEndsProcess`, `CancelEndsOrWaits`, `StepsRunOut` |

**Bounds.** Two rows are the least that can be swapped, skipped or doubled, two
processes the least that can race for them, and a page of one or two rows makes full
pages happen; one fault at any point, with the other process going on, covers each
retry path. The limit of a SID, the page and the buffer
are small so that the runs go beyond them. `MaxStaged`, `MaxBlock`, `MaxFaults` bound
the models only. A registry needs a node that is changed while another is new, and an
answer older than the one before: two nodes and four blocks have both.  Four blocks
from 1 make the backfill cut a page at its size, and two faults combine a lagging block
number with a page answered short. `LossIsBounded` bites there with one such page; with two,
the bound is all the events there are, and the theorem has the general case.
The key registered twice, before and after an invalid one, needs four registrations.
Of the lifecycle, only the number of pings is a bound; everything else is finite as it is.
The deadlock check is on for the publish path, the contract and the registrant, where
something is always possible. It is off where the system stops: the streamer and the
registry when their context is cancelled, the process when it has ended, a node whose
IDs are used up.

**Fairness.** A goroutine that can take a step takes it, the database
finishes the transactions it was given (weak fairness). A `select` picks at random
among its ready cases, so it does not pass over `ctx.Done` for ever (strong fairness of
`CloseUpdates` and `StopWorker`). No fairness is assumed of clients, starts, stops,
crashes and faults. The liveness properties of the publish path assume that a process
eventually stays up, and are checked with one process. `StagedIsPublished` has the timer
as a hypothesis (`TimerFires`), because after a failed query nothing else wakes the
subscription; `StagingDrains` does without it. In `streamer` a storer
that can answer something else than "retry" eventually does; `streamer_stuck` has no
such storer. In the registry the ticker fires, a call is answered or fails, and the loop
does not pass over `ctx.Done` for ever, as `select` has it; nothing is assumed of listeners,
and the contract rests at its last block. In the lifecycle each goroutine
runs when it can and no signal is promised; the database comes up or, with `Failures`,
may fail.

## Findings

1. **`cancel`.** `poll` sends a page with a plain channel send (`pkg/db/subscription.go:96`).
   If the context is cancelled while a page waits and the worker takes `ctx.Done`, the
   subscription blocks for ever and does not close its channel, as its test expects
   after a cancellation. The goroutine and its page leak; no row is lost, it is still
   staged. The theorem `AbandonedStaysSo` has that nothing but the end of the process
   changes this.
2. **`streamer_stuck`.** `indexLogs` relies on the channel being closed when the context
   is cancelled (`pkg/indexer/indexer.go:67`). While an event is retried it never looks
   at the channel, and the watcher may be blocked in its send; with the storer in the
   repository, whose errors are all retryable, neither ends (`RetryNeverEnds`).
3. **`start_indexer`.** `StartIndexer` calls `indexLogs` before it starts the streamer
   that feeds and closes its channel; it never returns. No code calls it yet. The
   theorem `NeverStarts` has it for every chain, storer and cancellation.
4. **`registry_cancel`.** Cancelling a subscription closes its channel while a goroutine
   may be blocked in a send to it (`pkg/registry/notifier.go:27`, `:39`): a panic.
   A second call of the same `CancelSubscription` panics too, in the close, and
   `IdleCancelsAreSafe` has that there is no third way to it.

Five more observations have no run of their own, because the passing properties state
exactly when they happen: a page answered short loses events (`NoGap`,
`LossIsBounded`), a listener that registers in the middle of `processNewNodes` misses
nodes (`AnnouncedOnce`), an invalid key stops nodes registered later
(`EarlierNodesStart`), a cancelled context may leave `main` waiting for a second
signal (`CancelEndsOrWaits`), and a shutdown right after the start may end in a panic
(`CleanExit`).

## Proofs

The theorems are in `PublishPipelineProofs`, which rests on the lemmas of
`PublishHandlerProofs` (types, transactions, identity, handlers) and `PublishRowProofs`
(staging table, rows in memory, wakeups), in `LogStreamerProofs` (with `StartIndexer`), in
`NodeRegistryProofs` with the lemmas of `NodeRegistryListProofs` (contract, list,
directory), in `RegistrantProofs` and in `NodesProofs` (the contract; the sequence IDs of
its nodes, as an instance of `Sid`; the server, as an instance of `ServerLifecycle`: its
theorems state `Ids!SidIdentifies`, `Server!CleanExit` and so on, the properties that the
runs `sid` and `lifecycle` check). They hold for every value of the constants that satisfies the `ASSUME` of
the module: any number of processes, calls, envelopes, identities, nodes, listeners,
blocks and faults, any page size, buffer, lag and width. The assumptions say that page
size, buffer and spans are positive, the bounds are natural numbers, values such as
`None`, `Nil` and `NoTopic` are none of the model's other values, and an identity is
determined by its node and key.

**Publish path.** None of the safety properties is inductive. `InOrder` depends on the
worker inserting the first row that is not published, that on `NoRowSkipped`, and that
on no ID becoming visible below a `lastSeenID`. `IInv` therefore adds:

* `StagingInv`: at most one staging transaction is open; its ID is the largest ever
  allocated, above every visible row and every `lastSeenID`. This is what the advisory
  lock of `insert_staged_originator_envelope` is for.
* `InFlightInv`: batch before page, both accepted and at most `lastSeenID`; the row a
  worker is about to delete is published.
* `GatewayInv`: the gateway is a prefix of the accepted rows; the one open insert has
  the largest gateway ID and is either for the first row after the prefix or a conflict.
* `IdentityInv`, `HandlerInv`: processes that are up have the identity of `node_info`;
  handlers hold what they were given, and answers are the signature of accepted rows.

There is one lemma per conjunct, each with one step per action that can disturb it,
and lemmas on pages (`SelectStagedOriginatorEnvelopes` leaves no row out below its
last), on transactions that lose their owner and on the rows a crash leaves. From `IInv`
follow `PublishedInOrder`, `NothingSkipped`, `AnswersAreDurable`, `AnswersMatch`,
`OnlyOwnEnvelopes`, `GatewayIDsInCommitOrder` (an action property) and `Refinement`,
which shows that `Init` implies the abstract `Init` and that each step is an `Accept`,
`Answer`, `Publish` or stuttering step of `OriginatorLog`. `PipelineIsOwned` does the same
for `DatabaseOwner`: `Start` is `Serve`, the end of a process is `Stop`. `PromiseKept` shows
that `OriginatorLog` keeps its `Promise` and takes it over to the publish path through the
refinement, and `OwnershipKept` does so for the `Promise` of `DatabaseOwner`.
`OnlyFittingIDsLeave` adds to `IInv` that the inserts under way are for IDs that
fit as well (`FitInv`).

`NoWakeupLost` is the safety half of `StagingDrains`. Beside `IInv` it needs that without
faults no process is stopping and no staging transaction has lost its handler
(`WakeupInv`): a row then becomes visible in front of a handler that has yet to notify. A
poll that leaves out a staged row above `lastSeenID` returns a full page (`FullPage`), and
a full page is followed by another poll.

`NobodyIsStuck` says of waiting what `NoWakeupLost` says of notifying. Its invariant
(`WaitInv`) is that who waits for a transaction has one that is open, which is lost only
together with the waiting; that a subscription which sends has a page and a worker which
publishes has a batch; and that goroutines end only in a process that is stopping. A worker
comes to a row through the rows below it, so that the first row of its batch has an ID that
fits when any has (`SmallestID`). That the steps which can be taken are taken is left to the
liveness runs.

**Log streamer.** `IInv` adds to `NoGap` that the page being sent holds what has not been
sent before `nextBlock`, if no page was answered short, and that no page goes beyond the
head (`PageInv`); to `LossIsBounded` the same bound for what the page being sent has
already lost (`LossInv`), as the loss happens when the page is read and shows only when
`fromBlock` moves; and, if no block number lagged, that handled, stored, buffered and
fetched events follow each other (`OrderInv`). From it follow `NoEventMissed`,
`LossesAreBounded` and `EventsInOrder`. `ShutdownDrains` adds `DrainInv`: only a watcher that
has stopped, which it does between two pages, has closed the channel, and only a closed
and empty channel ends `indexLogs`. `StreamerNeverStalls` rests on the same invariant.
`RetryNeverEnds` is an action property that needs none. `NeverStarts` is about `StartIndexer`:
`WaitsForItself` is inductive as it stands.

**Node registry.** `IInv` adds what relates the list to the contract and the listeners
to the list: every block holds a prefix of the current list with the same keys
(`ChainInv`, from the steps of `NodeList`); the map is such a prefix, and a refresh that
has come to new nodes is done with changed ones (`ListInv`); the channels of a notifier
are its open listeners (`NotifierInv`); and what a listener of new nodes found, was sent
and will be sent is disjoint and, with `missed`, everything that is listed or about to
be (`NewsInv`). The last is why `AnnouncedOnce` is not inductive by itself: between
trigger and store, announcements run ahead of the list. `RegistryIsDirectory` maps a
changed contract to `Register`, a stored refresh to `Refresh`, everything else to a stutter.
`DirectoryKeepsPromise` is what that is good for: the key found under an ID is the registered
one and never another. `RefreshedListIsFresh` puts together that what is listed is a prefix of what is registered
and that a finished refresh leaves nothing to change or to add. `ListIsTheAnswer` is
inductive with `ListInv`: a refresh that is done has nothing left to change, so every node of
its answer is listed as answered, and the others have not been touched. `IdleCancelsAreSafe`
needs of `NotifierInv` that a notifier forgets who has cancelled.

**Registrant.** `IInv` says that directories are prefixes of the registrations, and that
the ID in a record or in `node_info` is the first registration of its key.
`DatabaseHasOneIdentity` and `RestartIsAccepted` follow. `InvalidKeyStopsOnlyLaterNodes`
uses it to carry what a process met in its directory over to the registrations.
`DatabaseIsOwned` is the refinement of `DatabaseOwner`, with one step per action; that a
process which compares finds a row, and one which claims has a record, is where the
invariant is needed. `OwnerKeepsPromise` concludes that the servers of a database have one
identity, which outlives them all.

**Nodes contract.** That the IDs with a token and with a stored node are those below the
counter (`TokenInv`) is inductive together with the types of storage. `TokensMatchNodes` and
`ContractIsList`, the refinement of `NodeList`, follow, for every limit of the counter, and from that `ListKeepsPromise`.

**Sequence IDs.** The arithmetic (`SpansApart`, `RoundTrip`) is proved for all positive spans,
`SidsIdentify` and `SidsSort` for all IDs ever issued, with the node IDs of the contract as
nodes. They have the `ASSUME` of `Sid` as a hypothesis, since `Sid` is an instance there.

**Lifecycle.** `IInv` says in which order the listener, the goroutine that serves it, the
body and `main` go down (`ShutdownOrder`), and that nobody waits for a value that was
taken or never sent (`NothingLost`). The listener is closed before the field is nil, so that
a goroutine that reads nil finds the body in its wait. `ExitIsClean` follows from the first,
`GoroutinesNeverDeadlock` from both. `GoroutinesRunOut` adds a measure that each step of a
goroutine lowers and no signal raises (`StepsLeft`; it has the `ASSUME` on `MaxPings` as a
hypothesis). With both, goroutines that take the
steps they can take come to the end of the process or to `WaitForShutdown` without a signal:
the part of `TermEndsProcess` that does not speak of fairness, for any number of pings.

**Only model-checked:** the liveness properties (fairness and `ENABLED` are beyond the
prover), and the agreement of `Sid` with operations on bits, for the one width (the prover
cannot use the module of bitwise operators). Every other property of a passing run has its
theorem. The inductive invariants are proved and are not part of a run.

## Not modelled

* Generated code: the protobuf messages (`pkg/proto`), contract bindings (`pkg/abis`) and
  mocks (`pkg/mocks`). They are nine tenths of the lines under `src/`, hold no logic of
  this system and are used by it as data types and calls, which the models have.
* `pkg/config`, `pkg/testing` and logging: declarative options and set-up.
* Spans and links of `pkg/tracing`: observation only. `PanicWrap` repanics, so that a panic
  ends the process as it would without it.
* The migrations themselves and the connection pool: a library runs them once, before
  anything else; `ServerLifecycle` has that they succeed or fail.
* `QueryEnvelopes` and `BatchSubscribeEnvelopes` answer "unimplemented"; `address_log` and
  `SelectGatewayEnvelopes` are used by no code yet.
* `FixedNodeRegistry`, which is marked for deletion: only that the one of `main` is empty.
* Reorganisations of the chain, which the streamer accepts (`rpcLogStreamer.go:17-19`), and
  the order of two notifications of one node, which nothing promises.
* The contents of envelopes and signatures, beyond what validation distinguishes.
