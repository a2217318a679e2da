----------------------------- MODULE LogStreamer -----------------------------
(***************************************************************************)
(* RpcLogStreamer (pkg/indexer/blockchain/rpcLogStreamer.go): one          *)
(* goroutine per contract pages through the blocks of a chain and sends    *)
(* the events it finds to a buffered channel, and indexLogs                *)
(* (pkg/indexer/indexer.go) stores what arrives there, retrying.           *)
(*                                                                         *)
(* An event is identified by its block; a block holds at most one event of *)
(* the contract.  The chain does not reorganise: the streamer chooses not  *)
(* to lag behind the head (LAG_FROM_HIGHEST_BLOCK = 0).                    *)
(***************************************************************************)
EXTENDS Integers, Sequences, FiniteSets, Functions

CONSTANTS
  FirstBlock,       \* fromBlock of the watcher
  BACKFILL_BLOCKS,  \* page size of the backfill (1000 in the code)
  Capacity,         \* buffer of the event channel (100 in the code)
  Outcomes,         \* what StoreLog may answer: some of "ok", "retry", "drop"
  MaxLag,           \* blocks by which an endpoint may be behind the chain
  MaxBlock,         \* bound of the model: blocks of the chain
  MaxFaults         \* bound of the model: calls of the chain client that fail or lag

ASSUME StreamerAssumption ==
  /\ {FirstBlock, MaxLag, MaxBlock, MaxFaults} \subseteq Nat
  /\ {BACKFILL_BLOCKS, Capacity} \subseteq Nat \ {0}
  /\ Outcomes \subseteq {"ok", "retry", "drop"}

VARIABLES
  head, events,                  \* the chain: highest block, blocks with an event
  ctx,                           \* "live" or "done"
  watchPc, fromBlock, highest,   \* watchContract and getNextPage
  page, nextBlock,               \*   events still to be sent, block after them
  channel, closed,               \* the event channel
  indexPc, event,                \* indexLogs and the event it is storing
  handled,                       \* events stored or dropped, in order
  faults,
  lagged, short                  \* whether BlockNumber, and how often FilterLogs, was
                                 \*   answered by an endpoint that is behind

chainVars   == <<head, events>>
watchVars   == <<watchPc, fromBlock, highest, page, nextBlock>>
channelVars == <<channel, closed>>
indexVars   == <<indexPc, event, handled>>
faultVars   == <<faults, lagged, short>>
vars        == <<chainVars, ctx, watchVars, channelVars, indexVars, faultVars>>

Block == 0 .. MaxBlock

Init ==
  /\ head = 0 /\ events = {}
  /\ ctx = "live"
  /\ watchPc = "new" /\ fromBlock = FirstBlock /\ highest = 0
  /\ page = {} /\ nextBlock = FirstBlock
  /\ channel = <<>> /\ closed = FALSE
  /\ indexPc = "receive" /\ event = 0 /\ handled = <<>>
  /\ faults = 0 /\ lagged = FALSE /\ short = 0

-----------------------------------------------------------------------------
(* Environment *)

NewBlock ==
  /\ head < MaxBlock
  /\ head' = head + 1
  /\ \/ events' = events
     \/ events' = events \cup {head + 1}
  /\ UNCHANGED <<ctx, watchVars, channelVars, indexVars, faultVars>>

Cancel ==
  /\ ctx = "live"
  /\ ctx' = "done"
  /\ UNCHANGED <<chainVars, watchVars, channelVars, indexVars, faultVars>>

-----------------------------------------------------------------------------
(* watchContract *)

Start ==
  /\ watchPc = "new"
  /\ watchPc' = "loop"
  /\ UNCHANGED <<chainVars, ctx, fromBlock, highest, page, nextBlock, channelVars,
                 indexVars, faultVars>>

\* Mutant: the watcher leaves its channel open.
StopWithoutClose ==
  /\ watchPc = "loop" /\ ctx = "done"
  /\ watchPc' = "stopped"
  /\ UNCHANGED <<chainVars, ctx, fromBlock, highest, page, nextBlock, channelVars,
                 indexVars, faultVars>>

\* The context is looked at once per page; leaving the loop closes the channel.
StopWatcher ==
  /\ watchPc = "loop" /\ ctx = "done"
  /\ watchPc' = "stopped"
  /\ closed' = TRUE
  /\ UNCHANGED <<chainVars, ctx, fromBlock, highest, page, nextBlock, channel,
                 indexVars, faultVars>>

\* getNextPage: an endpoint may be a few blocks behind, which counts as a fault.
BlockNumber ==
  /\ watchPc = "loop" /\ ctx = "live"
  /\ \/ highest' = head /\ UNCHANGED <<faults, lagged>>
     \/ /\ \E h \in Block : head - MaxLag <= h /\ h < head /\ highest' = h
        /\ faults < MaxFaults /\ faults' = faults + 1
        /\ lagged' = TRUE
  /\ watchPc' = "filter"
  /\ UNCHANGED <<chainVars, ctx, fromBlock, page, nextBlock, channelVars, indexVars, short>>

\* Mutant: the next page starts after BACKFILL_BLOCKS blocks more.
LastBlockSkipping == IF highest - fromBlock + 1 > BACKFILL_BLOCKS
                     THEN fromBlock + BACKFILL_BLOCKS ELSE highest + 1

\* Last block of the page that starts at fromBlock.
LastBlock == IF highest - fromBlock + 1 > BACKFILL_BLOCKS
             THEN fromBlock + BACKFILL_BLOCKS ELSE highest

\* Mutant: the next page starts with the last block of this one.
FilterLogsOverlapping ==
  /\ watchPc = "filter" /\ ctx = "live"
  /\ page' = {b \in events : fromBlock <= b /\ b <= LastBlock}
  /\ nextBlock' = LastBlock
  /\ watchPc' = "send"
  /\ UNCHANGED <<chainVars, ctx, fromBlock, highest, channelVars, indexVars, faultVars>>

\* The events of the page, to be sent in block order.  For an empty range some
\* endpoints answer so and some return an error (PageFails).
FilterLogs ==
  /\ watchPc = "filter" /\ ctx = "live"
  /\ page' = {b \in events : fromBlock <= b /\ b <= LastBlock}
  /\ nextBlock' = LastBlock + 1
  /\ watchPc' = "send"
  /\ UNCHANGED <<chainVars, ctx, fromBlock, highest, channelVars, indexVars, faultVars>>

\* FilterLogs is answered by an endpoint that is behind the one that told the block
\* number, with the events of the blocks it has.
FilterLogsBehind ==
  /\ watchPc = "filter" /\ ctx = "live"
  /\ faults < MaxFaults /\ faults' = faults + 1 /\ short' = short + 1
  /\ \E h \in Block : /\ head - MaxLag <= h /\ h < LastBlock
                     /\ page' = {b \in events : fromBlock <= b /\ b <= h}
  /\ nextBlock' = LastBlock + 1
  /\ watchPc' = "send"
  /\ UNCHANGED <<chainVars, ctx, fromBlock, highest, channelVars, indexVars, lagged>>

\* A call fails, of itself or because the context is cancelled; fromBlock is kept
\* and the loop goes on after a pause.
PageFails ==
  /\ watchPc \in {"loop", "filter"}
  /\ \/ ctx = "done" /\ watchPc = "filter" /\ UNCHANGED faults
     \/ fromBlock > highest /\ watchPc = "filter" /\ UNCHANGED faults
     \/ ctx = "live" /\ faults < MaxFaults /\ faults' = faults + 1
  /\ watchPc' = "loop"
  /\ UNCHANGED <<chainVars, ctx, fromBlock, highest, page, nextBlock, channelVars, indexVars,
                 lagged, short>>

\* The send blocks while the buffer is full, whatever the context says.
SendEvent ==
  /\ watchPc = "send" /\ Len(channel) < Capacity
  /\ \E b \in page : /\ \A q \in page : b <= q
                     /\ channel' = Append(channel, b)
                     /\ page' = page \ {b}
  /\ UNCHANGED <<chainVars, ctx, watchPc, fromBlock, highest, nextBlock, closed,
                 indexVars, faultVars>>

NextPage ==
  /\ watchPc = "send" /\ page = {}
  /\ fromBlock' = nextBlock
  /\ watchPc' = "loop"
  /\ UNCHANGED <<chainVars, ctx, highest, page, nextBlock, channelVars, indexVars, faultVars>>

Watcher == \/ StopWatcher \/ BlockNumber \/ FilterLogs \/ FilterLogsBehind \/ PageFails
           \/ SendEvent \/ NextPage

-----------------------------------------------------------------------------
(* indexLogs *)

Receive ==
  /\ indexPc = "receive" /\ channel # <<>>
  /\ event' = Head(channel)
  /\ channel' = Tail(channel)
  /\ indexPc' = "store"
  /\ UNCHANGED <<chainVars, ctx, watchVars, closed, handled, faultVars>>

\* Mutant: an error that should be retried ends the work on the event.
RetryGivesUp ==
  /\ indexPc = "store" /\ "retry" \in Outcomes
  /\ indexPc' = "receive"
  /\ UNCHANGED <<chainVars, ctx, watchVars, channelVars, event, handled, faultVars>>

\* A retryable error: the same event is tried again after a pause.
Retry ==
  /\ indexPc = "store" /\ "retry" \in Outcomes
  /\ UNCHANGED vars

\* The event is stored, or given up on an error that is not retryable.
StoreLog ==
  /\ indexPc = "store" /\ Outcomes \cap {"ok", "drop"} # {}
  /\ handled' = Append(handled, event)
  /\ indexPc' = "receive"
  /\ UNCHANGED <<chainVars, ctx, watchVars, channelVars, event, faultVars>>

\* Mutant: the loop ends as soon as the channel is closed.
FinishUndrained ==
  /\ indexPc = "receive" /\ closed
  /\ indexPc' = "finished"
  /\ UNCHANGED <<chainVars, ctx, watchVars, channelVars, event, handled, faultVars>>

\* The range over the channel ends when it is closed and drained.
FinishIndexing ==
  /\ indexPc = "receive" /\ channel = <<>> /\ closed
  /\ indexPc' = "finished"
  /\ UNCHANGED <<chainVars, ctx, watchVars, channelVars, event, handled, faultVars>>

IndexLogs == Receive \/ Retry \/ StoreLog \/ FinishIndexing

-----------------------------------------------------------------------------
Next == NewBlock \/ Cancel \/ Start \/ Watcher \/ IndexLogs

Spec == Init /\ [][Next]_vars

\* Both goroutines run when they can.  A storer that may answer other than "retry"
\* eventually does.
Fairness ==
  /\ WF_vars(StopWatcher) /\ WF_vars(BlockNumber) /\ WF_vars(FilterLogs \/ PageFails)
  /\ WF_vars(SendEvent) /\ WF_vars(NextPage)
  /\ WF_vars(Receive) /\ WF_vars(StoreLog) /\ WF_vars(FinishIndexing)

FairSpec == Spec /\ WF_vars(Start) /\ Fairness

-----------------------------------------------------------------------------
(* Properties *)

\* Type invariant of the streamer, its channel and indexLogs.
TypeOK ==
  /\ head \in Block /\ events \subseteq 1 .. head
  /\ ctx \in {"live", "done"}
  /\ watchPc \in {"new", "loop", "filter", "send", "stopped"}
  /\ {fromBlock, nextBlock} \subseteq Nat /\ highest \in Block
  /\ page \subseteq Block
  /\ channel \in Seq(Block) /\ Len(channel) <= Capacity /\ closed \in BOOLEAN
  /\ indexPc \in {"receive", "store", "finished"} /\ event \in Block
  /\ handled \in Seq(Block)
  /\ faults \in 0 .. MaxFaults /\ lagged \in BOOLEAN /\ short \in Nat

\* Events that have left the watcher.
Storing == IF indexPc = "store" THEN {event} ELSE {}
Sent    == Range(handled) \cup Storing \cup Range(channel)

\* The stream is "a complete history of events on a chain" (rpcLogStreamer.go:69): an
\* event behind fromBlock has been handled, is being stored, or waits in the channel.
CompleteHistory == \A b \in events : FirstBlock <= b /\ b < fromBlock => b \in Sent

\* The history is complete whatever calls fail and however far the endpoint lags when
\* a page is cut (rpcLogStreamer.go:139), unless the call for its events (:157) is
\* answered by an endpoint that lags still more.
NoGap == short = 0 => CompleteHistory

\* Events before block n that are not in the channel or behind it, or on the way there.
Lost(n) == {b \in events : FirstBlock <= b /\ b < n} \ (Sent \cup page)

\* Every such answer loses at most the events of the blocks by which the endpoint is
\* behind; lagging block numbers and failing calls lose none.
LossIsBounded == Cardinality(Lost(fromBlock)) <= MaxLag * short

\* A cancellation cuts off no event that was fetched: the watcher stops between two
\* pages (rpcLogStreamer.go:105-108) and indexLogs drains the closed channel
\* (indexer.go:68), so when it returns, every event behind fromBlock is handled.
CancelDrains ==
  indexPc = "finished" =>
    /\ page = {} /\ channel = <<>>
    /\ short = 0 => \A b \in events : FirstBlock <= b /\ b < fromBlock => b \in Range(handled)

Increasing(s) == \A i, j \in DOMAIN s : i < j => s[i] < s[j]

\* As long as no block number lags, events are handled in block order, each once:
\* pages neither overlap nor overtake each other (rpcLogStreamer.go:164).
HandledInOrder == ~lagged => Increasing(handled)

\* While the context lives and no page is answered short, every event of the contract
\* is eventually handled.
EventsAreHandled ==
  [](ctx = "live" /\ short = 0) =>
    \A b \in Block : b \in events /\ FirstBlock <= b ~> b \in Range(handled)

\* Cancelling the context ends indexLogs, after the events already fetched: "the
\* eventChannel will be closed when the parent context is canceled" (indexer.go:67).
CancelEndsIndexing == ctx = "done" ~> indexPc = "finished"

\* indexLogs retries without a look at the context (indexer.go:70-77): as long as the
\* storer answers with retryable errors alone, the event it works on is the last one it
\* takes, cancelled or not.  This is why CancelEndsIndexing needs another answer.
RetriesForGood ==
  [][Outcomes \cap {"ok", "drop"} = {} /\ indexPc = "store"
       => indexPc' = "store" /\ event' = event]_vars

\* The watcher and indexLogs never wait for each other in vain: a send that finds the
\* buffer full (rpcLogStreamer.go:126) has a reader that has not left, and a reader that
\* finds it empty (indexer.go:68) has a watcher that has not stopped, or a closed channel.
NoStall ==
  /\ watchPc = "send" /\ ~(Len(channel) < Capacity) =>
       indexPc = "store" \/ (indexPc = "receive" /\ channel # <<>>)
  /\ indexPc = "receive" /\ channel = <<>> => watchPc # "stopped" \/ closed

-----------------------------------------------------------------------------
(* The inductive invariant behind NoGap and HandledInOrder *)

\* The page being sent holds what has not been sent of the blocks before nextBlock,
\* and no block that is yet to come has been passed.
PageInv ==
  /\ page \cup Sent \subseteq events
  /\ watchPc # "send" => page = {}
  /\ watchPc = "filter" => highest <= head
  /\ fromBlock <= head + 1 \/ fromBlock <= FirstBlock
  /\ watchPc = "send" =>
       /\ nextBlock <= head + 1
       /\ short = 0 =>
            \A b \in events : FirstBlock <= b /\ b < nextBlock => b \in Sent \cup page

\* What was sent, what is being sent and what will be sent follow each other.
OrderInv ==
  /\ Increasing(handled) /\ Increasing(channel)
  /\ \A h \in Range(handled) : \A x \in Storing \cup Range(channel) \cup page : h < x
  /\ \A s \in Storing : \A x \in Range(channel) \cup page : s < x
  /\ \A c \in Range(channel), x \in page : c < x
  /\ \A x \in Sent : IF watchPc = "send" THEN x < nextBlock ELSE x < fromBlock
  /\ watchPc = "filter" => \A x \in Sent : x <= highest
  /\ \A x \in page : x < nextBlock

\* What is lost of the pages so far, and with the page being sent.
LossInv ==
  /\ LossIsBounded
  /\ watchPc = "send" => Cardinality(Lost(nextBlock)) <= MaxLag * short

\* The watcher closes the channel when it stops and at no other time, and only a closed and
\* empty channel ends indexLogs.
DrainInv ==
  /\ closed <=> watchPc = "stopped"
  /\ indexPc = "finished" => closed /\ channel = <<>>

\* The inductive invariant of the streamer and its consumer.
IInv ==
  /\ TypeOK /\ PageInv /\ NoGap /\ LossInv
  /\ ~lagged => OrderInv

=============================================================================
