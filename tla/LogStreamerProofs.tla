-------------------------- MODULE LogStreamerProofs --------------------------
(* Theorems about LogStreamer and StartIndexer, for every value of their constants. *)
EXTENDS StartIndexer, FiniteSetTheorems, TLAPS

\* The prover of every leaf that names no other, and its time limit in seconds.
USE ZenonT(60)

\* Sending adds the event at the end of the channel.
LEMMA RangeAppend ==
  ASSUME NEW S, NEW s \in Seq(S), NEW x \in S
  PROVE  /\ Append(s, x) \in Seq(S)
         /\ Range(Append(s, x)) = Range(s) \cup {x}
<1>1. /\ Append(s, x) \in Seq(S) /\ DOMAIN Append(s, x) = 1 .. Len(s) + 1
      /\ \A i \in 1 .. Len(s) : Append(s, x)[i] = s[i]
      /\ Append(s, x)[Len(s) + 1] = x
      /\ Len(s) \in Nat /\ DOMAIN s = 1 .. Len(s)
  BY SMTT(60)
<1>2. DOMAIN Append(s, x) = DOMAIN s \cup {Len(s) + 1}
  BY SMTT(60), <1>1
<1> QED
  BY SMTT(60), <1>1, <1>2 DEF Range

\* Receiving takes the first event out of the channel.
LEMMA RangeTail ==
  ASSUME NEW S, NEW s \in Seq(S), s # <<>>
  PROVE  /\ Tail(s) \in Seq(S) /\ Head(s) \in S
         /\ Range(s) = {Head(s)} \cup Range(Tail(s))
<1>1. /\ Tail(s) \in Seq(S) /\ Head(s) = s[1] /\ Len(s) \in Nat /\ Len(s) >= 1
      /\ DOMAIN s = 1 .. Len(s) /\ DOMAIN Tail(s) = 1 .. Len(s) - 1
      /\ \A i \in 1 .. Len(s) - 1 : Tail(s)[i] = s[i + 1]
  BY SMTT(60)
<1>2. \A i \in DOMAIN s : i = 1 \/ (i - 1 \in DOMAIN Tail(s) /\ s[i] = Tail(s)[i - 1])
  BY SMTT(60), <1>1
<1>3. Head(s) \in S /\ Head(s) \in Range(s)
  BY SMTT(60), <1>1 DEF Range
<1>4. Range(Tail(s)) \subseteq Range(s)
  BY SMTT(60), <1>1 DEF Range
<1>5. Range(s) \subseteq {Head(s)} \cup Range(Tail(s))
  <2> SUFFICES ASSUME NEW i \in DOMAIN s PROVE s[i] \in {Head(s)} \cup Range(Tail(s))
    BY DEF Range
  <2>1. CASE i = 1
    BY <1>1, <2>1
  <2>2. CASE i - 1 \in DOMAIN Tail(s) /\ s[i] = Tail(s)[i - 1]
    BY <2>2 DEF Range
  <2> QED
    BY <1>2, <2>1, <2>2
<1> QED
  BY <1>1, <1>3, <1>4, <1>5

\* A sequence of blocks stays increasing when a larger block is appended.
LEMMA IncreasingAppend ==
  ASSUME NEW s \in Seq(Block), NEW x \in Block, Increasing(s), \A y \in Range(s) : y < x
  PROVE  Increasing(Append(s, x))
<1>1. /\ DOMAIN Append(s, x) = 1 .. Len(s) + 1
      /\ \A i \in 1 .. Len(s) : Append(s, x)[i] = s[i]
      /\ Append(s, x)[Len(s) + 1] = x
      /\ Len(s) \in Nat /\ DOMAIN s = 1 .. Len(s)
  BY SMTT(60)
<1>2. \A i \in DOMAIN s : s[i] < x
  BY DEF Range
<1> QED
  BY SMTT(60), <1>1, <1>2 DEF Increasing

\* Receiving leaves the rest increasing and above what was received.
LEMMA IncreasingTail ==
  ASSUME NEW s \in Seq(Block), s # <<>>, Increasing(s)
  PROVE  Increasing(Tail(s)) /\ \A y \in Range(Tail(s)) : Head(s) < y
<1>1. /\ Head(s) = s[1] /\ Len(s) \in Nat /\ Len(s) >= 1
      /\ DOMAIN s = 1 .. Len(s) /\ DOMAIN Tail(s) = 1 .. Len(s) - 1
      /\ \A i \in 1 .. Len(s) - 1 : Tail(s)[i] = s[i + 1]
  BY SMTT(60)
<1> QED
  BY SMTT(60), <1>1 DEF Increasing, Range

-----------------------------------------------------------------------------
(* Steps *)

\* The events that have left the watcher change only by a send; indexLogs moves
\* them on (indexer.go:68-84).
LEMMA SentStep ==
  ASSUME TypeOK, [Next]_vars
  PROVE  IF SendEvent THEN \E b \in page : /\ \A q \in page : b <= q
                                          /\ channel' = Append(channel, b)
                                          /\ page' = page \ {b}
                                          /\ Sent' = Sent \cup {b}
                      ELSE Sent' = Sent
<1>t. channel \in Seq(Block) /\ handled \in Seq(Block) /\ event \in Block /\ page \subseteq Block
  BY DEF TypeOK
<1>0. ASSUME UNCHANGED <<channel, indexVars>> PROVE Sent' = Sent
  BY <1>0 DEF Sent, Storing, indexVars
<1>1. CASE SendEvent
  <2>1. PICK b \in page : /\ \A q \in page : b <= q
                         /\ channel' = Append(channel, b)
                         /\ page' = page \ {b}
    BY <1>1 DEF SendEvent
  <2>2. b \in Block /\ Range(channel') = Range(channel) \cup {b}
    BY SMTT(60), <1>t, <2>1, RangeAppend
  <2> QED
    BY <1>1, <2>1, <2>2 DEF SendEvent, Sent, Storing, indexVars
<1>2. CASE Receive
  <2>1. Range(channel) = {event'} \cup Range(channel')
    BY <1>t, <1>2, RangeTail DEF Receive
  <2> QED
    BY <1>2, <2>1 DEF Receive, SendEvent, Sent, Storing, watchVars, indexVars
<1>3. CASE StoreLog
  <2>1. Range(handled') = Range(handled) \cup {event}
    BY SMTT(60), <1>t, <1>3, RangeAppend DEF StoreLog
  <2> QED
    BY <1>3, <2>1 DEF StoreLog, SendEvent, Sent, Storing, watchVars, indexVars, channelVars
<1>4. CASE FinishIndexing
  BY <1>4 DEF FinishIndexing, SendEvent, Sent, Storing, indexVars, channelVars
<1>5. CASE NewBlock \/ Cancel \/ Start
  BY <1>0, <1>1, <1>5 DEF NewBlock, Cancel, Start, channelVars
<1>6. CASE StopWatcher \/ BlockNumber \/ PageFails \/ NextPage
  BY <1>0, <1>1, <1>6 DEF StopWatcher, BlockNumber, PageFails, NextPage, channelVars
<1>8. CASE FilterLogs \/ FilterLogsBehind
  BY <1>0, <1>1, <1>8 DEF FilterLogs, FilterLogsBehind, channelVars
<1>7. CASE Retry \/ UNCHANGED vars
  BY <1>0, <1>1, <1>7 DEF Retry, vars, channelVars
<1> QED
  BY <1>1, <1>2, <1>3, <1>4, <1>5, <1>6, <1>7, <1>8 DEF Next, Watcher, IndexLogs

\* Where a page ends: not beyond the head the endpoint reported.
LEMMA LastBlockFacts ==
  ASSUME TypeOK
  PROVE  LastBlock \in Int /\ LastBlock <= highest /\ LastBlock + 1 \in Nat
<1>1. fromBlock \in Nat /\ highest \in 0 .. MaxBlock
  BY DEF TypeOK, Block
<1>2. MaxBlock \in Nat /\ BACKFILL_BLOCKS \in Nat
  BY StreamerAssumption
<1> QED
  BY SMTT(60), <1>1, <1>2 DEF LastBlock

\* Every step of the watcher and of indexLogs preserves the types.
LEMMA TypeStep ==
  ASSUME IInv, [Next]_vars
  PROVE  TypeOK'
<1>t. TypeOK
  BY DEF IInv
<1>c. MaxBlock \in Nat /\ MaxFaults \in Nat
  BY StreamerAssumption
<1>f. head \in Block /\ events \subseteq 1 .. head /\ highest \in Block /\ faults \in 0 .. MaxFaults
      /\ fromBlock \in Nat /\ nextBlock \in Nat /\ short \in Nat
  BY <1>t DEF TypeOK
<1>1. CASE NewBlock
  <2>a. head \in 0 .. MaxBlock /\ head < MaxBlock /\ head' = head + 1
        /\ events' \subseteq events \cup {head + 1}
    BY <1>f, <1>1 DEF NewBlock, Block
  <2>b. head + 1 \in 0 .. MaxBlock /\ 1 .. head \cup {head + 1} \subseteq 1 .. head + 1
    BY SMTT(60), <1>c, <2>a
  <2>1. head' \in Block /\ events' \subseteq 1 .. head'
    BY <1>f, <2>a, <2>b DEF Block
  <2> QED
    BY <1>t, <1>1, <2>1 DEF TypeOK, NewBlock, watchVars, channelVars, indexVars, faultVars
<1>a. CASE Cancel \/ Start \/ StopWatcher
  BY <1>t, <1>a DEF TypeOK, Cancel, Start, StopWatcher, chainVars, watchVars,
                    channelVars, indexVars, faultVars
<1>2. CASE BlockNumber \/ PageFails
  <2>1. highest' \in Block /\ faults' \in 0 .. MaxFaults
    BY SMTT(60), <1>c, <1>f, <1>2 DEF BlockNumber, PageFails
  <2> QED
    BY <1>t, <1>2, <2>1 DEF TypeOK, BlockNumber, PageFails, chainVars, channelVars, indexVars
<1>b. CASE NextPage
  BY <1>t, <1>b DEF TypeOK, NextPage, chainVars, channelVars, indexVars, faultVars
<1>3. CASE FilterLogs \/ FilterLogsBehind
  <2>a. events \subseteq Block
    BY SMTT(60), <1>c, <1>f DEF Block
  <2>b. page' \subseteq events /\ faults' \in 0 .. MaxFaults /\ short' \in Nat
    BY SMTT(60), <1>c, <1>f, <1>3 DEF FilterLogs, FilterLogsBehind, faultVars
  <2>1. page' \subseteq Block
    BY <2>a, <2>b
  <2> QED
    BY <1>t, <1>3, <2>1, <2>b, LastBlockFacts
       DEF TypeOK, FilterLogs, FilterLogsBehind, chainVars, channelVars, indexVars, faultVars
<1>4. CASE SendEvent
  <2>1. channel' \in Seq(Block) /\ Len(channel') <= Capacity /\ page' \subseteq Block
    <3>1. channel \in Seq(Block) /\ page \subseteq Block /\ Capacity \in Nat
      BY <1>t, StreamerAssumption DEF TypeOK
    <3>2. PICK b \in page : channel' = Append(channel, b) /\ page' = page \ {b} /\ Len(channel) < Capacity
      BY <1>4 DEF SendEvent
    <3>3. b \in Block /\ channel' \in Seq(Block) /\ Len(channel') = Len(channel) + 1 /\ Len(channel) \in Nat
      BY SMTT(60), <3>1, <3>2
    <3> QED
      BY SMTT(60), <3>1, <3>2, <3>3
  <2> QED
    BY <1>t, <1>4, <2>1 DEF TypeOK, SendEvent, chainVars, indexVars, faultVars
<1>5. CASE Receive
  <2>1. channel' \in Seq(Block) /\ Len(channel') <= Capacity /\ event' \in Block
    <3>1. channel \in Seq(Block) /\ channel # <<>> /\ Len(channel) <= Capacity
      BY <1>t, <1>5 DEF Receive, TypeOK
    <3>2. Tail(channel) \in Seq(Block) /\ Head(channel) \in Block /\ Len(Tail(channel)) = Len(channel) - 1
      BY SMTT(60), <3>1, RangeTail
    <3>3. Len(channel) \in Nat /\ Capacity \in Nat
      BY SMTT(60), <3>1, StreamerAssumption
    <3>4. Len(Tail(channel)) <= Capacity
      BY SMTT(60), <3>1, <3>2, <3>3
    <3> QED
      BY <1>5, <3>2, <3>4 DEF Receive
  <2> QED
    BY <1>t, <1>5, <2>1 DEF TypeOK, Receive, chainVars, watchVars, faultVars
<1>6. CASE StoreLog \/ FinishIndexing
  <2>1. handled' \in Seq(Block)
    BY SMTT(60), <1>t, <1>6 DEF TypeOK, StoreLog, FinishIndexing
  <2> QED
    BY <1>t, <1>6, <2>1 DEF TypeOK, StoreLog, FinishIndexing, chainVars, watchVars, channelVars, faultVars
<1>7. CASE Retry \/ UNCHANGED vars
  BY <1>t, <1>7 DEF TypeOK, Retry, vars, chainVars, watchVars, channelVars, indexVars, faultVars
<1> QED
  BY <1>1, <1>a, <1>2, <1>b, <1>3, <1>4, <1>5, <1>6, <1>7 DEF Next, Watcher, IndexLogs

\* The watcher loses no event: a page ends where the next begins, and neither
\* goes beyond the head of the chain (rpcLogStreamer.go:135-167).
LEMMA PageStep ==
  ASSUME IInv, [Next]_vars
  PROVE  PageInv' /\ NoGap'
<1>t. TypeOK /\ PageInv /\ NoGap
  BY DEF IInv
<1>n. head \in Nat /\ fromBlock \in Nat /\ nextBlock \in Nat /\ highest \in Nat /\ FirstBlock \in Nat
  BY SMTT(60), <1>t, StreamerAssumption DEF TypeOK, Block
<1>e. events \subseteq 1 .. head
  BY <1>t DEF TypeOK
<1>s. ~SendEvent => Sent' = Sent
  BY <1>t, SentStep
<1>0. ASSUME UNCHANGED <<chainVars, watchVars, short>>, Sent' = Sent PROVE PageInv' /\ NoGap'
  BY <1>0, <1>t DEF chainVars, watchVars, PageInv, NoGap, CompleteHistory
<1>1. CASE NewBlock
  <2>1. /\ UNCHANGED <<watchVars, short>> /\ head' = head + 1 /\ events \subseteq events'
        /\ events' \subseteq events \cup {head + 1}
    BY <1>1 DEF NewBlock, faultVars
  <2>2. Sent' = Sent
    <3>1. ~SendEvent
      BY SMTT(60), <1>1, <1>n DEF NewBlock, SendEvent, chainVars
    <3> QED
      BY <1>s, <3>1
  <2>3. fromBlock <= head + 1 \/ fromBlock <= FirstBlock
    BY <1>t DEF PageInv
  <2>4. NoGap'
    <3> SUFFICES ASSUME short = 0, NEW b \in events', FirstBlock <= b, b < fromBlock
                 PROVE  b \in Sent
      BY <2>1, <2>2 DEF NoGap, CompleteHistory, watchVars
    <3>1. b # head + 1
      BY SMTT(60), <1>n, <2>3
    <3> QED
      BY <1>t, <2>1, <3>1 DEF NoGap, CompleteHistory
  <2>5. ASSUME watchPc = "send", short = 0, NEW b \in events', FirstBlock <= b, b < nextBlock
        PROVE  b \in Sent \cup page
    <3>1. nextBlock <= head + 1
      BY <1>t, <2>5 DEF PageInv
    <3>2. b # head + 1
      BY SMTT(60), <1>n, <2>5, <3>1
    <3> QED
      BY <1>t, <2>1, <2>5, <3>2 DEF PageInv
  <2>6. (watchPc = "filter" => highest <= head + 1) /\ (watchPc = "send" => nextBlock <= head + 2)
        /\ (fromBlock <= head + 2 \/ fromBlock <= FirstBlock)
    BY SMTT(60), <1>t, <1>n DEF PageInv
  <2>7. page \cup Sent \subseteq events' /\ (watchPc # "send" => page = {})
    BY <1>t, <2>1 DEF PageInv
  <2>8. head' + 1 = head + 2
    BY SMTT(60), <1>n, <2>1
  <2> QED
    BY <2>1, <2>2, <2>4, <2>5, <2>6, <2>7, <2>8 DEF PageInv, watchVars
<1>2. CASE Cancel \/ Receive \/ Retry \/ StoreLog \/ FinishIndexing \/ UNCHANGED vars
  <2>1. UNCHANGED <<chainVars, watchVars, short>>
    BY <1>2 DEF Cancel, Receive, Retry, StoreLog, FinishIndexing, vars, faultVars
  <2>2. ~SendEvent \/ Sent' = Sent
    BY <1>t, <2>1 DEF SendEvent, watchVars
  <2> QED
    BY <1>0, <1>s, <2>1, <2>2
<1>3. CASE Start \/ StopWatcher \/ PageFails
  BY <1>3, <1>s, <1>t DEF Start, StopWatcher, PageFails, SendEvent, chainVars, faultVars,
       PageInv, NoGap, CompleteHistory
<1>4. CASE BlockNumber
  <2>1. highest' <= head
    BY SMTT(60), <1>4, <1>n DEF BlockNumber, Block
  <2> QED
    BY <1>4, <1>s, <1>t, <2>1 DEF BlockNumber, SendEvent, chainVars, faultVars,
       PageInv, NoGap, CompleteHistory
<1>5. CASE FilterLogs
  <2>1. highest <= head /\ page = {}
    BY <1>5, <1>t DEF FilterLogs, PageInv
  <2>2. LastBlock \in Int /\ nextBlock' = LastBlock + 1 /\ LastBlock + 1 <= head + 1
    BY SMTT(60), <1>5, <1>n, <1>t, <2>1, LastBlockFacts DEF FilterLogs
  <2>3. Sent' = Sent /\ UNCHANGED <<head, events, fromBlock, short>>
    BY <1>5, <1>s DEF FilterLogs, SendEvent, chainVars, faultVars
  <2>4. ASSUME short = 0, NEW b \in events, FirstBlock <= b, b < LastBlock + 1
        PROVE  b \in Sent \cup page'
    <3>1. b \in Int
      BY SMTT(60), <1>e
    <3>2. CASE b < fromBlock
      BY <1>t, <2>4, <3>2 DEF NoGap, CompleteHistory
    <3>3. CASE fromBlock <= b /\ b <= LastBlock
      BY <1>5, <3>3 DEF FilterLogs
    <3> QED
      BY SMTT(60), <1>n, <2>2, <2>4, <3>1, <3>2, <3>3
  <2>5. page' \subseteq events /\ watchPc' = "send"
    BY <1>5 DEF FilterLogs
  <2> QED
    BY <1>t, <2>2, <2>3, <2>4, <2>5 DEF PageInv, NoGap, CompleteHistory
<1>6. CASE SendEvent
  <2>1. PICK b \in page : page' = page \ {b} /\ Sent' = Sent \cup {b}
    BY <1>6, <1>t, SentStep
  <2> QED
    BY <1>6, <1>t, <2>1 DEF SendEvent, chainVars, faultVars,
       PageInv, NoGap, CompleteHistory
<1>7. CASE NextPage
  BY <1>7, <1>s, <1>t DEF NextPage, SendEvent, chainVars, faultVars,
       PageInv, NoGap, CompleteHistory
<1>8. CASE FilterLogsBehind
  <2>1. highest <= head /\ short' # 0 /\ watchPc' = "send" /\ page' \subseteq events
    BY SMTT(60), <1>8, <1>t DEF FilterLogsBehind, PageInv, TypeOK
  <2>2. nextBlock' = LastBlock + 1 /\ LastBlock + 1 <= head + 1
    BY SMTT(60), <1>8, <1>n, <1>t, <2>1, LastBlockFacts DEF FilterLogsBehind
  <2>3. Sent' = Sent /\ UNCHANGED <<head, events, fromBlock>>
    BY <1>8, <1>s DEF FilterLogsBehind, SendEvent, chainVars
  <2> QED
    BY <1>t, <2>1, <2>2, <2>3 DEF PageInv, NoGap
<1> QED
  BY <1>1, <1>2, <1>3, <1>4, <1>5, <1>6, <1>7, <1>8 DEF Next, Watcher, IndexLogs

\* What a page loses: nothing, unless the answer to its call is short, and then at most
\* the blocks by which the endpoint is behind (rpcLogStreamer.go:157).
LEMMA LossStep ==
  ASSUME IInv, [Next]_vars
  PROVE  LossInv'
<1>t. TypeOK /\ PageInv /\ LossInv
  BY DEF IInv
<1>n. /\ head \in Nat /\ fromBlock \in Nat /\ nextBlock \in Nat /\ highest \in Nat
      /\ FirstBlock \in Nat /\ MaxLag \in Nat /\ short \in Nat
      /\ MaxLag * short \in Nat /\ MaxLag * (short + 1) = MaxLag * short + MaxLag
  <2>1. /\ head \in Nat /\ fromBlock \in Nat /\ nextBlock \in Nat /\ highest \in Nat
        /\ FirstBlock \in Nat /\ MaxLag \in Nat /\ short \in Nat
    BY SMTT(60), <1>t, StreamerAssumption DEF TypeOK, Block
  <2>2. \A m, n \in Nat : m * n \in Nat /\ m * (n + 1) = m * n + m
    BY SMTT(60)
  <2> QED
    BY <2>1, <2>2
<1>e. events \subseteq 1 .. head
  BY <1>t DEF TypeOK
<1>s. ~SendEvent => Sent' = Sent
  BY <1>t, SentStep
<1>f. \A n : IsFiniteSet(Lost(n)) /\ Cardinality(Lost(n)) \in Nat
  <2> SUFFICES ASSUME NEW n PROVE IsFiniteSet(Lost(n)) /\ Cardinality(Lost(n)) \in Nat
    OBVIOUS
  <2>1. Lost(n) \in SUBSET (1 .. head)
    BY <1>e DEF Lost
  <2>2. IsFiniteSet(1 .. head)
    BY SMTT(60), <1>n, FS_Interval
  <2>3. IsFiniteSet(Lost(n))
    BY <2>1, <2>2, FS_Subset
  <2> QED
    BY <2>3, FS_CardinalityType
<1>m. ASSUME NEW n, NEW A \in SUBSET Lost(n), Cardinality(Lost(n)) <= MaxLag * short
      PROVE  Cardinality(A) <= MaxLag * short
  <2>1. IsFiniteSet(A) /\ Cardinality(A) <= Cardinality(Lost(n))
    BY <1>f, FS_Subset
  <2>2. Cardinality(A) \in Nat
    BY <2>1, FS_CardinalityType
  <2> QED
    BY SMTT(60), <1>f, <1>m, <1>n, <2>1, <2>2
<1>1. CASE NewBlock
  <2>1. /\ UNCHANGED <<watchVars, short>> /\ events' \subseteq events \cup {head + 1}
    BY <1>1 DEF NewBlock, faultVars
  <2>2. Sent' = Sent
    <3>1. ~SendEvent
      BY SMTT(60), <1>1, <1>n DEF NewBlock, SendEvent, chainVars
    <3> QED
      BY <1>s, <3>1
  <2>3. fromBlock <= head + 1 \/ fromBlock <= FirstBlock
    BY <1>t DEF PageInv
  <2>4. Lost(fromBlock)' \subseteq Lost(fromBlock)
    BY SMTT(60), <1>n, <2>1, <2>2, <2>3 DEF Lost, watchVars
  <2>5. watchPc = "send" => Lost(nextBlock)' \subseteq Lost(nextBlock)
    <3>1. watchPc = "send" => nextBlock <= head + 1
      BY <1>t DEF PageInv
    <3> QED
      BY SMTT(60), <1>n, <2>1, <2>2, <3>1 DEF Lost, watchVars
  <2> QED
    BY <1>m, <1>t, <2>1, <2>4, <2>5 DEF LossInv, LossIsBounded, watchVars
<1>2. CASE Cancel \/ Receive \/ Retry \/ StoreLog \/ FinishIndexing \/ UNCHANGED vars
  <2>1. UNCHANGED <<chainVars, watchVars, short>>
    BY <1>2 DEF Cancel, Receive, Retry, StoreLog, FinishIndexing, vars, faultVars
  <2>2. Sent' = Sent
    BY <1>s, <1>t, <2>1 DEF SendEvent, watchVars
  <2> QED
    BY <1>t, <2>1, <2>2 DEF LossInv, LossIsBounded, Lost, chainVars, watchVars
<1>3. CASE Start \/ StopWatcher \/ PageFails \/ BlockNumber
  <2>1. UNCHANGED <<events, fromBlock, page, short>> /\ watchPc' # "send" /\ Sent' = Sent
    BY <1>3, <1>s, <1>t DEF Start, StopWatcher, PageFails, BlockNumber, SendEvent, chainVars,
                            faultVars, TypeOK
  <2> QED
    BY <1>t, <2>1 DEF LossInv, LossIsBounded, Lost
<1>4. CASE FilterLogs
  <2>1. /\ Sent' = Sent /\ UNCHANGED <<events, fromBlock, short>> /\ page = {}
        /\ page' = {b \in events : fromBlock <= b /\ b <= LastBlock}
        /\ nextBlock' = LastBlock + 1 /\ LastBlock \in Int
    BY <1>4, <1>s, <1>t, LastBlockFacts DEF FilterLogs, SendEvent, chainVars, faultVars, PageInv
  <2>2. Lost(fromBlock)' \subseteq Lost(fromBlock)
    BY <2>1 DEF Lost
  <2>3. Lost(nextBlock)' \subseteq Lost(fromBlock)
    <3> SUFFICES ASSUME NEW b \in Lost(nextBlock)' PROVE b \in Lost(fromBlock)
      OBVIOUS
    <3>1. /\ b \in events /\ FirstBlock <= b /\ b < LastBlock + 1
          /\ b \notin Sent /\ b \notin page'
      BY <2>1 DEF Lost
    <3>2. b \in 1 .. head
      BY <1>e, <3>1
    <3>3. b < fromBlock
      BY SMTT(60), <1>n, <2>1, <3>1, <3>2
    <3> QED
      BY <2>1, <3>1, <3>3 DEF Lost
  <2> QED
    BY <1>m, <1>t, <2>1, <2>2, <2>3 DEF LossInv, LossIsBounded
<1>5. CASE FilterLogsBehind
  <2>1. PICK h \in Block : /\ head - MaxLag <= h /\ h < LastBlock
                           /\ page' = {b \in events : fromBlock <= b /\ b <= h}
    BY <1>5 DEF FilterLogsBehind
  <2>2. /\ Sent' = Sent /\ UNCHANGED <<events, fromBlock>> /\ page = {} /\ short' = short + 1
        /\ nextBlock' = LastBlock + 1 /\ LastBlock \in Int /\ LastBlock <= head
    BY SMTT(60), <1>5, <1>n, <1>s, <1>t, LastBlockFacts
       DEF FilterLogsBehind, SendEvent, chainVars, faultVars, PageInv
  <2>3. Cardinality(Lost(fromBlock)) <= MaxLag * short
    BY <1>t DEF LossInv, LossIsBounded
  <2>4. h \in Int
    BY SMTT(60), StreamerAssumption DEF Block
  <2>5. IsFiniteSet(h + 1 .. head) /\ Cardinality(h + 1 .. head) <= MaxLag
    <3>1. h + 1 \in Int /\ head \in Int /\ h + 1 <= head
      BY SMTT(60), <1>n, <2>1, <2>2, <2>4
    <3>2. IsFiniteSet(h + 1 .. head) /\ Cardinality(h + 1 .. head) = head - (h + 1) + 1
      BY SMTT(60), <3>1, FS_Interval
    <3> QED
      BY SMTT(60), <1>n, <2>1, <2>4, <3>2
  <2> DEFINE U == Lost(fromBlock) \cup (h + 1 .. head)
  <2>6. IsFiniteSet(U) /\ Cardinality(U) <= MaxLag * short + MaxLag
    <3>1. /\ IsFiniteSet(U)
          /\ Cardinality(U) = Cardinality(Lost(fromBlock)) + Cardinality(h + 1 .. head)
                               - Cardinality(Lost(fromBlock) \cap (h + 1 .. head))
      BY <1>f, <2>5, FS_Union
    <3>2. IsFiniteSet(Lost(fromBlock) \cap (h + 1 .. head))
      BY <1>f, FS_Subset
    <3>3. Cardinality(Lost(fromBlock) \cap (h + 1 .. head)) \in Nat
          /\ Cardinality(h + 1 .. head) \in Nat
      BY <2>5, <3>2, FS_CardinalityType
    <3> QED
      BY SMTT(60), <1>f, <1>n, <2>3, <2>5, <3>1, <3>3
  <2>7. Lost(fromBlock)' \subseteq U /\ Lost(nextBlock)' \subseteq U
    <3>1. Lost(fromBlock)' \subseteq Lost(fromBlock)
      BY <2>2 DEF Lost
    <3>2. Lost(nextBlock)' \subseteq U
      <4> SUFFICES ASSUME NEW b \in Lost(nextBlock)' PROVE b \in U
        OBVIOUS
      <4>1. /\ b \in events /\ FirstBlock <= b /\ b < LastBlock + 1
            /\ b \notin Sent /\ b \notin page'
        BY <2>2 DEF Lost
      <4>2. b \in 1 .. head
        BY <1>e, <4>1
      <4>3. b < fromBlock \/ h < b
        BY SMTT(60), <1>n, <2>1, <2>4, <4>1, <4>2
      <4>4. b < fromBlock => b \in Lost(fromBlock)
        BY <2>2, <4>1 DEF Lost
      <4>5. h < b => b \in h + 1 .. head
        BY SMTT(60), <1>n, <2>4, <4>2
      <4> QED
        BY <4>3, <4>4, <4>5
    <3> QED
      BY <3>1, <3>2
  <2>8. ASSUME NEW A \in SUBSET U PROVE Cardinality(A) <= MaxLag * short'
    <3>1. IsFiniteSet(A) /\ Cardinality(A) <= Cardinality(U)
      BY <2>6, <2>8, FS_Subset
    <3>2. Cardinality(A) \in Nat /\ Cardinality(U) \in Nat
      BY <2>6, <3>1, FS_CardinalityType
    <3> QED
      BY SMTT(60), <1>n, <2>2, <2>6, <3>1, <3>2
  <2> QED
    BY <2>7, <2>8 DEF LossInv, LossIsBounded
<1>6. CASE SendEvent
  <2>1. PICK b \in page : page' = page \ {b} /\ Sent' = Sent \cup {b}
    BY <1>6, <1>t, SentStep
  <2>2. Sent' \cup page' = Sent \cup page
    BY <2>1
  <2> QED
    BY <1>6, <1>t, <2>2 DEF SendEvent, chainVars, faultVars, LossInv, LossIsBounded, Lost
<1>7. CASE NextPage
  BY <1>7, <1>s, <1>t DEF NextPage, SendEvent, chainVars, faultVars, LossInv, LossIsBounded, Lost
<1> QED
  BY <1>1, <1>2, <1>3, <1>4, <1>5, <1>6, <1>7 DEF Next, Watcher, IndexLogs

\* While no block number lags, what leaves the watcher leaves it in block
\* order (rpcLogStreamer.go:125-130) and indexLogs keeps that order.
LEMMA OrderStep ==
  ASSUME IInv, [Next]_vars, ~lagged'
  PROVE  OrderInv'
<1>l. ~lagged
  <2>1. ~BlockNumber => lagged' = lagged
    BY DEF Next, Watcher, IndexLogs, NewBlock, Cancel, Start, StopWatcher, FilterLogs,
           FilterLogsBehind, PageFails, SendEvent, NextPage, Receive, Retry, StoreLog,
           FinishIndexing, vars, faultVars
  <2> QED
    BY <2>1 DEF BlockNumber
<1>t. TypeOK /\ PageInv /\ OrderInv
  BY <1>l DEF IInv
<1>n. /\ head \in Nat /\ fromBlock \in Nat /\ nextBlock \in Nat /\ highest \in Nat
      /\ MaxBlock \in Nat /\ BACKFILL_BLOCKS \in Nat
  BY SMTT(60), <1>t, StreamerAssumption DEF TypeOK, Block
<1>q. channel \in Seq(Block) /\ handled \in Seq(Block) /\ event \in Block /\ page \subseteq Block
  BY <1>t DEF TypeOK
<1>e. events \subseteq 1 .. head /\ page \cup Sent \subseteq events
  BY <1>t DEF TypeOK, PageInv
<1>x. \A x \in Sent \cup page : x \in Int /\ x <= head
  <2>1. \A x \in events : x \in Int /\ x <= head
    BY SMTT(60), <1>e, <1>n
  <2> QED
    BY <1>e, <2>1
<1>p. \A h, b \in Int : h < LastBlock /\ b <= h => b <= LastBlock
  BY SMTT(60), <1>t, LastBlockFacts
<1>0. ASSUME UNCHANGED <<handled, channel, page, fromBlock, nextBlock, highest>>,
             Storing' = Storing,
             watchPc' = watchPc \/ (watchPc # "send" /\ watchPc' \in {"loop", "stopped"})
      PROVE  OrderInv'
  <2>1. Sent' = Sent
    BY <1>0 DEF Sent
  <2> QED
    BY <1>0, <1>t, <2>1 DEF OrderInv
<1>1. CASE NewBlock \/ Cancel \/ Retry \/ UNCHANGED vars
  BY <1>0, <1>1 DEF NewBlock, Cancel, Retry, vars, watchVars, channelVars, indexVars, Storing
<1>2. CASE Start \/ StopWatcher \/ PageFails
  BY <1>0, <1>2 DEF Start, StopWatcher, PageFails, channelVars, indexVars, Storing
<1>3. CASE FinishIndexing
  BY <1>0, <1>3 DEF FinishIndexing, watchVars, channelVars, Storing
<1>4. CASE BlockNumber
  <2>1. highest' = head
    BY <1>4, <1>n DEF BlockNumber, Block
  <2>2. \A x \in Sent : x <= head
    BY <1>x
  <2>3. UNCHANGED <<handled, channel, page, fromBlock, nextBlock>> /\ Sent' = Sent
        /\ Storing' = Storing /\ watchPc = "loop" /\ watchPc' = "filter"
    BY <1>4 DEF BlockNumber, channelVars, indexVars, Sent, Storing
  <2> QED
    BY <1>t, <2>1, <2>2, <2>3 DEF OrderInv
<1>5. CASE FilterLogs \/ FilterLogsBehind
  <2>1. UNCHANGED <<handled, channel, fromBlock>> /\ Sent' = Sent /\ Storing' = Storing
        /\ watchPc = "filter" /\ watchPc' = "send" /\ nextBlock' = LastBlock + 1
    BY <1>5 DEF FilterLogs, FilterLogsBehind, channelVars, indexVars, Sent, Storing
  <2>p. \A b \in page' : b \in events /\ b \in Int /\ fromBlock <= b /\ b <= LastBlock
    <3>0. \A b \in events : b \in Int
      BY SMTT(60), <1>e
    <3>1. CASE FilterLogs
      BY <3>0, <3>1 DEF FilterLogs
    <3>2. CASE FilterLogsBehind
      <4>1. PICK h \in Block : /\ h < LastBlock
                               /\ page' = {b \in events : fromBlock <= b /\ b <= h}
        BY <3>2 DEF FilterLogsBehind
      <4>2. h \in Int
        BY SMTT(60), <1>n DEF Block
      <4> QED
        BY <1>p, <3>0, <4>1, <4>2
    <3> QED
      BY <1>5, <3>1, <3>2
  <2>2. LastBlock \in Int
    BY <1>t, LastBlockFacts
  <2>3. \A x \in Sent : x \in Int /\ x < fromBlock /\ x <= highest
    BY <1>t, <1>x, <2>1 DEF OrderInv
  <2>4. \A x \in Sent : x < LastBlock + 1
    BY SMTT(60), <1>n, <2>3 DEF LastBlock
  <2>5. \A x \in Sent, y \in page' : x < y
    BY SMTT(60), <1>n, <2>p, <2>3
  <2>6. \A y \in page' : y < LastBlock + 1
    BY SMTT(60), <2>p, <2>2
  <2>7. Range(handled) \cup Storing \cup Range(channel) = Sent
    BY DEF Sent
  <2> QED
    BY <1>t, <2>1, <2>4, <2>5, <2>6, <2>7 DEF OrderInv
<1>6. CASE SendEvent
  <2>1. PICK b \in page : /\ \A q \in page : b <= q
                         /\ channel' = Append(channel, b)
                         /\ page' = page \ {b}
                         /\ Sent' = Sent \cup {b}
    BY <1>6, <1>t, SentStep
  <2>2. UNCHANGED <<handled, watchPc, fromBlock, nextBlock>> /\ Storing' = Storing
        /\ watchPc = "send"
    BY <1>6 DEF SendEvent, indexVars, Storing
  <2>3. b \in Block /\ Range(channel') = Range(channel) \cup {b}
    BY SMTT(60), <1>q, <2>1, RangeAppend
  <2>4. Increasing(channel')
    BY <1>q, <1>t, <2>1, <2>3, IncreasingAppend DEF OrderInv
  <2>5. \A q \in page' : b < q
    <3>1. \A q \in page' : b <= q /\ b # q /\ q \in Int
      BY <1>x, <2>1
    <3> QED
      BY SMTT(60), <2>3, <3>1 DEF Block
  <2> QED
    BY SMTT(60), <1>t, <2>1, <2>2, <2>3, <2>4, <2>5 DEF OrderInv
<1>7. CASE NextPage
  <2>1. UNCHANGED <<handled, channel, page, nextBlock>> /\ Sent' = Sent /\ Storing' = Storing
        /\ watchPc = "send" /\ watchPc' = "loop" /\ fromBlock' = nextBlock
    BY <1>7 DEF NextPage, channelVars, indexVars, Sent, Storing
  <2> QED
    BY <1>t, <2>1 DEF OrderInv
<1>8. CASE Receive
  <2>1. UNCHANGED <<handled, watchVars>> /\ Storing = {} /\ Storing' = {event'}
        /\ channel # <<>> /\ event' = Head(channel) /\ channel' = Tail(channel)
    BY <1>8 DEF Receive, Storing
  <2>2. Range(channel) = {event'} \cup Range(channel')
    BY <1>q, <2>1, RangeTail
  <2>3. Increasing(channel') /\ \A y \in Range(channel') : event' < y
    BY <1>q, <1>t, <2>1, IncreasingTail DEF OrderInv
  <2>4. Sent' = Sent
    BY <2>1, <2>2 DEF Sent
  <2> QED
    BY <1>t, <2>1, <2>2, <2>3, <2>4 DEF OrderInv, watchVars
<1>9. CASE StoreLog
  <2>1. UNCHANGED <<channel, watchVars>> /\ Storing = {event} /\ Storing' = {}
        /\ handled' = Append(handled, event)
    BY <1>9 DEF StoreLog, Storing, channelVars
  <2>2. Range(handled') = Range(handled) \cup {event}
    BY SMTT(60), <1>q, <2>1, RangeAppend
  <2>3. Increasing(handled')
    BY <1>q, <1>t, <2>1, IncreasingAppend DEF OrderInv
  <2>4. Sent' = Sent
    BY <2>1, <2>2 DEF Sent
  <2> QED
    BY <1>t, <2>1, <2>2, <2>3, <2>4 DEF OrderInv, watchVars
<1> QED
  BY <1>1, <1>2, <1>3, <1>4, <1>5, <1>6, <1>7, <1>8, <1>9 DEF Next, Watcher, IndexLogs

-----------------------------------------------------------------------------
(* Theorems *)

\* A fresh watcher and its empty channel satisfy the inductive invariant.
LEMMA InitIInv == Init => IInv
<1> SUFFICES ASSUME Init PROVE IInv
  OBVIOUS
<1>1. Range(<<>>) = {}
  BY SMTT(60) DEF Range
<1>2. Sent = {} /\ Storing = {}
  BY <1>1 DEF Init, Sent, Storing
<1>c. FirstBlock \in Nat /\ MaxBlock \in Nat /\ MaxFaults \in Nat /\ Capacity \in Nat
  BY StreamerAssumption
<1>3. TypeOK
  <2>1. <<>> \in Seq(Block) /\ Len(<<>>) = 0 /\ 0 \in Block /\ 0 <= Capacity
    BY SMTT(60), <1>c DEF Block
  <2>2. channel \in Seq(Block) /\ handled \in Seq(Block) /\ Len(channel) <= Capacity
    BY <2>1 DEF Init
  <2>3. events \subseteq 1 .. head /\ page \subseteq Block /\ faults \in 0 .. MaxFaults
        /\ short \in Nat
    BY SMTT(60), <1>c DEF Init
  <2>4. {fromBlock, nextBlock} \subseteq Nat
    BY <1>c DEF Init
  <2>5. lagged \in BOOLEAN
    BY ZenonT(60) DEF Init
  <2> QED
    BY <2>1, <2>2, <2>3, <2>4, <2>5 DEF Init, TypeOK
<1>4. PageInv /\ NoGap
  BY SMTT(60), <1>c, <1>2 DEF Init, PageInv, NoGap, CompleteHistory
<1>6. LossInv
  <2>1. Lost(fromBlock) = {} /\ short = 0 /\ watchPc = "new" /\ MaxLag \in Nat
    BY StreamerAssumption DEF Init, Lost
  <2> QED
    BY SMTT(60), <2>1, FS_EmptySet DEF LossInv, LossIsBounded
<1>5. OrderInv
  BY SMTT(60), <1>1, <1>2 DEF Init, OrderInv, Increasing
<1> QED
  BY <1>3, <1>4, <1>5, <1>6 DEF IInv

\* The inductive invariant holds in every state of the streamer and its consumer.
THEOREM InductiveInvariant == Spec => []IInv
<1>1. IInv /\ [Next]_vars => IInv'
  BY TypeStep, PageStep, LossStep, OrderStep DEF IInv
<1> QED
  BY InitIInv, <1>1, PTL DEF Spec

\* watchContract, its channel and indexLogs keep their types; the channel never holds
\* more than its buffer (rpcLogStreamer.go:36-47).
THEOREM TypeCorrect == Spec => []TypeOK
<1>1. IInv => TypeOK
  BY DEF IInv
<1> QED
  BY InductiveInvariant, <1>1, PTL

\* No event behind fromBlock is missed, for every page size, buffer, lag of the block
\* number and sequence of failing calls, while no page is answered short
\* (rpcLogStreamer.go:135-167).
THEOREM NoEventMissed == Spec => []NoGap
<1>1. IInv => NoGap
  BY DEF IInv
<1> QED
  BY InductiveInvariant, <1>1, PTL

\* A short answer loses at most the events of MaxLag blocks, and nothing else loses any
\* (rpcLogStreamer.go:157-167).
THEOREM LossesAreBounded == Spec => []LossIsBounded
<1>1. IInv => LossIsBounded
  BY DEF IInv, LossInv
<1> QED
  BY InductiveInvariant, <1>1, PTL

\* While no block number lags, indexLogs handles the events in block order and each at
\* most once (indexer.go:68-84).
THEOREM EventsInOrder == Spec => []HandledInOrder
<1>1. IInv => HandledInOrder
  BY DEF IInv, OrderInv, HandledInOrder
<1> QED
  BY InductiveInvariant, <1>1, PTL

\* The watcher alone closes the channel, and indexLogs returns from a closed and empty
\* channel only (rpcLogStreamer.go:107, indexer.go:68).
LEMMA ChannelIsDrained == Spec => []DrainInv
<1>1. Init => DrainInv
  BY DEF Init, DrainInv
<1>2. TypeOK /\ DrainInv /\ [Next]_vars => DrainInv'
  <2> SUFFICES ASSUME TypeOK, DrainInv, [Next]_vars PROVE DrainInv'
    OBVIOUS
  <2>1. CASE NewBlock \/ Cancel \/ Start
    BY SMTT(60), <2>1 DEF NewBlock, Cancel, Start, DrainInv, channelVars, indexVars, watchVars
  <2>2. CASE Watcher
    BY SMTT(60), <2>2 DEF Watcher, StopWatcher, BlockNumber, FilterLogs, FilterLogsBehind, PageFails,
                SendEvent, NextPage, DrainInv, channelVars, indexVars
  <2>3. CASE IndexLogs
    BY SMTT(60), <2>3 DEF IndexLogs, Receive, Retry, StoreLog, FinishIndexing, DrainInv, vars,
                channelVars, indexVars, watchVars
  <2>4. CASE UNCHANGED vars
    BY <2>4 DEF DrainInv, vars, channelVars, indexVars, watchVars
  <2> QED
    BY <2>1, <2>2, <2>3, <2>4 DEF Next
<1>3. IInv => TypeOK
  BY DEF IInv
<1> QED
  BY <1>1, <1>2, <1>3, InductiveInvariant, PTL DEF Spec

\* A cancelled streamer and its consumer lose nothing that was fetched, for every page
\* size, buffer and lag (rpcLogStreamer.go:100-131, indexer.go:68-84).
THEOREM ShutdownDrains == Spec => []CancelDrains
<1>1. IInv /\ DrainInv => CancelDrains
  <2> SUFFICES ASSUME IInv, DrainInv, indexPc = "finished"
               PROVE  /\ page = {} /\ channel = <<>>
                      /\ short = 0 => \A b \in events :
                           FirstBlock <= b /\ b < fromBlock => b \in Range(handled)
    BY DEF CancelDrains
  <2>1. page = {} /\ channel = <<>>
    BY DEF IInv, PageInv, DrainInv
  <2>2. Sent = Range(handled)
    <3>1. Range(channel) = {} /\ Storing = {}
      BY SMTT(60), <2>1 DEF Range, Storing
    <3> QED
      BY <3>1 DEF Sent
  <2> QED
    BY <2>1, <2>2 DEF IInv, NoGap, CompleteHistory
<1> QED
  BY <1>1, ChannelIsDrained, InductiveInvariant, PTL

\* The watcher and indexLogs never wait for each other in vain, for every page size and
\* buffer (rpcLogStreamer.go:126, indexer.go:68).
THEOREM StreamerNeverStalls == Spec => []NoStall
<1>1. IInv /\ DrainInv => NoStall
  <2> SUFFICES ASSUME TypeOK, DrainInv PROVE NoStall
    BY DEF IInv
  <2>1. Capacity \in Nat \ {0} /\ Len(<<>>) = 0
    BY StreamerAssumption
  <2>2. indexPc \in {"receive", "store", "finished"} /\ Len(channel) <= Capacity
    BY DEF TypeOK
  <2>3. ASSUME ~(Len(channel) < Capacity) PROVE channel # <<>>
    BY SMTT(60), <2>1, <2>3
  <2> QED
    BY <2>2, <2>3 DEF DrainInv, NoStall
<1> QED
  BY <1>1, ChannelIsDrained, InductiveInvariant, PTL

\* While the storer answers with retryable errors alone, indexLogs stays with its event
\* for good, for every page size, buffer and lag (indexer.go:70-77).
THEOREM RetryNeverEnds == Spec => RetriesForGood
<1>1. [Next]_vars => [Outcomes \cap {"ok", "drop"} = {} /\ indexPc = "store"
                        => indexPc' = "store" /\ event' = event]_vars
  BY DEF Next, NewBlock, Cancel, Start, Watcher, StopWatcher, BlockNumber, FilterLogs,
         FilterLogsBehind, PageFails, SendEvent, NextPage, IndexLogs, Receive, Retry, StoreLog,
         FinishIndexing, vars, indexVars
<1> QED
  BY <1>1, PTL DEF Spec, RetriesForGood

\* StartIndexer never gets past its call of indexLogs and never starts the streamer,
\* however the chain grows and whatever is cancelled (indexer.go:38-50).
THEOREM NeverStarts == StartSpec => []WaitsForItself
<1>1. StartInit => WaitsForItself
  BY DEF StartInit, Init, WaitsForItself
<1>2. WaitsForItself /\ [StartNext]_startVars => WaitsForItself'
  <2> SUFFICES ASSUME WaitsForItself, [StartNext]_startVars PROVE WaitsForItself'
    OBVIOUS
  <2>1. ~(IndexLogsReturns \/ Build \/ StartStreamer)
    BY SMTT(60) DEF WaitsForItself, IndexLogsReturns, Build, StartStreamer
  <2>2. ~Watcher
    BY SMTT(60) DEF WaitsForItself, Watcher, StopWatcher, BlockNumber, FilterLogs,
                    FilterLogsBehind, PageFails, SendEvent, NextPage
  <2>3. ~(Receive \/ StoreLog \/ FinishIndexing \/ Retry)
    BY SMTT(60) DEF WaitsForItself, Receive, StoreLog, FinishIndexing, Retry
  <2>4. UNCHANGED <<startPc, watchPc, indexPc, channel, closed>>
    BY <2>1, <2>2, <2>3 DEF StartNext, startVars, IndexLogs, NewBlock, Cancel, vars, watchVars,
                            channelVars, indexVars
  <2> QED
    BY <2>4 DEF WaitsForItself
<1> QED
  BY <1>1, <1>2, PTL DEF StartSpec

=============================================================================
