---------------------------- MODULE StartIndexer ----------------------------
(***************************************************************************)
(* StartIndexer (pkg/indexer/indexer.go:18-51) wires the streamer and      *)
(* indexLogs together in one goroutine: it calls indexLogs, then builds    *)
(* the streamer, then starts it.                                           *)
(***************************************************************************)
EXTENDS LogStreamer

VARIABLE startPc   \* where StartIndexer is

startVars == <<vars, startPc>>

StartInit == Init /\ startPc = "indexLogs"

\* indexLogs runs in this goroutine and returns when the channel is closed.
IndexLogsReturns ==
  /\ startPc = "indexLogs" /\ indexPc = "finished"
  /\ startPc' = "build"
  /\ UNCHANGED vars

\* Dialling the endpoint may fail; StartIndexer then returns the error.
Build ==
  /\ startPc = "build"
  /\ startPc' \in {"start", "returned"}
  /\ UNCHANGED vars

StartStreamer ==
  /\ startPc = "start"
  /\ Start
  /\ startPc' = "returned"

StartNext ==
  \/ IndexLogsReturns \/ Build \/ StartStreamer
  \/ (NewBlock \/ Cancel \/ Watcher \/ IndexLogs) /\ UNCHANGED startPc

StartSpec ==
  /\ StartInit /\ [][StartNext]_startVars
  /\ Fairness
  /\ WF_startVars(IndexLogsReturns) /\ WF_startVars(Build) /\ WF_startVars(StartStreamer)

\* StartIndexer waits for a channel that only the streamer closes, and that it starts
\* later itself: nothing is ever watched, received or closed (indexer.go:38-50).
WaitsForItself ==
  /\ startPc = "indexLogs" /\ watchPc = "new"
  /\ indexPc = "receive" /\ channel = <<>> /\ ~closed

\* "Start the indexer and run until the context is canceled" (indexer.go:18): once
\* the context is cancelled, StartIndexer returns.
RunsUntilCancelled == ctx = "done" ~> startPc = "returned"

=============================================================================
