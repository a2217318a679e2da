--------------------------- MODULE ServerLifecycle ---------------------------
(***************************************************************************)
(* Start and shutdown of the replication server: main                      *)
(* (cmd/replication/main.go), the body it runs through GoPanicWrap         *)
(* (pkg/tracing/tracing.go), the database connection (pkg/db/pgx.go),      *)
(* NewReplicationServer, WaitForShutdown and Shutdown                      *)
(* (pkg/server/server.go) and the goroutine that serves gRPC               *)
(* (pkg/api/server.go), with signals that come at any time.                *)
(*                                                                         *)
(* Waiting on a WaitGroup is a guard on the goroutine it counts, which     *)
(* GoPanicWrap adds before it starts the goroutine.  The context of the    *)
(* server, s.ctx, is handed to no one and left out.                        *)
(***************************************************************************)
EXTENDS Integers

CONSTANTS
  OwnNodeListed,  \* what NewRegistrant may find: whether the registry holds this node
  Failures,       \* whether the database and the port may fail for good
  MaxPings        \* bound of the model: pings that fit into WaitForDB

ASSUME LifecycleAssumption ==
  OwnNodeListed \subseteq BOOLEAN /\ Failures \in BOOLEAN /\ MaxPings \in Nat

VARIABLES
  mainPc,    \* goroutine that runs main
  bodyPc,    \* goroutine that runs the body passed to GoPanicWrap
  grpcPc,    \* goroutine that serves gRPC
  process,   \* "running", or how it ended
  ctx,       \* "live" or "done"
  pings,     \* pings of newPGXDB that failed
  listener,  \* the socket the API listens on
  grpcListener,  \* s.grpcListener, "nil" or "set"
  sigC,      \* signals in the buffer of main, at most one
  termC,     \* signals in the buffer of WaitForShutdown, at most one
  doneC      \* whether the buffer of doneC holds a value

api  == <<listener, grpcListener>>
vars == <<mainPc, bodyPc, grpcPc, process, ctx, pings, api, sigC, termC, doneC>>

Signal     == {"SIGHUP", "SIGINT", "SIGTERM", "SIGQUIT"}
TermSignal == {"SIGINT", "SIGTERM"}

Init ==
  /\ mainPc = "start" /\ bodyPc = "none" /\ grpcPc = "none"
  /\ process = "running"
  /\ ctx = "live" /\ pings = 0
  /\ listener = "none" /\ grpcListener = "nil"
  /\ sigC = {} /\ termC = {} /\ doneC = FALSE

-----------------------------------------------------------------------------
(* Signals *)

MainNotified == mainPc \in {"select", "wait"}
BodyNotified == bodyPc \in {"wait", "close", "forget", "join", "done", "returned"}

\* A signal goes to every channel registered for it whose buffer has room; one that
\* no channel is registered for ends the process.
Deliver(s) ==
  /\ sigC' = IF MainNotified /\ sigC = {} THEN {s} ELSE sigC
  /\ termC' = IF BodyNotified /\ s \in TermSignal /\ termC = {} THEN {s} ELSE termC
  /\ process' = IF MainNotified \/ (BodyNotified /\ s \in TermSignal)
                THEN process ELSE "killed"
  /\ UNCHANGED <<mainPc, bodyPc, grpcPc, ctx, pings, api, doneC>>

-----------------------------------------------------------------------------
(* main *)

\* GoPanicWrap counts the goroutine and starts it.
StartBody ==
  /\ mainPc = "start"
  /\ mainPc' = "notify" /\ bodyPc' = "connect"
  /\ UNCHANGED <<grpcPc, process, ctx, pings, api, sigC, termC, doneC>>

Notify ==
  /\ mainPc = "notify"
  /\ mainPc' = "select"
  /\ UNCHANGED <<bodyPc, grpcPc, process, ctx, pings, api, sigC, termC, doneC>>

\* The select takes a signal or the end of the body, and the context is cancelled.
Select ==
  /\ mainPc = "select"
  /\ \/ sigC # {} /\ sigC' = {} /\ UNCHANGED doneC
     \/ doneC /\ doneC' = FALSE /\ UNCHANGED sigC
  /\ ctx' = "done"
  /\ mainPc' = "wait"
  /\ UNCHANGED <<bodyPc, grpcPc, process, pings, api, termC>>

\* wg.Wait, after which main returns and the process ends.
Return ==
  /\ mainPc = "wait" /\ bodyPc = "returned"
  /\ mainPc' = "returned" /\ process' = "exited"
  /\ UNCHANGED <<bodyPc, grpcPc, ctx, pings, api, sigC, termC, doneC>>

-----------------------------------------------------------------------------
(* The body: NewDB and NewReplicationServer *)

BodyGoes(from, to) ==
  /\ bodyPc = from /\ bodyPc' = to
  /\ UNCHANGED <<mainPc, process, ctx, sigC, termC>>

\* log.Fatal ends the process.
Fatal ==
  /\ process' = "fatal"
  /\ UNCHANGED <<mainPc, bodyPc, grpcPc, ctx, pings, api, sigC, termC, doneC>>

\* newPGXDB pings without the context, until WaitForDB is over.
Ping ==
  /\ \/ BodyGoes("connect", "migrate") /\ UNCHANGED pings
     \/ pings < MaxPings /\ BodyGoes("connect", "connect") /\ pings' = pings + 1
  /\ UNCHANGED <<grpcPc, api, doneC>>

PingFails == Failures /\ bodyPc = "connect" /\ pings = MaxPings /\ Fatal

\* A cancelled context makes Migrate fail when it asks for a connection, and may be
\* too late when it has one.
Migrate == BodyGoes("migrate", "registrant") /\ UNCHANGED <<grpcPc, pings, api, doneC>>

MigrateFails == bodyPc = "migrate" /\ (Failures \/ ctx = "done") /\ Fatal

\* NewRegistrant finds the node in the registry and writes to the database.  The registry
\* that main passes has no nodes today, so that FALSE is all it finds.
NewRegistrant ==
  /\ TRUE \in OwnNodeListed /\ ctx = "live"
  /\ BodyGoes("registrant", "listen")
  /\ UNCHANGED <<grpcPc, pings, api, doneC>>

NewRegistrantFails ==
  /\ bodyPc = "registrant"
  /\ Failures \/ FALSE \in OwnNodeListed \/ ctx = "done"
  /\ Fatal

\* NewAPIServer opens the listener and starts the goroutine that is to serve it.
NewAPIServer ==
  /\ BodyGoes("listen", "started")
  /\ listener' = "open" /\ grpcListener' = "set"
  /\ grpcPc' = "spawned"
  /\ UNCHANGED <<pings, doneC>>

NewAPIServerFails == Failures /\ bodyPc = "listen" /\ Fatal

-----------------------------------------------------------------------------
(* The body: WaitForShutdown *)

NotifyTerm ==
  /\ BodyGoes("started", "wait")
  /\ UNCHANGED <<grpcPc, pings, api, doneC>>

ReceiveTerm ==
  /\ bodyPc = "wait" /\ termC # {}
  /\ bodyPc' = "close" /\ termC' = {}
  /\ UNCHANGED <<mainPc, grpcPc, process, ctx, pings, api, sigC, doneC>>

\* Mutant: Close forgets the listener without closing it.
CloseListenerNot ==
  /\ BodyGoes("close", "forget")
  /\ UNCHANGED <<grpcPc, pings, api, doneC>>

\* ApiServer.Close, which Shutdown calls once, closes the listener ...
CloseListener ==
  /\ BodyGoes("close", "forget")
  /\ listener' = "closed"
  /\ UNCHANGED <<grpcPc, pings, grpcListener, doneC>>

\* ... sets s.grpcListener to nil ...
ForgetListener ==
  /\ BodyGoes("forget", "join")
  /\ grpcListener' = "nil"
  /\ UNCHANGED <<grpcPc, pings, listener, doneC>>

\* Mutant: Close does not wait for the goroutine that serves.
CloseWithoutWait ==
  /\ BodyGoes("join", "done")
  /\ UNCHANGED <<grpcPc, pings, api, doneC>>

\* ... and waits for the goroutine that serves it.
CloseWait ==
  /\ grpcPc = "returned"
  /\ BodyGoes("join", "done")
  /\ UNCHANGED <<grpcPc, pings, api, doneC>>

\* Mutant: doneC has no buffer, so that the send waits for the select of main.
DoneUnbuffered ==
  /\ mainPc = "select"
  /\ BodyGoes("done", "returned")
  /\ doneC' = TRUE
  /\ UNCHANGED <<grpcPc, pings, api>>

\* doneC has room for the one value it ever gets.
Done ==
  /\ BodyGoes("done", "returned")
  /\ doneC' = TRUE
  /\ UNCHANGED <<grpcPc, pings, api>>

-----------------------------------------------------------------------------
(* The goroutine that serves gRPC *)

GrpcGoes(from, to) ==
  /\ grpcPc = from /\ grpcPc' = to
  /\ UNCHANGED <<mainPc, bodyPc, ctx, pings, grpcListener, sigC, termC, doneC>>

\* It reads s.grpcListener when it is scheduled, which nothing orders before Close: nil
\* is a panic that PanicWrap passes on.
ReadListener ==
  /\ GrpcGoes("spawned", IF grpcListener = "set" THEN "serving" ELSE "returned")
  /\ process' = IF grpcListener = "set" THEN process ELSE "panicked"
  /\ UNCHANGED listener

\* Serve returns when the listener is closed ...
Serve ==
  /\ listener = "closed"
  /\ GrpcGoes("serving", "returned")
  /\ UNCHANGED <<process, listener>>

\* Mutant: the goroutine serves again.
AcceptFailsRetrying ==
  /\ Failures /\ listener = "open"
  /\ GrpcGoes("serving", "spawned")
  /\ UNCHANGED <<process, listener>>

\* ... and when it cannot accept, having closed the listener itself; the body goes on.
AcceptFails ==
  /\ Failures /\ listener = "open"
  /\ GrpcGoes("serving", "returned")
  /\ listener' = "closed"
  /\ UNCHANGED process

-----------------------------------------------------------------------------
Main == StartBody \/ Notify \/ Select \/ Return
Body == \/ Ping \/ PingFails \/ Migrate \/ MigrateFails
        \/ NewRegistrant \/ NewRegistrantFails \/ NewAPIServer \/ NewAPIServerFails
        \/ NotifyTerm \/ ReceiveTerm \/ CloseListener \/ ForgetListener \/ CloseWait \/ Done

Next ==
  /\ process = "running"
  /\ \/ \E s \in Signal : Deliver(s)
     \/ Main \/ Body \/ ReadListener \/ Serve \/ AcceptFails

Spec == Init /\ [][Next]_vars

\* Each goroutine runs when it can.  No signal is ever promised.
FairSpec ==
  /\ Spec
  /\ WF_vars(process = "running" /\ Main)
  /\ WF_vars(process = "running" /\ Body)
  /\ WF_vars(process = "running" /\ (ReadListener \/ Serve))

-----------------------------------------------------------------------------
(* Properties *)

\* main returns only after the listener of the API is closed and the goroutine that
\* served it is gone (main.go:81, api/server.go:108), on whatever signal and in whatever
\* order main and the body saw it; connections that it had accepted are not waited for.
\* And the process panics only when it is going down: Close has closed the listener
\* before the goroutine that was to serve it has read it (api/server.go:83, 105).
CleanExit ==
  /\ process = "exited" => listener = "closed" /\ grpcPc = "returned"
  /\ process = "panicked" => listener = "closed" /\ bodyPc = "join"

\* A SIGINT or SIGTERM that WaitForShutdown receives ends the process: neither the
\* second channel that main listens on, nor doneC, nor the two WaitGroups keep it.
TermEndsProcess == termC # {} ~> process # "running"

\* "The body must respect cancellation of the Context" (tracing.go:111): once main has
\* cancelled the context, the process ends, unless the body has come to
\* WaitForShutdown, which does not look at the context, and no SIGINT or SIGTERM has
\* come (after a SIGHUP or SIGQUIT, and a second signal is needed).
CancelEndsOrWaits ==
  ctx = "done" ~> process # "running" \/ (bodyPc = "wait" /\ termC = {})

-----------------------------------------------------------------------------
(* The inductive invariant behind CleanExit *)

\* Who has come how far: the listener, the goroutine that serves it, the body and main
\* go down in this order and no other.
ShutdownOrder ==
  /\ mainPc = "start" <=> bodyPc = "none"
  /\ mainPc = "returned" => bodyPc = "returned"
  /\ process = "exited" => mainPc = "returned"
  /\ bodyPc \in {"none", "connect", "migrate", "registrant", "listen"} =>
       listener = "none" /\ grpcListener = "nil" /\ grpcPc = "none"
  /\ bodyPc \in {"started", "wait", "close"} =>
       /\ grpcListener = "set"
       /\ \/ listener = "open" /\ grpcPc \in {"spawned", "serving"}
          \/ listener = "closed" /\ grpcPc = "returned"
  /\ bodyPc = "forget" => grpcListener = "set"
  /\ bodyPc \in {"forget", "join"} => listener = "closed" /\ grpcPc # "none"
  /\ bodyPc \in {"done", "returned"} => listener = "closed" /\ grpcPc = "returned"
  /\ process = "panicked" => bodyPc = "join"

\* Nobody waits for what is over: the value of doneC is there until main takes it, and a
\* signal is in the buffer of WaitForShutdown only when someone has asked for it.
NothingLost ==
  /\ bodyPc = "returned" /\ mainPc \in {"start", "notify", "select"} => doneC
  /\ ctx = "done" <=> mainPc \in {"wait", "returned"}
  /\ termC # {} => BodyNotified

\* Some goroutine has a step to take, as its select, WaitGroup or call allows it.
SomeoneCanGo ==
  \/ mainPc \in {"start", "notify"}
  \/ mainPc = "select" /\ (sigC # {} \/ doneC)
  \/ mainPc = "wait" /\ bodyPc = "returned"
  \/ bodyPc \in {"connect", "migrate", "registrant", "listen", "started", "close", "forget",
                "done"}
  \/ bodyPc = "wait" /\ termC # {}
  \/ bodyPc = "join" /\ grpcPc = "returned"
  \/ grpcPc = "spawned" \/ (grpcPc = "serving" /\ listener = "closed")

\* main, the body and the goroutine that serves never all wait for each other: as long
\* as the process runs, one of them has a step to take, unless the node is up and no
\* signal has come to WaitForShutdown (main.go:75-81, server.go:72, api/server.go:108).
NoDeadlock == process = "running" => SomeoneCanGo \/ (bodyPc = "wait" /\ termC = {})

\* The steps that main, the body and the goroutine that serves can still take, at most.
MainLeft == [start |-> 4, notify |-> 3, select |-> 2, wait |-> 1, returned |-> 0][mainPc]
BodyLeft == [none |-> 11, connect |-> 10, migrate |-> 9, registrant |-> 8, listen |-> 7,
             started |-> 6, wait |-> 5, close |-> 4, forget |-> 3, join |-> 2, done |-> 1,
             returned |-> 0][bodyPc]
GrpcLeft == [none |-> 3, spawned |-> 2, serving |-> 1, returned |-> 0][grpcPc]

StepsLeft == MainLeft + BodyLeft + GrpcLeft + (MaxPings - pings)

\* The goroutines do not go round in circles: a step of theirs ends the process or is one
\* of the 18 + MaxPings that a process can take in its life, whatever signals come between
\* them.  No retry of the ping, no failure to accept, no select
\* and no second signal gives a step back (pgx.go:35-41, api/server.go:82-88,
\* main.go:75-81, server.go:69-81).
StepsRunOut ==
  /\ [](StepsLeft \in 0 .. 18 + MaxPings)
  /\ [][\/ StepsLeft' < StepsLeft \/ process' # "running"
        \/ \E s \in Signal : Deliver(s) /\ StepsLeft' = StepsLeft]_vars

\* The inductive invariant of the start and the shutdown.
IInv ==
  /\ mainPc \in {"start", "notify", "select", "wait", "returned"}
  /\ bodyPc \in {"none", "connect", "migrate", "registrant", "listen", "started", "wait",
                 "close", "forget", "join", "done", "returned"}
  /\ grpcPc \in {"none", "spawned", "serving", "returned"}
  /\ process \in {"running", "killed", "fatal", "panicked", "exited"}
  /\ mainPc = "returned" => process # "running"
  /\ ShutdownOrder /\ NothingLost

=============================================================================
