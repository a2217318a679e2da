---------------------------- MODULE DatabaseOwner ----------------------------
(***************************************************************************)
(* What ensureDatabaseMatches (pkg/registrant/registrant.go) promises to   *)
(* the servers that share a database, with no registry, statements or      *)
(* failures: the database gets one owner, for good, and a server serves it *)
(* under the identity of that owner only.  Registrant is shown to          *)
(* implement this specification, and so is PublishPipeline, where          *)
(* NewRegistrant is a single step.                                         *)
(***************************************************************************)
CONSTANTS
  Process,  \* server processes on the database
  Owner,    \* identities
  None      \* no row, not serving

VARIABLES
  row,      \* the owner of the database, or None
  serving   \* the identity each process serves under, or None

vars == <<row, serving>>

Init == row = None /\ serving = [p \in Process |-> None]

\* The database is claimed by a process that does not learn of it.
Claim == row = None /\ row' \in Owner /\ UNCHANGED serving

\* A process claims the database, or finds it its own, and serves.
Serve(p) ==
  /\ serving[p] = None
  /\ IF row = None THEN row' \in Owner ELSE UNCHANGED row
  /\ serving' = [serving EXCEPT ![p] = row']

Stop(p) ==
  /\ serving[p] # None
  /\ serving' = [serving EXCEPT ![p] = None]
  /\ UNCHANGED row

Next == Claim \/ \E p \in Process : Serve(p) \/ Stop(p)

Spec == Init /\ [][Next]_vars

-----------------------------------------------------------------------------
(* Properties *)

\* What the servers of a database may rely on (registrant.go:124-126): all that serve it
\* serve under one identity, which outlives every one of them: a server started later,
\* when all others are gone, serves under it as well or not at all.
Promise ==
  /\ [](\A p \in Process : serving[p] # None => serving[p] = row)
  /\ [][row # None => row' = row]_vars

=============================================================================
