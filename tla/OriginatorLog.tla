---------------------------- MODULE OriginatorLog ----------------------------
(***************************************************************************)
(* What the publish path promises, with no processes, failures or tables:  *)
(* an originator accepts envelopes under growing sequence IDs, answers     *)
(* only for envelopes it has accepted, and publishes what it accepted in   *)
(* the order of the IDs, each envelope once, leaving none out.             *)
(* PublishPipeline is shown to implement this specification.               *)
(***************************************************************************)
EXTENDS Integers

CONSTANTS ID, Env

VARIABLES
  accepted,   \* rows [id, env] that have a sequence ID for good
  answered,   \* rows whose originator envelope was returned to a client
  published   \* rows that are in the log of the originator

vars == <<accepted, answered, published>>

Init == accepted = {} /\ answered = {} /\ published = {}

Accept ==
  \E id \in ID, e \in Env :
    /\ \A r \in accepted : r.id < id
    /\ accepted' = accepted \cup {[id |-> id, env |-> e]}
    /\ UNCHANGED <<answered, published>>

Answer ==
  \E r \in accepted :
    /\ answered' = answered \cup {r}
    /\ UNCHANGED <<accepted, published>>

Publish ==
  \E r \in accepted \ published :
    /\ \A q \in accepted : q.id < r.id => q \in published
    /\ published' = published \cup {r}
    /\ UNCHANGED <<accepted, answered>>

Next == Accept \/ Answer \/ Publish

Spec == Init /\ [][Next]_vars

-----------------------------------------------------------------------------
(* Properties *)

\* What a reader of the log may rely on: an ID names one envelope, what is answered or
\* published was accepted, and a published envelope has every one with a smaller ID
\* before it, so the log has no hole that is filled later.
Promise ==
  /\ accepted \subseteq [id : ID, env : Env]
  /\ answered \cup published \subseteq accepted
  /\ \A r, q \in accepted : r.id = q.id => r = q
  /\ \A r \in published, q \in accepted : q.id < r.id => q \in published

=============================================================================
