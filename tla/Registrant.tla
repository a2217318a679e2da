------------------------------ MODULE Registrant ------------------------------
(***************************************************************************)
(* NewRegistrant (pkg/registrant/registrant.go): when a server starts, it  *)
(* finds its own node in the registry by its private key and claims the    *)
(* database for that identity in node_info.  Processes start, crash and    *)
(* start again, with any private key, several of them on one database.     *)
(*                                                                         *)
(* Each process has a registry of its own, which is any implementation of  *)
(* NodeDirectory.  A private key is identified with its public key.        *)
(***************************************************************************)
EXTENDS Integers, Sequences

CONSTANTS
  Process,    \* server processes on the database
  PublicKey,
  Nil,        \* SigningKey of a node whose key does not parse
  None,       \* no row, no record
  MaxNodes

ASSUME RegistrantAssumption ==
  /\ MaxNodes \in Nat
  /\ Nil \notin PublicKey
  /\ None \notin Int /\ None \notin [id : Int, key : PublicKey]

VARIABLES
  registered,  \* as in NodeDirectory
  directory,   \* the directory of each process
  pc,          \* "down", "lookup", "insert", "select" or "running"
  key,         \* private key the process was configured with
  record,      \* NodeID of the record found in the registry
  exit,        \* why the process went down last
  node_info    \* the row of the table

procVars == <<directory, pc, key, record, exit>>
vars     == <<registered, procVars, node_info>>

SigningKey == PublicKey \cup {Nil}

Registry(d) == INSTANCE NodeDirectory WITH directory <- d

Init ==
  /\ registered = <<>>
  /\ directory = [p \in Process |-> <<>>]
  /\ pc = [p \in Process |-> "down"]
  /\ key \in [Process -> PublicKey]
  /\ record = [p \in Process |-> None]
  /\ exit = [p \in Process |-> "none"]
  /\ node_info = None

-----------------------------------------------------------------------------
(* The registry of a process *)

Register ==
  /\ Len(registered) < MaxNodes
  /\ \E k \in SigningKey : registered' = Append(registered, k)
  /\ UNCHANGED <<procVars, node_info>>

\* The process starts with a private key that parses, and its registry has loaded.
Boot(p) ==
  /\ pc[p] = "down"
  /\ \E k \in PublicKey : key' = [key EXCEPT ![p] = k]
  /\ \E d \in Registry(directory[p])!Prefixes(registered) :
       directory' = [directory EXCEPT ![p] = d]
  /\ pc' = [pc EXCEPT ![p] = "lookup"]
  /\ record' = [record EXCEPT ![p] = None]
  /\ exit' = [exit EXCEPT ![p] = "none"]
  /\ UNCHANGED <<registered, node_info>>

Refresh(p) ==
  /\ pc[p] # "down"
  /\ \E d \in Registry(directory[p])!Prefixes(registered) :
       /\ Len(directory[p]) < Len(d)
       /\ directory' = [directory EXCEPT ![p] = d]
  /\ UNCHANGED <<registered, pc, key, record, exit, node_info>>

Exit(p, why) ==
  /\ pc' = [pc EXCEPT ![p] = "down"]
  /\ exit' = [exit EXCEPT ![p] = why]

\* The process is stopped or killed, whatever it is doing.
Crash(p) ==
  /\ pc[p] # "down"
  /\ Exit(p, "none")
  /\ UNCHANGED <<registered, directory, key, record, node_info>>

-----------------------------------------------------------------------------
(* getRegistryRecord *)

\* Mutant: any matching node will do, as if the map were searched in its own order.
MatchesAny(d, k) == {n \in DOMAIN d : d[n] = k}

\* The first place of the slice that holds the key.
Matches(d, k) == {n \in DOMAIN d : d[n] = k /\ \A m \in 1 .. n - 1 : d[m] # k}

\* Places that IndexFunc looks at before it finds the key.
Searched(d, k) == {n \in DOMAIN d : \A m \in 1 .. n : d[m] # k}

\* Mutant: all nodes are compared.
FoundNilAnywhere(d, k) == \E n \in DOMAIN d : d[n] = Nil

\* Equal on a nil SigningKey dereferences it, which is a panic.
FoundNil(d, k) == \E n \in Searched(d, k) : d[n] = Nil

getRegistryRecord(p) ==
  /\ pc[p] = "lookup"
  /\ \/ /\ FoundNil(directory[p], key[p])
        /\ Exit(p, "panic")
        /\ UNCHANGED record
     \/ /\ ~FoundNil(directory[p], key[p])
        /\ Matches(directory[p], key[p]) = {}
        /\ Exit(p, "not in registry")
        /\ UNCHANGED record
     \/ /\ ~FoundNil(directory[p], key[p])
        /\ \E n \in Matches(directory[p], key[p]) : record' = [record EXCEPT ![p] = n - 1]
        /\ pc' = [pc EXCEPT ![p] = "insert"]
        /\ UNCHANGED exit
  /\ UNCHANGED <<registered, directory, key, node_info>>

-----------------------------------------------------------------------------
(* ensureDatabaseMatches *)

Identity(p) == [id |-> record[p], key |-> key[p]]

\* INSERT ... ON CONFLICT DO NOTHING tells whether the row is this process's own.
InsertNodeInfo(p) ==
  /\ pc[p] = "insert"
  /\ IF node_info = None
     THEN /\ node_info' = Identity(p)
          /\ pc' = [pc EXCEPT ![p] = "running"]
     ELSE /\ pc' = [pc EXCEPT ![p] = "select"]
          /\ UNCHANGED node_info
  /\ UNCHANGED <<registered, directory, key, record, exit>>

\* Mutant: the row is read and not compared.
SelectNodeInfoOnly(p) ==
  /\ pc[p] = "select"
  /\ pc' = [pc EXCEPT ![p] = "running"]
  /\ UNCHANGED <<registered, directory, key, record, exit, node_info>>

SelectNodeInfo(p) ==
  /\ pc[p] = "select"
  /\ IF node_info.id = record[p] /\ node_info.key = key[p]
     THEN pc' = [pc EXCEPT ![p] = "running"] /\ UNCHANGED exit
     ELSE Exit(p, "mismatch")
  /\ UNCHANGED <<registered, directory, key, record, node_info>>

\* A statement fails; the connection may have been lost after the insert took effect.
StatementFails(p) ==
  /\ pc[p] \in {"insert", "select"}
  /\ \/ UNCHANGED node_info
     \/ pc[p] = "insert" /\ node_info = None /\ node_info' = Identity(p)
  /\ Exit(p, "database")
  /\ UNCHANGED <<registered, directory, key, record>>

-----------------------------------------------------------------------------
Next ==
  \/ Register
  \/ \E p \in Process :
       \/ Boot(p) \/ Refresh(p) \/ Crash(p)
       \/ getRegistryRecord(p)
       \/ InsertNodeInfo(p) \/ SelectNodeInfo(p) \/ StatementFails(p)

Spec == Init /\ [][Next]_vars

-----------------------------------------------------------------------------
(* Properties *)

\* Type invariant of the registry, the processes and node_info.
TypeOK ==
  /\ registered \in Seq(SigningKey) /\ Len(registered) <= MaxNodes
  /\ directory \in [Process -> Seq(SigningKey)]
  /\ pc \in [Process -> {"down", "lookup", "insert", "select", "running"}]
  /\ key \in [Process -> PublicKey]
  /\ record \in [Process -> Nat \cup {None}]
  /\ exit \in [Process -> {"none", "panic", "not in registry", "mismatch", "database"}]
  /\ node_info \in [id : Nat, key : PublicKey] \cup {None}

\* "Prevents mistakes such as: - Running multiple nodes with different private keys
\* against the same DB" (registrant.go:124): all processes that got past NewRegistrant
\* have the one identity that owns the database, however their starts overlapped.
OneIdentity == \A p \in Process : pc[p] = "running" => node_info = Identity(p)

\* A server is turned away from a database with a mismatch only if the database
\* belongs to another private key.  The same key finds the same node ID in every
\* registry, of any age, and with the key registered twice, so neither a restart nor
\* an insert whose answer was lost locks a node out of its own data.
RestartAccepted ==
  \A p \in Process : exit[p] = "mismatch" => node_info.key # key[p]

\* A node was registered with a key that does not parse, and key k was not before it.
NilBefore(k) ==
  \E n \in DOMAIN registered : registered[n] = Nil /\ \A m \in 1 .. n - 1 : registered[m] # k

\* A node registered with a key that does not parse has a nil SigningKey
\* (contractRegistry.go:202), on which Equal panics (registrant.go:115).  It keeps only
\* servers that are registered after it, or not at all, from starting: never one whose
\* key was registered before.
EarlierNodesStart == \A p \in Process : exit[p] = "panic" => NilBefore(key[p])

\* The identity each process runs under.
Serving == [p \in Process |-> IF pc[p] = "running" THEN Identity(p) ELSE None]

Owner == INSTANCE DatabaseOwner WITH
           Owner <- [id : Nat, key : PublicKey], row <- node_info, serving <- Serving

\* NewRegistrant makes the database the property of one identity, for good: the insert,
\* the read and the comparison (registrant.go:128-148) are together one step that either
\* claims the database or finds it its own, whatever fails or overlaps in between.
ImplementsOwner == Owner!Spec

-----------------------------------------------------------------------------
(* The inductive invariant behind OneIdentity and RestartAccepted *)

IsPrefix(d, r) == Len(d) <= Len(r) /\ \A n \in DOMAIN d : d[n] = r[n]

\* id is the first node ever registered with key k.
FirstWith(k, id) ==
  /\ id + 1 \in DOMAIN registered /\ registered[id + 1] = k
  /\ \A n \in 1 .. id : registered[n] # k

\* Directories are prefixes, and identities are first registrations, for good.
IInv ==
  /\ TypeOK /\ OneIdentity /\ RestartAccepted
  /\ \A p \in Process : IsPrefix(directory[p], registered)
  /\ \A p \in Process : pc[p] \in {"insert", "select", "running"} =>
       record[p] # None /\ FirstWith(key[p], record[p])
  /\ \A p \in Process : pc[p] = "select" \/ exit[p] = "mismatch" => node_info # None
  /\ node_info # None => FirstWith(node_info.key, node_info.id)

=============================================================================
