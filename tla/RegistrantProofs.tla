--------------------------- MODULE RegistrantProofs ---------------------------
(* Theorems about Registrant, for any number of processes, keys and nodes. *)
EXTENDS Registrant, TLAPS

\* The prover of every leaf that names no other, and its time limit in seconds.
USE ZenonT(60)

\* A directory that a registry may return is a prefix of what is registered.
LEMMA PrefixFacts ==
  ASSUME NEW S, NEW r \in Seq(S), NEW e, NEW d \in Registry(e)!Prefixes(r)
  PROVE  d \in Seq(S) /\ IsPrefix(d, r)
<1>1. PICK n \in 0 .. Len(r) : d = SubSeq(r, 1, n)
  BY DEF Registry!Prefixes
<1>2. Len(r) \in Nat /\ n \in Nat /\ n <= Len(r)
  BY SMTT(60)
<1>3. d \in Seq(S) /\ Len(d) = n /\ \A i \in 1 .. n : d[i] = r[i]
  BY SMTT(60), <1>1, <1>2
<1> QED
  BY SMTT(60), <1>2, <1>3 DEF IsPrefix

\* A registration is never undone: what is registered only grows at its end.
LEMMA RegisteredStep ==
  ASSUME TypeOK, [Next]_vars
  PROVE  /\ registered' \in Seq(SigningKey) /\ Len(registered') <= MaxNodes
         /\ Len(registered) <= Len(registered')
         /\ \A n \in DOMAIN registered : registered'[n] = registered[n]
<1>0. registered \in Seq(SigningKey) /\ Len(registered) <= MaxNodes
  BY DEF TypeOK
<1>1. registered \in Seq(SigningKey) /\ Len(registered) \in Nat /\ Len(registered) <= MaxNodes
      /\ MaxNodes \in Nat
  BY SMTT(60), <1>0, RegistrantAssumption
<1>2. CASE Register
  <2>1. PICK k \in SigningKey : registered' = Append(registered, k) /\ Len(registered) < MaxNodes
    BY <1>2 DEF Register
  <2> QED
    BY SMTT(60), <1>1, <2>1
<1>3. CASE UNCHANGED registered
  BY SMTT(60), <1>1, <1>3
<1>4. Register \/ UNCHANGED registered
  BY DEF Next, vars, Boot, Refresh, Crash, getRegistryRecord, InsertNodeInfo, SelectNodeInfo,
         StatementFails
<1> QED
  BY <1>2, <1>3, <1>4

\* The first node with a key stays the first one (registrant.go:113-118).
LEMMA FirstStays ==
  ASSUME TypeOK, [Next]_vars, NEW k, NEW id \in Nat, FirstWith(k, id)
  PROVE  /\ id + 1 \in DOMAIN registered' /\ registered'[id + 1] = k
         /\ \A n \in 1 .. id : registered'[n] # k
<1>0. registered \in Seq(SigningKey)
  BY DEF TypeOK
<1>1. DOMAIN registered = 1 .. Len(registered) /\ Len(registered) \in Nat
  BY SMTT(60), <1>0
<1>2. registered' \in Seq(SigningKey) /\ DOMAIN registered' = 1 .. Len(registered') /\ Len(registered') \in Nat
  BY SMTT(60), RegisteredStep
<1>3. id + 1 \in 1 .. Len(registered) /\ Len(registered) <= Len(registered')
  BY <1>1, RegisteredStep DEF FirstWith
<1>4. \A n \in 1 .. id + 1 : n \in DOMAIN registered /\ registered'[n] = registered[n]
  BY SMTT(60), <1>1, <1>3, RegisteredStep
<1> QED
  BY SMTT(60), <1>2, <1>3, <1>4 DEF FirstWith

\* A key has one first node.
LEMMA FirstIsOne ==
  ASSUME NEW k, NEW a \in Nat, NEW b \in Nat, FirstWith(k, a), FirstWith(k, b)
  PROVE  a = b
<1>1. ASSUME a < b PROVE FALSE
  <2>1. a + 1 \in 1 .. b
    BY SMTT(60), <1>1
  <2> QED
    BY <2>1 DEF FirstWith
<1>2. ASSUME b < a PROVE FALSE
  <2>1. b + 1 \in 1 .. a
    BY SMTT(60), <1>2
  <2> QED
    BY <2>1 DEF FirstWith
<1> QED
  BY SMTT(60), <1>1, <1>2

\* The place that IndexFunc finds in a prefix is the first one of all.
LEMMA MatchIsFirst ==
  ASSUME NEW d \in Seq(SigningKey), registered \in Seq(SigningKey), IsPrefix(d, registered),
         NEW k, NEW n \in Matches(d, k)
  PROVE  n - 1 \in Nat /\ FirstWith(k, n - 1)
<1>1. Len(d) \in Nat /\ Len(registered) \in Nat /\ DOMAIN d = 1 .. Len(d)
      /\ DOMAIN registered = 1 .. Len(registered) /\ Len(d) <= Len(registered)
  BY SMTT(60) DEF IsPrefix
<1>2. n \in 1 .. Len(d) /\ d[n] = k /\ \A m \in 1 .. n - 1 : d[m] # k
  BY <1>1 DEF Matches
<1>3. \A m \in 1 .. n : m \in DOMAIN d /\ d[m] = registered[m]
  BY SMTT(60), <1>1, <1>2 DEF IsPrefix
<1> QED
  BY SMTT(60), <1>1, <1>2, <1>3 DEF FirstWith

-----------------------------------------------------------------------------
(* Steps *)

\* What IInv says of one process.
ProcessInv(p) ==
  /\ pc[p] = "running" => node_info = Identity(p)
  /\ exit[p] = "mismatch" => node_info.key # key[p]
  /\ IsPrefix(directory[p], registered)
  /\ pc[p] \in {"insert", "select", "running"} => record[p] # None /\ FirstWith(key[p], record[p])
  /\ pc[p] = "select" \/ exit[p] = "mismatch" => node_info # None

\* What IInv says of the row.
RowInv == node_info # None => FirstWith(node_info.key, node_info.id)

\* IInv, process by process.
LEMMA IInvParts == IInv <=> TypeOK /\ RowInv /\ \A p \in Process : ProcessInv(p)
BY DEF IInv, RowInv, ProcessInv, OneIdentity, RestartAccepted

\* The identity a process is about to claim is not the absence of a row.
LEMMA IdentityFacts ==
  ASSUME TypeOK, NEW p \in Process, ProcessInv(p), pc[p] \in {"insert", "select", "running"}
  PROVE  /\ Identity(p) \in [id : Nat, key : PublicKey] /\ Identity(p) # None
         /\ record[p] \in Nat /\ FirstWith(key[p], record[p])
<1>1. record[p] \in Nat /\ key[p] \in PublicKey /\ FirstWith(key[p], record[p])
  BY DEF TypeOK, ProcessInv
<1>2. Identity(p) \in [id : Nat, key : PublicKey]
  BY <1>1 DEF Identity
<1>3. Identity(p) \in [id : Int, key : PublicKey]
  BY SMTT(60), <1>1 DEF Identity
<1> QED
  BY <1>1, <1>2, <1>3, RegistrantAssumption

\* The row is written once, with the identity of a process (registrant.go:128).
LEMMA RowStep ==
  ASSUME IInv, [Next]_vars
  PROVE  /\ node_info' = node_info
            \/ (node_info = None /\ \E p \in Process : pc[p] = "insert" /\ node_info' = Identity(p))
         /\ node_info' \in [id : Nat, key : PublicKey] \cup {None}
         /\ RowInv'
<1>1. /\ node_info' = node_info
         \/ (node_info = None /\ \E p \in Process : pc[p] = "insert" /\ node_info' = Identity(p))
  BY DEF Next, vars, procVars, Register, Boot, Refresh, Crash, getRegistryRecord,
         InsertNodeInfo, SelectNodeInfo, StatementFails
<1>2. CASE node_info' = node_info
  <2>1. node_info \in [id : Nat, key : PublicKey] \cup {None} /\ RowInv
    BY IInvParts DEF TypeOK
  <2>2. ASSUME node_info # None PROVE FirstWith(node_info.key, node_info.id)'
    <3>1. node_info.id \in Nat /\ FirstWith(node_info.key, node_info.id)
      BY <2>1, <2>2 DEF RowInv
    <3> QED
      BY SMTT(60), <1>2, <3>1, FirstStays, IInvParts DEF FirstWith
  <2> QED
    BY <1>2, <2>1, <2>2 DEF RowInv
<1>3. ASSUME NEW p \in Process, pc[p] = "insert", node_info' = Identity(p) PROVE RowInv'
  <2>1. record[p] \in Nat /\ FirstWith(key[p], record[p])
    BY <1>3, IInvParts, IdentityFacts
  <2>2. node_info'.key = key[p] /\ node_info'.id = record[p]
    BY <1>3 DEF Identity
  <2> QED
    BY SMTT(60), <2>1, <2>2, FirstStays, IInvParts DEF RowInv, FirstWith
<1>4. \A p \in Process : pc[p] = "insert" => Identity(p) \in [id : Nat, key : PublicKey]
  BY IInvParts, IdentityFacts
<1> QED
  BY <1>1, <1>2, <1>3, <1>4, IInvParts DEF TypeOK

\* Nothing another process does disturbs a process.
LEMMA OthersStep ==
  ASSUME IInv, [Next]_vars, NEW p \in Process,
         pc'[p] = pc[p], key'[p] = key[p], record'[p] = record[p], exit'[p] = exit[p],
         directory'[p] = directory[p]
  PROVE  ProcessInv(p)'
<1>t. TypeOK /\ ProcessInv(p)
  BY IInvParts
<1>1. node_info # None => node_info' = node_info
  BY RowStep
<1>2. IsPrefix(directory[p], registered)'
  <2>1. registered \in Seq(SigningKey) /\ directory[p] \in Seq(SigningKey)
        /\ IsPrefix(directory[p], registered)
    BY <1>t DEF TypeOK, ProcessInv
  <2>2. \A n \in DOMAIN directory[p] : n \in DOMAIN registered
    BY SMTT(60), <2>1 DEF IsPrefix
  <2>3. Len(directory[p]) \in Nat /\ Len(registered) \in Nat /\ Len(registered') \in Nat
    BY SMTT(60), <1>t, <2>1, RegisteredStep
  <2> QED
    BY SMTT(60), <1>t, <2>1, <2>2, <2>3, RegisteredStep DEF IsPrefix
<1>3. ASSUME pc[p] \in {"insert", "select", "running"}
      PROVE  record[p] # None /\ FirstWith(key[p], record[p])'
  <2>1. record[p] \in Nat /\ record[p] # None /\ FirstWith(key[p], record[p])
    BY <1>t, <1>3, IdentityFacts DEF ProcessInv
  <2> QED
    BY SMTT(60), <1>t, <2>1, FirstStays DEF FirstWith
<1>4. ASSUME pc[p] = "running" PROVE node_info' = Identity(p)'
  <2>1. node_info = Identity(p) /\ Identity(p) # None
    BY <1>t, <1>4, IdentityFacts DEF ProcessInv
  <2> QED
    BY <1>1, <2>1 DEF Identity
<1>5. exit[p] = "mismatch" => node_info # None /\ node_info.key # key[p]
  BY <1>t DEF ProcessInv
<1>6. pc[p] = "select" => node_info # None
  BY <1>t DEF ProcessInv
<1> QED
  BY <1>1, <1>2, <1>3, <1>4, <1>5, <1>6 DEF ProcessInv

\* A registration changes no process.
LEMMA RegisterStep ==
  ASSUME IInv, Register
  PROVE  TypeOK' /\ \A p \in Process : ProcessInv(p)'
<1>t. TypeOK /\ [Next]_vars
  BY IInvParts DEF Next
<1>1. TypeOK'
  BY <1>t, RegisteredStep DEF Register, procVars, TypeOK
<1> QED
  BY <1>t, <1>1, OthersStep DEF Register, procVars

\* A process keeps its identity, once it has claimed or confirmed it, through every
\* step of its own and of the others (registrant.go:105-153).
LEMMA ProcessStep ==
  ASSUME IInv, NEW p \in Process,
         \/ Boot(p) \/ Refresh(p) \/ Crash(p) \/ getRegistryRecord(p)
         \/ InsertNodeInfo(p) \/ SelectNodeInfo(p) \/ StatementFails(p)
  PROVE  TypeOK' /\ \A q \in Process : ProcessInv(q)'
<1>t. TypeOK /\ ProcessInv(p) /\ [Next]_vars
  BY IInvParts DEF Next
<1>r. /\ registered \in Seq(SigningKey) /\ Len(registered) <= MaxNodes
      /\ directory \in [Process -> Seq(SigningKey)]
  BY <1>t DEF TypeOK
<1>f. /\ pc \in [Process -> {"down", "lookup", "insert", "select", "running"}]
      /\ key \in [Process -> PublicKey]
      /\ record \in [Process -> Nat \cup {None}]
      /\ exit \in [Process -> {"none", "panic", "not in registry", "mismatch", "database"}]
  BY <1>t DEF TypeOK
<1>n. node_info' \in [id : Nat, key : PublicKey] \cup {None}
  BY <1>t, RowStep
<1>u. registered' = registered
  BY DEF Boot, Refresh, Crash, getRegistryRecord, InsertNodeInfo, SelectNodeInfo, StatementFails
<1>1. CASE Boot(p)
  <2>1. PICK k \in PublicKey, d \in Registry(directory[p])!Prefixes(registered) :
          /\ key' = [key EXCEPT ![p] = k]
          /\ directory' = [directory EXCEPT ![p] = d]
    BY <1>1 DEF Boot
  <2>2. d \in Seq(SigningKey) /\ IsPrefix(d, registered)
    BY <1>r, PrefixFacts
  <2>3. directory' \in [Process -> Seq(SigningKey)] /\ directory'[p] = d
        /\ \A q \in Process \ {p} : directory'[q] = directory[q]
    BY <1>r, <2>1, <2>2
  <2>4. /\ pc' \in [Process -> {"down", "lookup", "insert", "select", "running"}]
        /\ key' \in [Process -> PublicKey]
        /\ record' \in [Process -> Nat \cup {None}]
        /\ exit' \in [Process -> {"none", "panic", "not in registry", "mismatch", "database"}]
        /\ pc'[p] = "lookup" /\ exit'[p] = "none"
        /\ \A q \in Process \ {p} : /\ pc'[q] = pc[q] /\ key'[q] = key[q]
                                   /\ record'[q] = record[q] /\ exit'[q] = exit[q]
    BY <1>1, <1>f, <2>1 DEF Boot
  <2>5. ProcessInv(p)'
    BY <1>u, <2>2, <2>3, <2>4 DEF ProcessInv
  <2>6. \A q \in Process \ {p} : ProcessInv(q)'
    BY <1>t, <2>3, <2>4, OthersStep
  <2> QED
    BY <1>n, <1>r, <1>u, <2>3, <2>4, <2>5, <2>6 DEF TypeOK
<1>2. CASE Refresh(p)
  <2>1. PICK d \in Registry(directory[p])!Prefixes(registered) :
          directory' = [directory EXCEPT ![p] = d]
    BY <1>2 DEF Refresh
  <2>2. d \in Seq(SigningKey) /\ IsPrefix(d, registered)
    BY <1>r, PrefixFacts
  <2>3. directory' \in [Process -> Seq(SigningKey)] /\ directory'[p] = d
        /\ \A q \in Process \ {p} : directory'[q] = directory[q]
    BY <1>r, <2>1, <2>2
  <2>4. UNCHANGED <<pc, key, record, exit, node_info>>
    BY <1>2 DEF Refresh
  <2>5. ProcessInv(p)'
    BY <1>t, <1>u, <2>2, <2>3, <2>4 DEF ProcessInv, Identity, FirstWith
  <2>6. \A q \in Process \ {p} : ProcessInv(q)'
    BY <1>t, <2>3, <2>4, OthersStep
  <2> QED
    BY <1>f, <1>n, <1>r, <1>u, <2>3, <2>4, <2>5, <2>6 DEF TypeOK
<1>3. CASE Crash(p) \/ getRegistryRecord(p) \/ InsertNodeInfo(p) \/ SelectNodeInfo(p)
           \/ StatementFails(p)
  <2>1. UNCHANGED <<directory, key>>
    BY <1>3 DEF Crash, getRegistryRecord, InsertNodeInfo, SelectNodeInfo, StatementFails
  <2>2. /\ pc' \in [Process -> {"down", "lookup", "insert", "select", "running"}]
        /\ exit' \in [Process -> {"none", "panic", "not in registry", "mismatch", "database"}]
        /\ \A q \in Process \ {p} : pc'[q] = pc[q] /\ exit'[q] = exit[q]
    BY <1>3, <1>f DEF Crash, getRegistryRecord, InsertNodeInfo, SelectNodeInfo,
                      StatementFails, Exit
  <2>3. /\ record' \in [Process -> Nat \cup {None}]
        /\ \A q \in Process \ {p} : record'[q] = record[q]
        /\ record' # record => /\ pc'[p] = "insert" /\ record'[p] \in Nat /\ exit'[p] = exit[p]
                               /\ FirstWith(key[p], record'[p])
    <3>1. CASE record' = record
      BY <1>f, <3>1
    <3>2. CASE record' # record
      <4>1. PICK n \in Matches(directory[p], key[p]) :
              record' = [record EXCEPT ![p] = n - 1] /\ pc' = [pc EXCEPT ![p] = "insert"]
              /\ exit' = exit
        BY <1>3, <3>2 DEF Crash, getRegistryRecord, InsertNodeInfo, SelectNodeInfo, StatementFails
      <4>2. n - 1 \in Nat /\ FirstWith(key[p], n - 1)
        BY <1>r, <1>t, <4>1, MatchIsFirst DEF ProcessInv
      <4> QED
        BY <1>f, <4>1, <4>2
    <3> QED
      BY <3>1, <3>2
  <2>4. TypeOK'
    BY <1>f, <1>n, <1>r, <1>u, <2>1, <2>2, <2>3 DEF TypeOK
  <2>5. \A q \in Process \ {p} : ProcessInv(q)'
    BY <1>t, <2>1, <2>2, <2>3, OthersStep
  <2>6. ProcessInv(p)'
    <3>1. IsPrefix(directory[p], registered)'
      BY <1>t, <1>u, <2>1 DEF ProcessInv
    <3>2. \A k, id : FirstWith(k, id)' <=> FirstWith(k, id)
      BY <1>u DEF FirstWith
    <3>3. CASE Crash(p) \/ StatementFails(p)
      <4>1. pc'[p] = "down" /\ exit'[p] \in {"none", "database"}
        BY <1>f, <3>3 DEF Crash, StatementFails, Exit
      <4> QED
        BY <3>1, <4>1 DEF ProcessInv
    <3>4. CASE getRegistryRecord(p)
      <4>1. node_info' = node_info
        BY <3>4 DEF getRegistryRecord
      <4>2. \/ pc'[p] = "down" /\ exit'[p] \in {"panic", "not in registry"}
            \/ /\ pc'[p] = "insert" /\ exit'[p] = exit[p] /\ record'[p] \in Nat
               /\ FirstWith(key[p], record'[p])
        <5>1. CASE Exit(p, "panic") \/ Exit(p, "not in registry")
          BY <1>f, <5>1 DEF Exit
        <5>2. ASSUME NEW n \in Matches(directory[p], key[p]), record' = [record EXCEPT ![p] = n - 1],
                     pc' = [pc EXCEPT ![p] = "insert"], exit' = exit
              PROVE  /\ pc'[p] = "insert" /\ exit'[p] = exit[p] /\ record'[p] \in Nat
                     /\ FirstWith(key[p], record'[p])
          <6>1. n - 1 \in Nat /\ FirstWith(key[p], n - 1)
            BY <1>r, <1>t, MatchIsFirst DEF ProcessInv
          <6> QED
            BY <1>f, <5>2, <6>1
        <5> QED
          BY <3>4, <5>1, <5>2 DEF getRegistryRecord
      <4>3. record'[p] \in Nat => record'[p] # None
        BY SMTT(60), RegistrantAssumption
      <4> QED
        BY <1>t, <2>1, <3>1, <3>2, <4>1, <4>2, <4>3 DEF ProcessInv
    <3>5. CASE InsertNodeInfo(p)
      <4>1. pc[p] = "insert" /\ record' = record /\ exit' = exit
        BY <3>5 DEF InsertNodeInfo
      <4>2. record[p] # None /\ FirstWith(key[p], record[p])
        BY <1>t, <4>1 DEF ProcessInv
      <4>3. CASE node_info = None
        <5>1. node_info' = Identity(p) /\ pc'[p] = "running"
          BY <1>f, <3>5, <4>3 DEF InsertNodeInfo
        <5>2. exit[p] # "mismatch"
          BY <1>t, <4>3 DEF ProcessInv
        <5> QED
          BY <2>1, <3>1, <3>2, <4>1, <4>2, <5>1, <5>2 DEF ProcessInv, Identity
      <4>4. CASE node_info # None
        <5>1. node_info' = node_info /\ pc'[p] = "select"
          BY <1>f, <3>5, <4>4 DEF InsertNodeInfo
        <5> QED
          BY <1>t, <2>1, <3>1, <3>2, <4>1, <4>2, <4>4, <5>1 DEF ProcessInv
      <4> QED
        BY <4>3, <4>4
    <3>6. CASE SelectNodeInfo(p)
      <4>1. pc[p] = "select" /\ record' = record /\ node_info' = node_info
        BY <3>6 DEF SelectNodeInfo
      <4>2. record[p] # None /\ record[p] \in Nat /\ FirstWith(key[p], record[p]) /\ node_info # None
        BY <1>t, <4>1, IdentityFacts DEF ProcessInv
      <4>3. node_info \in [id : Nat, key : PublicKey] /\ FirstWith(node_info.key, node_info.id)
        BY <1>t, <4>2, IInvParts DEF TypeOK, RowInv
      <4>4. CASE node_info.id = record[p] /\ node_info.key = key[p]
        <5>1. pc'[p] = "running" /\ exit' = exit
          BY <1>f, <3>6, <4>4 DEF SelectNodeInfo
        <5>2. node_info = Identity(p)
          BY <4>3, <4>4 DEF Identity
        <5> QED
          BY <1>t, <2>1, <3>1, <3>2, <4>1, <4>2, <5>1, <5>2 DEF ProcessInv, Identity
      <4>5. CASE ~(node_info.id = record[p] /\ node_info.key = key[p])
        <5>1. pc'[p] = "down" /\ exit'[p] = "mismatch"
          BY <1>f, <3>6, <4>5 DEF SelectNodeInfo, Exit
        <5>2. node_info.key # key[p]
          <6>1. node_info.id \in Nat
            BY <4>3
          <6> QED
            BY <4>2, <4>3, <4>5, <6>1, FirstIsOne
        <5> QED
          BY <2>1, <3>1, <4>1, <4>2, <5>1, <5>2 DEF ProcessInv
      <4> QED
        BY <4>4, <4>5
    <3> QED
      BY <1>3, <3>3, <3>4, <3>5, <3>6
  <2> QED
    BY <2>4, <2>5, <2>6
<1> QED
  BY <1>1, <1>2, <1>3

-----------------------------------------------------------------------------
(* Theorems *)

\* The invariant holds however servers start, stop and crash on a database.
THEOREM InductiveInvariant == Spec => []IInv
<1>1. Init => IInv
  <2> SUFFICES ASSUME Init PROVE IInv
    OBVIOUS
  <2>1. registered = <<>> /\ registered \in Seq(SigningKey) /\ Len(registered) = 0
    BY SMTT(60) DEF Init
  <2>2. directory \in [Process -> Seq(SigningKey)] /\ \A p \in Process : directory[p] = <<>>
    BY SMTT(60) DEF Init
  <2>3. TypeOK
    BY SMTT(60), <2>1, <2>2, RegistrantAssumption DEF Init, TypeOK
  <2>4. \A p \in Process : ProcessInv(p)
    <3>1. \A p \in Process : pc[p] = "down" /\ exit[p] = "none"
      BY DEF Init
    <3>2. IsPrefix(<<>>, <<>>)
      BY SMTT(60) DEF IsPrefix
    <3> QED
      BY <2>1, <2>2, <3>1, <3>2 DEF ProcessInv
  <2>5. RowInv
    BY DEF Init, RowInv
  <2> QED
    BY <2>3, <2>4, <2>5, IInvParts
<1>2. IInv /\ [Next]_vars => IInv'
  <2> SUFFICES ASSUME IInv, [Next]_vars PROVE IInv'
    OBVIOUS
  <2>0. ASSUME TypeOK', \A p \in Process : ProcessInv(p)' PROVE IInv'
    <3>1. RowInv'
      BY RowStep
    <3> QED
      BY <2>0, <3>1 DEF IInv, RowInv, ProcessInv, OneIdentity, RestartAccepted
  <2>1. CASE UNCHANGED vars
    <3>1. TypeOK'
      BY <2>1, IInvParts DEF vars, procVars, TypeOK
    <3>2. \A p \in Process : ProcessInv(p)'
      BY <2>1, OthersStep DEF vars, procVars
    <3> QED
      BY <2>0, <3>1, <3>2
  <2>2. CASE Register
    BY <2>0, <2>2, RegisterStep
  <2>3. CASE \E p \in Process : \/ Boot(p) \/ Refresh(p) \/ Crash(p) \/ getRegistryRecord(p)
                              \/ InsertNodeInfo(p) \/ SelectNodeInfo(p) \/ StatementFails(p)
    BY <2>0, <2>3, ProcessStep
  <2> QED
    BY <2>1, <2>2, <2>3 DEF Next
<1> QED
  BY <1>1, <1>2, PTL DEF Spec

\* "Prevents mistakes such as: - Running multiple nodes with different private keys
\* against the same DB" (registrant.go:124-126), for any number of processes.
THEOREM DatabaseHasOneIdentity == Spec => []OneIdentity
<1>1. IInv => OneIdentity
  BY DEF IInv
<1> QED
  BY <1>1, InductiveInvariant, PTL

\* A node is never turned away from its own database (registrant.go:139-150), whatever
\* the age of its registry and however often its key is registered.
THEOREM RestartIsAccepted == Spec => []RestartAccepted
<1>1. IInv => RestartAccepted
  BY DEF IInv
<1> QED
  BY <1>1, InductiveInvariant, PTL

\* A key that does not parse stays registered, and what was before it stays before it.
LEMMA NilStays ==
  ASSUME TypeOK, [Next]_vars, NEW k, NilBefore(k)
  PROVE  NilBefore(k)'
<1>1. PICK n \in DOMAIN registered :
        registered[n] = Nil /\ \A m \in 1 .. n - 1 : registered[m] # k
  BY DEF NilBefore
<1>2. registered \in Seq(SigningKey)
  BY DEF TypeOK
<1>3. /\ DOMAIN registered = 1 .. Len(registered) /\ Len(registered) \in Nat
      /\ DOMAIN registered' = 1 .. Len(registered') /\ Len(registered') \in Nat
      /\ Len(registered) <= Len(registered')
      /\ \A m \in DOMAIN registered : registered'[m] = registered[m]
  BY SMTT(60), <1>2, RegisteredStep
<1>4. \A m \in 1 .. n : m \in DOMAIN registered /\ m \in DOMAIN registered'
  BY SMTT(60), <1>3
<1>5. n \in DOMAIN registered' /\ registered'[n] = Nil
      /\ \A m \in 1 .. n - 1 : registered'[m] # k
  BY SMTT(60), <1>1, <1>3, <1>4
<1> QED
  BY <1>5 DEF NilBefore

\* A server whose own key is registered before a key that does not parse never meets the
\* nil SigningKey in getRegistryRecord (registrant.go:114-116).
THEOREM InvalidKeyStopsOnlyLaterNodes == Spec => []EarlierNodesStart
<1>1. Init => EarlierNodesStart
  BY DEF Init, EarlierNodesStart
<1>2. IInv /\ EarlierNodesStart /\ [Next]_vars => EarlierNodesStart'
  <2> SUFFICES ASSUME IInv, EarlierNodesStart, [Next]_vars, NEW q \in Process,
                      exit'[q] = "panic"
               PROVE  NilBefore(key[q])'
    BY DEF EarlierNodesStart
  <2>t. TypeOK
    BY DEF IInv
  <2>f. exit \in [Process -> {"none", "panic", "not in registry", "mismatch", "database"}]
        /\ key \in [Process -> PublicKey]
    BY <2>t DEF TypeOK
  <2>1. CASE exit[q] = "panic" /\ key'[q] = key[q]
    BY SMTT(60), <2>t, <2>1, NilStays DEF EarlierNodesStart, NilBefore
  <2>2. CASE ~(exit[q] = "panic" /\ key'[q] = key[q])
    <3>1. /\ getRegistryRecord(q) /\ FoundNil(directory[q], key[q])
      <4>1. ASSUME NEW p \in Process, getRegistryRecord(p)
            PROVE  getRegistryRecord(q) /\ FoundNil(directory[q], key[q])
        <5>1. \/ exit' = exit
              \/ \E why \in {"panic", "not in registry"} :
                   /\ exit' = [exit EXCEPT ![p] = why]
                   /\ why = "panic" => FoundNil(directory[p], key[p])
          BY <4>1 DEF getRegistryRecord, Exit
        <5>2. key' = key
          BY <4>1 DEF getRegistryRecord
        <5> QED
          BY <2>2, <2>f, <4>1, <5>1, <5>2
      <4>2. ASSUME NEW p \in Process, Boot(p) \/ Refresh(p) \/ Crash(p) \/ InsertNodeInfo(p)
                     \/ SelectNodeInfo(p) \/ StatementFails(p)
            PROVE  FALSE
        BY <2>2, <2>f, <4>2 DEF Boot, Refresh, Crash, InsertNodeInfo, SelectNodeInfo,
                               StatementFails, Exit
      <4>3. ASSUME Register \/ UNCHANGED vars PROVE FALSE
        BY <2>2, <4>3 DEF Register, vars, procVars
      <4> QED
        BY <4>1, <4>2, <4>3 DEF Next
    <3>2. key' = key /\ registered' = registered
      BY <3>1 DEF getRegistryRecord
    <3>3. PICK n \in DOMAIN directory[q] :
            directory[q][n] = Nil /\ \A m \in 1 .. n : directory[q][m] # key[q]
      BY <3>1 DEF FoundNil, Searched
    <3>4. /\ IsPrefix(directory[q], registered) /\ directory[q] \in Seq(SigningKey)
          /\ registered \in Seq(SigningKey)
      BY <2>t DEF IInv, TypeOK
    <3>5. \A m \in 1 .. n : m \in DOMAIN directory[q] /\ m \in DOMAIN registered
                            /\ registered[m] = directory[q][m]
      BY SMTT(60), <3>4 DEF IsPrefix
    <3>6. n \in 1 .. n /\ \A m \in 1 .. n - 1 : m \in 1 .. n
      BY SMTT(60), <3>4
    <3>7. NilBefore(key[q])
      BY <3>3, <3>5, <3>6 DEF NilBefore
    <3> QED
      BY <3>2, <3>7 DEF NilBefore
  <2> QED
    BY <2>1, <2>2
<1> QED
  BY <1>1, <1>2, InductiveInvariant, PTL DEF Spec

-----------------------------------------------------------------------------
(* Refinement of DatabaseOwner *)

\* What a process serves under changes with its own step only.
LEMMA ServingStep ==
  ASSUME NEW p \in Process,
         \A q \in Process \ {p} : pc'[q] = pc[q] /\ key'[q] = key[q] /\ record'[q] = record[q]
  PROVE  /\ Serving' = [Serving EXCEPT ![p] = Serving'[p]]
         /\ Serving'[p] = Serving[p] => Serving' = Serving
<1>1. \A q \in Process \ {p} : Serving'[q] = Serving[q]
  BY DEF Serving, Identity
<1>2. /\ Serving = [q \in Process |-> Serving[q]]
      /\ Serving' = [q \in Process |-> Serving'[q]]
  BY DEF Serving
<1> QED
  BY <1>1, <1>2

\* Each step of a process is a step of DatabaseOwner or leaves it alone.
LEMMA OwnerStep ==
  ASSUME IInv, NEW p \in Process,
         \/ Boot(p) \/ Refresh(p) \/ Crash(p) \/ getRegistryRecord(p)
         \/ InsertNodeInfo(p) \/ SelectNodeInfo(p) \/ StatementFails(p)
  PROVE  [Owner!Next]_(Owner!vars)
<1>t. TypeOK /\ ProcessInv(p)
  BY IInvParts
<1>f. /\ pc \in [Process -> {"down", "lookup", "insert", "select", "running"}]
      /\ key \in [Process -> PublicKey]
      /\ record \in [Process -> Nat \cup {None}]
      /\ node_info \in [id : Nat, key : PublicKey] \cup {None}
  BY <1>t DEF TypeOK
<1>o. \A q \in Process \ {p} : pc'[q] = pc[q] /\ key'[q] = key[q] /\ record'[q] = record[q]
  BY <1>f DEF Boot, Refresh, Crash, getRegistryRecord, InsertNodeInfo, SelectNodeInfo,
              StatementFails, Exit
<1>s. /\ Serving' = [Serving EXCEPT ![p] = Serving'[p]]
      /\ Serving'[p] = Serving[p] => Serving' = Serving
  BY <1>o, ServingStep
<1>p. /\ Serving[p] = IF pc[p] = "running" THEN Identity(p) ELSE None
      /\ Serving'[p] = IF pc'[p] = "running" THEN [id |-> record'[p], key |-> key'[p]] ELSE None
  BY DEF Serving, Identity
<1>1. CASE Boot(p) \/ Refresh(p) \/ getRegistryRecord(p)
  <2>1. UNCHANGED node_info
    BY <1>1 DEF Boot, Refresh, getRegistryRecord
  <2>2. CASE Boot(p) \/ getRegistryRecord(p)
    <3>1. pc[p] # "running" /\ pc'[p] # "running"
      BY <1>f, <2>2 DEF Boot, getRegistryRecord, Exit
    <3> QED
      BY <1>p, <1>s, <2>1, <3>1 DEF Owner!vars
  <2>3. CASE Refresh(p)
    BY <1>p, <1>s, <2>1, <2>3 DEF Refresh, Identity, Owner!vars
  <2> QED
    BY <1>1, <2>2, <2>3
<1>2. CASE Crash(p)
  <2>1. UNCHANGED node_info /\ Serving'[p] = None
    BY <1>2, <1>f, <1>p DEF Crash, Exit
  <2>2. CASE pc[p] = "running"
    <3>1. Serving[p] # None
      BY <1>t, <1>p, <2>2, IdentityFacts
    <3>2. Owner!Stop(p)
      BY <1>s, <2>1, <3>1 DEF Owner!Stop
    <3> QED
      BY <3>2 DEF Owner!Next
  <2>3. CASE pc[p] # "running"
    BY <1>p, <1>s, <2>1, <2>3 DEF Owner!vars
  <2> QED
    BY <2>2, <2>3
<1>3. CASE InsertNodeInfo(p)
  <2>0. Serving[p] = None /\ Identity(p) \in [id : Nat, key : PublicKey]
    BY <1>t, <1>p, <1>3, IdentityFacts DEF InsertNodeInfo
  <2>1. CASE node_info = None
    <3>1. node_info' = Identity(p) /\ Serving'[p] = Identity(p)
      BY <1>3, <1>f, <1>p, <2>1 DEF InsertNodeInfo, Identity
    <3>2. Owner!Serve(p)
      BY <1>s, <2>0, <2>1, <3>1 DEF Owner!Serve
    <3> QED
      BY <3>2 DEF Owner!Next
  <2>2. CASE node_info # None
    <3>1. node_info' = node_info /\ Serving'[p] = None
      BY <1>3, <1>f, <1>p, <2>2 DEF InsertNodeInfo
    <3> QED
      BY <1>s, <2>0, <3>1 DEF Owner!vars
  <2> QED
    BY <2>1, <2>2
<1>4. CASE SelectNodeInfo(p)
  <2>0. Serving[p] = None /\ node_info' = node_info /\ node_info # None
    BY <1>t, <1>p, <1>4 DEF SelectNodeInfo, ProcessInv
  <2>1. CASE node_info.id = record[p] /\ node_info.key = key[p]
    <3>1. node_info = Identity(p)
      BY <1>f, <2>0, <2>1 DEF Identity
    <3>2. Serving'[p] = node_info'
      BY <1>4, <1>f, <1>p, <2>0, <2>1, <3>1 DEF SelectNodeInfo, Identity
    <3>3. Owner!Serve(p)
      BY <1>s, <2>0, <3>2 DEF Owner!Serve
    <3> QED
      BY <3>3 DEF Owner!Next
  <2>2. CASE ~(node_info.id = record[p] /\ node_info.key = key[p])
    <3>1. Serving'[p] = None
      BY <1>4, <1>f, <1>p, <2>2 DEF SelectNodeInfo, Exit
    <3> QED
      BY <1>s, <2>0, <3>1 DEF Owner!vars
  <2> QED
    BY <2>1, <2>2
<1>5. CASE StatementFails(p)
  <2>0. Serving[p] = None /\ Serving'[p] = None
    BY <1>5, <1>f, <1>p DEF StatementFails, Exit
  <2>1. CASE UNCHANGED node_info
    BY <1>s, <2>0, <2>1 DEF Owner!vars
  <2>2. CASE pc[p] = "insert" /\ node_info = None /\ node_info' = Identity(p)
    <3>1. Owner!Claim
      BY <1>s, <1>t, <2>0, <2>2, IdentityFacts DEF Owner!Claim
    <3> QED
      BY <3>1 DEF Owner!Next
  <2> QED
    BY <1>5, <2>1, <2>2 DEF StatementFails
<1> QED
  BY <1>1, <1>2, <1>3, <1>4, <1>5

\* For any number of processes, keys and nodes, NewRegistrant makes the database the
\* property of one identity for good: its insert, its read and its comparison
\* (registrant.go:128-148) amount to the one step that claims the database or finds it
\* its own, and an insert whose answer was lost amounts to a claim.
THEOREM DatabaseIsOwned == Spec => ImplementsOwner
<1>1. Init => Owner!Init
  BY DEF Init, Owner!Init, Serving
<1>2. IInv /\ [Next]_vars => [Owner!Next]_(Owner!vars)
  <2> SUFFICES ASSUME IInv, [Next]_vars PROVE [Owner!Next]_(Owner!vars)
    OBVIOUS
  <2>1. CASE Register \/ UNCHANGED vars
    BY <2>1 DEF Register, vars, procVars, Owner!vars, Serving, Identity
  <2>2. CASE ~(Register \/ UNCHANGED vars)
    <3>1. PICK p \in Process :
            \/ Boot(p) \/ Refresh(p) \/ Crash(p) \/ getRegistryRecord(p)
            \/ InsertNodeInfo(p) \/ SelectNodeInfo(p) \/ StatementFails(p)
      BY <2>2 DEF Next
    <3> QED
      BY <3>1, OwnerStep
  <2> QED
    BY <2>1, <2>2
<1> QED
  BY <1>1, <1>2, InductiveInvariant, PTL DEF Spec, ImplementsOwner, Owner!Spec

\* What DatabaseOwner is for holds of the statements of NewRegistrant: all processes that
\* serve a database do so under one identity, which outlives every one of them
\* (registrant.go:124-148).
THEOREM OwnerKeepsPromise == Spec => Owner!Promise
<1> DEFINE One == \A p \in Process : Serving[p] # None => Serving[p] = node_info
           Kept == node_info # None => node_info' = node_info
<1>1. Owner!Init => One
  BY DEF Owner!Init
<1>2. One /\ DOMAIN Serving = Process /\ [Owner!Next]_(Owner!vars) => One' /\ [Kept]_(Owner!vars)
  <2> SUFFICES ASSUME One, DOMAIN Serving = Process, [Owner!Next]_(Owner!vars)
               PROVE  One' /\ [Kept]_(Owner!vars)
    OBVIOUS
  <2> HIDE DEF Serving
  <2>1. CASE Owner!Claim
    BY <2>1 DEF Owner!Claim
  <2>2. ASSUME NEW p \in Process, Owner!Serve(p) PROVE One' /\ Kept
    BY <2>2 DEF Owner!Serve
  <2>3. ASSUME NEW p \in Process, Owner!Stop(p) PROVE One' /\ Kept
    BY <2>3 DEF Owner!Stop
  <2>4. CASE UNCHANGED Owner!vars
    BY <2>4 DEF Owner!vars
  <2> QED
    BY <2>1, <2>2, <2>3, <2>4 DEF Owner!Next
<1>3. DOMAIN Serving = Process
  BY DEF Serving
<1> QED
  BY <1>1, <1>2, <1>3, DatabaseIsOwned, PTL DEF ImplementsOwner, Owner!Spec, Owner!Promise

=============================================================================
