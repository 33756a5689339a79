---------------------------- MODULE StartupProofs ----------------------------
(***************************************************************************)
(* Proofs about Startup, for any number of replicas and of other writers,  *)
(* any environments and any number of failures.  That schema_migrations    *)
(* tells the truth rests on two facts that no single step establishes: a   *)
(* replica gets to a version only when all earlier ones are recorded       *)
(* (OrderInv), and what is committed is whole versions (SchemaInv).        *)
(***************************************************************************)
EXTENDS Startup, FiniteSetTheorems, TLAPS

\* What each version consists of.
LEMMA Bodies ==
  /\ Len(Body[0]) = 1 /\ Len(Body[1]) = 3 /\ Len(Body[2]) = 3 /\ Len(Body[3]) = 1
  /\ \A v \in 0 .. 3 : Len(Body[v]) \in 1 .. 3
<1>1. /\ Body[0] = <<Create("schema_migrations")>>
      /\ Body[1] = <<Create("api_keys"), Create("usage_records"), Create("quota_totals")>>
      /\ Body[2] = <<Alter("api_keys"), Alter("usage_records"), Alter("quota_totals")>>
      /\ Body[3] = <<Create("upstream_keys")>>
  BY DEF Body
<1>2. /\ Len(Body[0]) = 1 /\ Len(Body[1]) = 3 /\ Len(Body[2]) = 3 /\ Len(Body[3]) = 1
  BY <1>1
<1>3. ASSUME NEW v \in 0 .. 3
      PROVE  Len(Body[v]) \in 1 .. 3
  <2>1. v = 0 \/ v = 1 \/ v = 2 \/ v = 3
    OBVIOUS
  <2>2. 1 \in 1 .. 3 /\ 3 \in 1 .. 3
    OBVIOUS
  <2>3. QED
    BY <1>2, <2>1, <2>2, Zenon
<1>4. QED
  BY <1>2, <1>3

LEMMA BodyLength ==
  ASSUME NEW v \in 0 .. 3
  PROVE  Len(Body[v]) \in 1 .. 3 /\ Len(Body[v]) \in Nat /\ 1 <= Len(Body[v])
<1>1. Len(Body[v]) \in 1 .. 3
  BY Bodies, Zenon
<1> DEFINE n == Len(Body[v])
<1> HIDE DEF n
<1>2. n \in 1 .. 3 => n \in Nat /\ 1 <= n
  OBVIOUS
<1>3. QED
  BY <1>1, <1>2 DEF n

\* Versions share no statement.
LEMMA Disjoint ==
  ASSUME NEW v \in 0 .. 3, NEW w \in 0 .. 3, v # w
  PROVE  StatementsOf(v) \cap StatementsOf(w) = {}
  BY DEF StatementsOf

LEMMA StatementsAreStatements ==
  ASSUME NEW v \in 0 .. 3
  PROVE  StatementsOf(v) \subseteq Statements
  BY DEF Statements

-----------------------------------------------------------------------------
InMigrate == {"body", "insert", "commit"}

\* A replica inside a version has a statement to do, or has done them all.
PlaceInv ==
  \A r \in Replicas :
    /\ pc[r] = "body" => stmt[r] <= Len(Body[ver[r]])
    /\ pc[r] \in {"check", "insert"} => ver[r] # 0
    /\ ticker[r] # "none" => pc[r] \in {"listen", "serving"}

\* A replica gets to a version when the earlier ones are recorded, and past
\* the last when all are.
OrderInv ==
  \A r \in Replicas :
    /\ pc[r] \in {"check"} \cup InMigrate => 1 .. ver[r] - 1 \subseteq recorded
    /\ pc[r] \in Migrated => recorded = Versions

\* Committed are the first versions, each as a whole.
SchemaInv ==
  /\ \E n \in 0 .. 3 : recorded = 1 .. n
  /\ done \ StatementsOf(0) = UNION {StatementsOf(v) : v \in recorded}

IInv == TypeOK /\ PlaceInv /\ OrderInv /\ SchemaInv

-----------------------------------------------------------------------------
LEMMA InitIInv == Init => IInv
<1> SUFFICES ASSUME Init
             PROVE  IInv
  OBVIOUS
<1>1. \E n \in 0 .. 3 : /\ recorded = 1 .. n /\ hasKey \in BOOLEAN
                       /\ \/ n = 0 /\ done = {}
                          \/ done = UNION {StatementsOf(v) : v \in 0 .. n}
  <2>1. CASE recorded = {} /\ done = {} /\ hasKey = FALSE
    <3>1. recorded = 1 .. 0 /\ 0 \in 0 .. 3 /\ 0 = 0
      BY <2>1
    <3>2. hasKey \in BOOLEAN
      BY <2>1
    <3>3. QED
      BY <2>1, <3>1, <3>2
  <2>2. CASE \E last \in Versions :
               /\ recorded = 1 .. last
               /\ done = UNION {StatementsOf(v) : v \in 0 .. last}
               /\ hasKey \in (IF last = 3 THEN BOOLEAN ELSE {FALSE})
    <3>1. PICK last \in Versions :
               /\ recorded = 1 .. last
               /\ done = UNION {StatementsOf(v) : v \in 0 .. last}
               /\ hasKey \in (IF last = 3 THEN BOOLEAN ELSE {FALSE})
      BY <2>2
    <3>2. hasKey \in BOOLEAN
      BY <3>1
    <3>3. last \in 0 .. 3
      BY DEF Versions
    <3>4. QED
      BY <3>1, <3>2, <3>3
  <2>3. QED
    BY <2>1, <2>2 DEF Init
<1> PICK n \in 0 .. 3 : /\ recorded = 1 .. n /\ hasKey \in BOOLEAN
                        /\ \/ n = 0 /\ done = {}
                           \/ done = UNION {StatementsOf(v) : v \in 0 .. n}
  BY <1>1
<1>2. done \subseteq Statements
  <2>1. 0 .. n \subseteq 0 .. 3
    OBVIOUS
  <2>2. QED
    BY <2>1 DEF Statements
<1>3. TypeOK
  <2>1. recorded \subseteq Versions /\ faults \in 0 .. MaxFaults
    BY EnvsAssumption DEF Init, Versions
  <2>2. QED
    BY <1>2, <2>1 DEF Init, TypeOK, Pcs
<1>4. PlaceInv /\ OrderInv
  BY DEF Init, PlaceInv, OrderInv, InMigrate, Migrated
<1>5. done \ StatementsOf(0) = UNION {StatementsOf(v) : v \in recorded}
  <2>1. \A v \in 1 .. n : StatementsOf(v) \cap StatementsOf(0) = {}
    BY Disjoint
  <2>2. QED
    BY <2>1
<1>6. QED
  BY <1>3, <1>4, <1>5 DEF IInv, SchemaInv

\* A process that ends disturbs nothing.
LEMMA ExitStep ==
  ASSUME IInv, NEW r \in Replicas, Exit(r), UNCHANGED <<outside, schema>>,
         hasKey' \in BOOLEAN, faults' \in 0 .. MaxFaults
  PROVE  IInv'
<1> USE DEF outside, schema
<1>1. TypeOK'
  BY DEF IInv, TypeOK, Exit, Goto, Pcs
<1>2. PlaceInv' /\ OrderInv'
  BY DEF IInv, TypeOK, PlaceInv, OrderInv, Exit, Goto, InMigrate, Migrated
<1>3. SchemaInv'
  BY DEF IInv, SchemaInv
<1>4. QED
  BY <1>1, <1>2, <1>3 DEF IInv

\* The end of a round of Migrate's loop.
LEMMA NextVersionStep ==
  ASSUME TypeOK, PlaceInv, OrderInv, NEW r \in Replicas,
         pc[r] \in {"check", "commit"}, NextVersion(r),
         recorded \subseteq recorded', recorded' \subseteq Versions,
         ver[r] = 0 \/ ver[r] \in recorded',
         UNCHANGED <<stmt, ticker>>
  PROVE  /\ pc' \in [Replicas -> Pcs] /\ ver' \in [Replicas -> 0 .. 3]
         /\ PlaceInv' /\ OrderInv'
<1>1. 1 .. ver[r] \subseteq recorded'
  BY DEF TypeOK, OrderInv, InMigrate
<1>2. CASE ver[r] = 3
  <2>1. pc' = [pc EXCEPT ![r] = "keystore"] /\ UNCHANGED ver
    BY <1>2 DEF NextVersion, Goto
  <2>2. recorded' = Versions
    BY <1>1, <1>2 DEF Versions
  <2>3. QED
    BY <1>2, <2>1, <2>2 DEF TypeOK, PlaceInv, OrderInv, InMigrate, Migrated, Pcs, Versions
<1>3. CASE ver[r] # 3
  <2>1. pc' = [pc EXCEPT ![r] = "check"] /\ ver' = [ver EXCEPT ![r] = @ + 1]
    BY <1>3 DEF NextVersion, Goto
  <2>2. ver[r] + 1 \in 1 .. 3 /\ 1 .. (ver[r] + 1) - 1 \subseteq recorded'
    BY <1>1, <1>3 DEF TypeOK
  <2>3. pc' \in [Replicas -> Pcs] /\ ver' \in [Replicas -> 0 .. 3]
    BY <2>1, <2>2 DEF TypeOK, Pcs
  <2>4. PlaceInv'
    BY <2>1, <2>2 DEF TypeOK, PlaceInv
  <2>5. ASSUME NEW q \in Replicas
        PROVE  /\ pc'[q] \in {"check"} \cup InMigrate => 1 .. ver'[q] - 1 \subseteq recorded'
               /\ pc'[q] \in Migrated => recorded' = Versions
    <3>1. CASE q = r
      BY <2>1, <2>2, <3>1 DEF TypeOK, InMigrate, Migrated
    <3>2. CASE q # r
      <4>1. pc'[q] = pc[q] /\ ver'[q] = ver[q]
        BY <2>1, <3>2 DEF TypeOK
      <4>2. QED
        BY <4>1 DEF OrderInv
    <3>3. QED
      BY <3>1, <3>2
  <2>6. QED
    BY <2>3, <2>4, <2>5 DEF OrderInv
<1>4. QED
  BY <1>2, <1>3

\* A commit adds the next version, as a whole.
LEMMA CommitSchema ==
  ASSUME IInv, NEW r \in Replicas, pc[r] = "commit", CommitVersion(r)
  PROVE  /\ SchemaInv' /\ recorded \subseteq recorded'
         /\ recorded' \subseteq Versions /\ done' \subseteq Statements
         /\ ver[r] = 0 \/ ver[r] \in recorded'
<1>1. PICK n \in 0 .. 3 : recorded = 1 .. n
  BY DEF IInv, SchemaInv
<1>2. ver[r] \in 0 .. 3 /\ 1 .. ver[r] - 1 \subseteq recorded
  BY DEF IInv, TypeOK, OrderInv, InMigrate
<1>3. /\ done' = done \cup StatementsOf(ver[r])
      /\ recorded' = recorded \cup ({ver[r]} \ {0})
  BY DEF CommitVersion
<1>4. recorded \subseteq recorded' /\ (ver[r] = 0 \/ ver[r] \in recorded')
  BY <1>3
<1>5. recorded' \subseteq Versions /\ done' \subseteq Statements
  <2>1. StatementsOf(ver[r]) \subseteq Statements
    BY <1>2, StatementsAreStatements
  <2>2. {ver[r]} \ {0} \subseteq Versions
    BY <1>2 DEF Versions
  <2>3. QED
    BY <1>3, <2>1, <2>2 DEF IInv, TypeOK
<1>6. \E m \in 0 .. 3 : recorded' = 1 .. m
  <2>1. CASE ver[r] <= n
    BY <1>1, <1>2, <1>3, <2>1
  <2>2. CASE ver[r] > n
    <3>1. ver[r] = n + 1
      BY <1>1, <1>2, <2>2
    <3>2. recorded' = 1 .. ver[r]
      BY <1>1, <1>3, <3>1
    <3>3. QED
      BY <1>2, <3>2
  <2>3. QED
    BY <1>1, <1>2, <2>1, <2>2
<1>7. done' \ StatementsOf(0) = UNION {StatementsOf(v) : v \in recorded'}
  <2>1. done \ StatementsOf(0) = UNION {StatementsOf(v) : v \in recorded}
    BY DEF IInv, SchemaInv
  <2>2. CASE ver[r] = 0
    BY <1>3, <2>1, <2>2
  <2>3. CASE ver[r] # 0
    <3>1. StatementsOf(ver[r]) \cap StatementsOf(0) = {}
      BY <1>2, <2>3, Disjoint
    <3>2. recorded' = recorded \cup {ver[r]}
      BY <1>3, <2>3
    <3>3. QED
      BY <1>3, <2>1, <3>1, <3>2
  <2>4. QED
    BY <2>2, <2>3
<1>8. QED
  BY <1>4, <1>5, <1>6, <1>7 DEF SchemaInv

-----------------------------------------------------------------------------
(* The steps of Next                                                       *)

LEMMA LoadStep ==
  ASSUME IInv, NEW r \in Replicas, Load(r) \/ Open(r)
  PROVE  IInv'
<1> USE DEF outside, schema
<1>1. TypeOK'
  BY DEF IInv, TypeOK, Load, Open, Goto, Pcs
<1>2. PlaceInv'
  <2>1. 1 <= Len(Body[0])
    BY Bodies
  <2>2. QED
    BY <2>1 DEF IInv, TypeOK, PlaceInv, Load, Open, Goto
<1>3. OrderInv'
  BY DEF IInv, TypeOK, OrderInv, Load, Open, Goto, InMigrate, Migrated
<1>4. SchemaInv'
  BY DEF IInv, SchemaInv, Load, Open
<1>5. QED
  BY <1>1, <1>2, <1>3, <1>4 DEF IInv

LEMMA CheckStep ==
  ASSUME IInv, NEW r \in Replicas, Check(r)
  PROVE  IInv'
<1>1. UNCHANGED <<env, held, queued, ticker, recorded, done, hasKey, faults>>
  BY DEF Check, outside, schema
<1>2. SchemaInv'
  BY <1>1 DEF IInv, SchemaInv
<1>3. CASE ver[r] \in recorded
  <2>1. NextVersion(r) /\ UNCHANGED stmt /\ pc[r] = "check"
    BY <1>3 DEF Check
  <2>2. /\ pc' \in [Replicas -> Pcs] /\ ver' \in [Replicas -> 0 .. 3]
        /\ PlaceInv' /\ OrderInv'
    BY <1>1, <1>3, <2>1, NextVersionStep DEF IInv, TypeOK
  <2>3. QED
    BY <1>1, <1>2, <2>1, <2>2 DEF IInv, TypeOK
<1>4. CASE ver[r] \notin recorded
  <2>1. /\ pc[r] = "check" /\ pc' = [pc EXCEPT ![r] = "body"]
        /\ stmt' = [stmt EXCEPT ![r] = 1] /\ UNCHANGED ver
    BY <1>4 DEF Check, Goto
  <2>2. TypeOK'
    BY <1>1, <2>1 DEF IInv, TypeOK, Pcs
  <2>3. PlaceInv'
    <3>1. ver[r] \in 0 .. 3 /\ ver[r] # 0
      BY <2>1 DEF IInv, TypeOK, PlaceInv
    <3>2. 1 <= Len(Body[ver[r]])
      BY <3>1, BodyLength
    <3>3. QED
      BY <1>1, <2>1, <3>1, <3>2 DEF IInv, TypeOK, PlaceInv
  <2>4. OrderInv'
    BY <1>1, <2>1 DEF IInv, TypeOK, OrderInv, InMigrate, Migrated
  <2>5. QED
    BY <1>2, <2>2, <2>3, <2>4 DEF IInv
<1>5. QED
  BY <1>3, <1>4

LEMMA ExecStep ==
  ASSUME IInv, NEW r \in Replicas, Exec(r)
  PROVE  IInv'
<1>1. UNCHANGED <<outside, schema, hasKey, faults>> /\ pc[r] = "body"
  BY DEF Exec
<1>2. CASE Exit(r)
  BY <1>1, <1>2, ExitStep DEF IInv, TypeOK
<1>3. CASE ~Exit(r)
  <2>1. /\ pc' = [pc EXCEPT ![r] = AfterStatement(r)]
        /\ stmt' = [stmt EXCEPT ![r] = @ + 1]
        /\ queued' = [queued EXCEPT ![r] = FALSE]
        /\ UNCHANGED <<env, held, ver, ticker, recorded, done, hasKey, faults>>
    BY <1>3 DEF Exec, Goto, outside, schema
  <2>2. /\ ver[r] \in 0 .. 3 /\ stmt[r] \in 1 .. 3
        /\ Len(Body[ver[r]]) \in Nat /\ stmt[r] <= Len(Body[ver[r]])
    <3>1. /\ ver[r] \in 0 .. 3 /\ stmt[r] \in 1 .. 4
          /\ stmt[r] <= Len(Body[ver[r]])
      BY <1>1 DEF IInv, TypeOK, PlaceInv
    <3> DEFINE n == Len(Body[ver[r]])
    <3>2. n \in 1 .. 3
      BY <3>1, BodyLength
    <3> HIDE DEF n
    <3>3. stmt[r] <= n
      BY <3>1 DEF n
    <3>4. n \in Nat /\ stmt[r] \in 1 .. 3
      BY <3>1, <3>2, <3>3
    <3>5. QED
      BY <3>1, <3>4 DEF n
  <2>3. /\ AfterStatement(r) \in InMigrate
        /\ AfterStatement(r) = "body" => stmt[r] + 1 <= Len(Body[ver[r]])
        /\ AfterStatement(r) = "insert" => ver[r] # 0
    BY <2>2 DEF AfterStatement, InMigrate
  <2>4. TypeOK'
    BY <2>1, <2>2, <2>3 DEF IInv, TypeOK, InMigrate, Pcs
  <2>5. PlaceInv'
    BY <1>1, <2>1, <2>2, <2>3 DEF IInv, TypeOK, PlaceInv, InMigrate
  <2>6. OrderInv'
    BY <1>1, <2>1, <2>3 DEF IInv, TypeOK, OrderInv, InMigrate, Migrated
  <2>7. SchemaInv'
    BY <2>1 DEF IInv, SchemaInv
  <2>8. QED
    BY <2>4, <2>5, <2>6, <2>7 DEF IInv
<1>4. QED
  BY <1>2, <1>3

LEMMA ExecQueuesStep ==
  ASSUME IInv, NEW r \in Replicas, ExecQueues(r)
  PROVE  IInv'
  BY DEF IInv, TypeOK, PlaceInv, OrderInv, SchemaInv, ExecQueues, outside, schema

LEMMA InsertVersionStep ==
  ASSUME IInv, NEW r \in Replicas, InsertVersion(r)
  PROVE  IInv'
<1>1. UNCHANGED <<outside, schema, hasKey, faults>> /\ pc[r] = "insert"
  BY DEF InsertVersion
<1>2. CASE Exit(r)
  BY <1>1, <1>2, ExitStep DEF IInv, TypeOK
<1>3. CASE ~Exit(r)
  <2>1. /\ pc' = [pc EXCEPT ![r] = "commit"]
        /\ UNCHANGED <<env, ver, stmt, queued, ticker, held, recorded, done, hasKey, faults>>
    BY <1>3 DEF InsertVersion, Goto, outside, schema
  <2>2. TypeOK' /\ PlaceInv'
    BY <1>1, <2>1 DEF IInv, TypeOK, PlaceInv, Pcs
  <2>3. OrderInv'
    BY <1>1, <2>1 DEF IInv, TypeOK, OrderInv, InMigrate, Migrated
  <2>4. QED
    BY <2>1, <2>2, <2>3 DEF IInv, SchemaInv
<1>4. QED
  BY <1>2, <1>3

LEMMA CommitStep ==
  ASSUME IInv, NEW r \in Replicas, Commit(r)
  PROVE  IInv'
<1>1. /\ UNCHANGED <<env, held, stmt, queued, ticker, hasKey, faults>>
      /\ pc[r] = "commit" /\ CommitVersion(r) /\ NextVersion(r)
  BY DEF Commit, outside
<1>2. /\ SchemaInv' /\ recorded \subseteq recorded'
      /\ recorded' \subseteq Versions /\ done' \subseteq Statements
      /\ ver[r] = 0 \/ ver[r] \in recorded'
  BY <1>1, CommitSchema
<1>3. /\ pc' \in [Replicas -> Pcs] /\ ver' \in [Replicas -> 0 .. 3]
      /\ PlaceInv' /\ OrderInv'
  BY <1>1, <1>2, NextVersionStep DEF IInv
<1>4. QED
  BY <1>1, <1>2, <1>3 DEF IInv, TypeOK

\* From Migrate to serving: the schema is complete and stays so.
LEMMA ServeStep ==
  ASSUME IInv, NEW r \in Replicas,
         KeyStore(r) \/ Bootstrap(r) \/ BootstrapSet(r) \/ Listen(r) \/ NewTicker(r)
  PROVE  IInv'
<1>1. UNCHANGED <<outside, schema, faults>> /\ hasKey' \in BOOLEAN
  BY DEF KeyStore, Bootstrap, BootstrapSet, Listen, NewTicker, IInv, TypeOK
<1>2. CASE Exit(r)
  BY <1>1, <1>2, ExitStep DEF IInv, TypeOK
<1>3. CASE ~Exit(r)
  <2>1. UNCHANGED <<ver, stmt, queued>>
    BY <1>3 DEF KeyStore, Bootstrap, BootstrapSet, Listen, NewTicker, StartRefresher
  <2>2. /\ pc[r] \in Migrated
        /\ \E l \in Migrated : pc' = [pc EXCEPT ![r] = l]
    <3>1. pc[r] \in Migrated
      BY DEF KeyStore, Bootstrap, BootstrapSet, Listen, NewTicker, Migrated, IInv, PlaceInv,
             TypeOK
    <3>2. pc \in [Replicas -> Pcs]
      BY DEF IInv, TypeOK
    <3>3. QED
      BY <1>3, <3>1, <3>2 DEF KeyStore, Bootstrap, BootstrapSet, Listen, NewTicker,
                              StartRefresher, Goto, Migrated
  <2>3. /\ ticker' \in [Replicas -> {"none", "starting", "running"}]
        /\ \A q \in Replicas \ {r} : ticker'[q] = ticker[q]
        /\ ticker'[r] # "none" => pc'[r] \in {"listen", "serving"}
    BY <1>3 DEF KeyStore, Bootstrap, BootstrapSet, Listen, NewTicker, StartRefresher,
                Goto, IInv, TypeOK, PlaceInv
  <2>4. TypeOK'
    <3>1. pc' \in [Replicas -> Pcs]
      BY <2>2 DEF IInv, TypeOK, Pcs, Migrated
    <3>2. UNCHANGED <<env, held, recorded, done, faults>>
      BY <1>1 DEF outside, schema
    <3>3. QED
      BY <1>1, <2>1, <2>3, <3>1, <3>2 DEF IInv, TypeOK
  <2>5. PlaceInv'
    BY <1>1, <2>1, <2>2, <2>3 DEF IInv, TypeOK, PlaceInv, Migrated
  <2>6. OrderInv'
    BY <1>1, <2>1, <2>2 DEF IInv, TypeOK, OrderInv, InMigrate, Migrated, schema
  <2>7. QED
    BY <1>1, <2>4, <2>5, <2>6 DEF IInv, SchemaInv, schema
<1>4. QED
  BY <1>2, <1>3

LEMMA FaultStep ==
  ASSUME IInv, NEW r \in Replicas, Fault(r) \/ AbortMigration(r)
  PROVE  IInv'
<1>1. Exit(r) /\ UNCHANGED <<outside, schema, hasKey>> /\ faults' \in 0 .. MaxFaults
  BY EnvsAssumption DEF Fault, AbortMigration, IInv, TypeOK
<1>2. QED
  BY <1>1, ExitStep DEF IInv, TypeOK

LEMMA CommitLostStep ==
  ASSUME IInv, NEW r \in Replicas, CommitLost(r)
  PROVE  IInv'
<1>1. /\ UNCHANGED <<env, held, hasKey>> /\ faults' \in 0 .. MaxFaults
      /\ pc[r] = "commit" /\ CommitVersion(r) /\ Exit(r)
  BY EnvsAssumption DEF CommitLost, outside, IInv, TypeOK
<1>2. /\ SchemaInv' /\ recorded \subseteq recorded'
      /\ recorded' \subseteq Versions /\ done' \subseteq Statements
  BY <1>1, CommitSchema
<1>3. TypeOK'
  BY <1>1, <1>2 DEF IInv, TypeOK, Exit, Goto, Pcs
<1>4. PlaceInv'
  BY <1>1 DEF IInv, TypeOK, PlaceInv, Exit, Goto
<1>5. OrderInv'
  BY <1>1, <1>2 DEF IInv, TypeOK, OrderInv, Exit, Goto, InMigrate, Migrated
<1>6. QED
  BY <1>2, <1>3, <1>4, <1>5 DEF IInv

LEMMA WriterStep ==
  ASSUME IInv, NEW w \in Writers,
         \/ WriterEnds(w) \/ AbortWriter(w)
         \/ \E t \in {"usage_records", "quota_totals"} : WriterInserts(w, t)
  PROVE  IInv'
<1>1. /\ UNCHANGED <<env, pc, ver, stmt, queued, ticker, recorded, done, hasKey, faults>>
      /\ \E t \in {"none", "usage_records", "quota_totals"} : held' = [held EXCEPT ![w] = t]
  BY DEF WriterEnds, AbortWriter, WriterInserts, schema
<1>2. QED
  BY <1>1 DEF IInv, TypeOK, PlaceInv, OrderInv, SchemaInv

LEMMA NextIInv == IInv /\ [Next]_vars => IInv'
<1> SUFFICES ASSUME IInv, [Next]_vars
             PROVE  IInv'
  OBVIOUS
<1>1. ASSUME NEW r \in Replicas, Step(r) \/ NewTicker(r)
      PROVE  IInv'
  BY <1>1, LoadStep, CheckStep, ExecStep, ExecQueuesStep, InsertVersionStep, CommitStep,
     ServeStep DEF Step
<1>2. ASSUME NEW r \in Replicas, Fault(r) \/ CommitLost(r) \/ AbortMigration(r)
      PROVE  IInv'
  BY <1>2, FaultStep, CommitLostStep
<1>3. ASSUME NEW w \in Writers,
             \/ WriterEnds(w) \/ AbortWriter(w)
             \/ \E t \in {"usage_records", "quota_totals"} : WriterInserts(w, t)
      PROVE  IInv'
  BY <1>3, WriterStep
<1>4. CASE UNCHANGED vars
  BY <1>4 DEF vars, IInv, TypeOK, PlaceInv, OrderInv, SchemaInv
<1>5. QED
  BY <1>1, <1>2, <1>3, <1>4 DEF Next

\* The inductive invariant.
THEOREM Invariance == Spec => []IInv
<1>1. QED
  BY InitIInv, NextIInv, PTL DEF Spec

\* The state keeps its shape: Migrate stays within the list of migrations and
\* their statements.
THEOREM TypeCorrect == Spec => []TypeOK
<1>1. IInv => TypeOK
  BY DEF IInv
<1>2. QED
  BY <1>1, Invariance, PTL

-----------------------------------------------------------------------------
(***************************************************************************)
(* schema_migrations tells the truth about the schema, whichever replicas  *)
(* race through Migrate, fail in the middle of it or lose the answer of a  *)
(* commit.                                                                 *)
(***************************************************************************)
THEOREM RecordIsTrue == Spec => []SchemaMatchesRecord
<1>1. IInv => SchemaMatchesRecord
  <2> SUFFICES ASSUME IInv
               PROVE  SchemaMatchesRecord
    OBVIOUS
  <2>1. PICK n \in 0 .. 3 : recorded = 1 .. n
    BY DEF IInv, SchemaInv
  <2>2. Cardinality(1 .. n) = n
    <3>1. 1 \in Int /\ n \in Int
      OBVIOUS
    <3>2. Cardinality(1 .. n) = IF 1 > n THEN 0 ELSE n - 1 + 1
      BY <3>1, FS_Interval, Zenon
    <3>3. QED
      BY <3>2
  <2>3. QED
    BY <2>1, <2>2 DEF IInv, SchemaInv, SchemaMatchesRecord
<1>2. QED
  BY <1>1, Invariance, PTL

(***************************************************************************)
(* When Migrate returns nil the schema is complete, also on a replica that *)
(* skipped versions which others had just applied.                         *)
(***************************************************************************)
THEOREM ServesOnFullSchema == Spec => []MigratedMeansComplete
<1>1. IInv => MigratedMeansComplete
  BY DEF IInv, OrderInv, MigratedMeansComplete
<1>2. QED
  BY <1>1, Invariance, PTL

\* A replica that ends inside a version without an outside reason lost to
\* whoever has committed it.
LEMMA LosesStep ==
  ASSUME IInv, Next, NEW r \in Replicas,
         pc[r] \in {"body", "insert"}, pc'[r] = "down", faults' = faults
  PROVE  StatementsOf(ver[r]) \subseteq done
<1>1. ver[r] \in 0 .. 3 /\ pc \in [Replicas -> Pcs] /\ faults \in Nat
  BY EnvsAssumption DEF IInv, TypeOK
<1>2. \A v \in recorded : StatementsOf(v) \subseteq done
  BY DEF IInv, SchemaInv
<1>3. ASSUME NEW i, <<ver[r], i>> \in done
      PROVE  StatementsOf(ver[r]) \subseteq done
  <2>1. CASE ver[r] = 0
    <3>1. StatementsOf(0) = {<<0, 1>>}
      BY Bodies DEF StatementsOf
    <3>2. <<0, i>> \in Statements
      BY <1>3, <2>1 DEF IInv, TypeOK
    <3>3. <<0, i>> \in StatementsOf(0)
      BY <3>2 DEF Statements, StatementsOf
    <3>4. QED
      BY <1>3, <2>1, <3>1, <3>3
  <2>2. CASE ver[r] # 0
    <3>1. <<ver[r], i>> \notin StatementsOf(0)
      BY <2>2 DEF StatementsOf
    <3>2. PICK v \in recorded : <<ver[r], i>> \in StatementsOf(v)
      BY <1>3, <3>1 DEF IInv, SchemaInv
    <3>3. v = ver[r]
      BY <3>2 DEF StatementsOf
    <3>4. QED
      BY <1>2, <3>3
  <2>3. QED
    BY <2>1, <2>2
<1>4. Exec(r) \/ InsertVersion(r)
  <2>1. ASSUME NEW q \in Replicas, q # r, \E l : pc' = [pc EXCEPT ![q] = l]
        PROVE  FALSE
    BY <1>1, <2>1
  <2>2. ASSUME NEW q \in Replicas, Step(q)
        PROVE  Exec(r) \/ InsertVersion(r)
    <3>1. \/ pc' = pc \/ \E l : pc' = [pc EXCEPT ![q] = l]
      BY <2>2 DEF Step, Load, Open, Check, Exec, ExecQueues, InsertVersion, Commit, KeyStore,
                  Bootstrap, BootstrapSet, Listen, NextVersion, StartRefresher, Exit, Goto
    <3>2. q = r
      BY <2>1, <3>1
    <3>3. QED
      BY <1>1, <2>2, <3>2
         DEF Step, Load, Open, Check, ExecQueues, Commit, KeyStore, Bootstrap, BootstrapSet,
             Listen
  <2>3. ASSUME NEW q \in Replicas, NewTicker(q)
        PROVE  FALSE
    <3>1. pc' = pc \/ \E l : pc' = [pc EXCEPT ![q] = l]
      BY <2>3 DEF NewTicker, Exit, Goto
    <3>2. pc[q] \in {"listen", "serving"}
      BY <2>3 DEF NewTicker, IInv, PlaceInv
    <3>3. QED
      BY <2>1, <3>1, <3>2
  <2>4. ASSUME NEW q \in Replicas, Fault(q) \/ CommitLost(q) \/ AbortMigration(q)
        PROVE  FALSE
    <3>1. faults' = faults + 1
      BY <2>4 DEF Fault, CommitLost, AbortMigration
    <3>2. QED
      BY <1>1, <3>1
  <2>5. ASSUME NEW w \in Writers,
               \/ WriterEnds(w) \/ AbortWriter(w)
               \/ \E t \in {"usage_records", "quota_totals"} : WriterInserts(w, t)
        PROVE  FALSE
    BY <2>5 DEF WriterEnds, AbortWriter, WriterInserts
  <2>6. QED
    BY <2>2, <2>3, <2>4, <2>5 DEF Next
<1>5. CASE Exec(r)
  <2>1. AfterStatement(r) # "down"
    BY DEF AfterStatement
  <2>2. <<ver[r], stmt[r]>> \in done
    BY <1>1, <1>5, <2>1 DEF Exec, Goto
  <2>3. QED
    BY <1>3, <2>2
<1>6. CASE InsertVersion(r)
  <2>1. ver[r] \in recorded
    BY <1>1, <1>6 DEF InsertVersion, Goto
  <2>2. QED
    BY <1>2, <2>1
<1>7. QED
  BY <1>4, <1>5, <1>6

(***************************************************************************)
(* Migrate only loses a race that somebody has won: a replica that fails   *)
(* on "already exists" or on the primary key of schema_migrations finds    *)
(* its version applied when it is started again.                           *)
(***************************************************************************)
THEOREM RacesHaveWinners == Spec => LosesOnlyToWinner
<1>1. IInv /\ [Next]_vars =>
        [\A r \in Replicas :
           pc[r] \in {"body", "insert"} /\ pc'[r] = "down" /\ faults' = faults
             => StatementsOf(ver[r]) \subseteq done]_vars
  BY LosesStep
<1>2. QED
  BY <1>1, Invariance, PTL DEF Spec, LosesOnlyToWinner
==============================================================================
