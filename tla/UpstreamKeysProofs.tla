------------------------- MODULE UpstreamKeysProofs -------------------------
(***************************************************************************)
(* Proofs about UpstreamKeys, for any set of replicas and administrators   *)
(* and any number of rows.  The invariants of the table are not inductive  *)
(* without LocksInv: which transaction holds the newest row, and that only *)
(* one transaction at a time has passed its INSERT.                        *)
(***************************************************************************)
EXTENDS UpstreamKeys, TLAPS

\* Boot and refresher goroutines run on their replica while it is up, and
\* rotations do not boot.
JobsInv ==
  /\ \A r \in Replicas : on[r] = r /\ job[r] # "rotate"
  /\ \A r \in Replicas : status[r] = "down" => pc[r] = "idle"
  /\ \A a \in Admins : job[a] = "rotate"

LocksInv ==
  /\ \A p \in Procs : retired[p] # 0 =>
       pc[p] \in {"insert", "commit"} /\ retired[p] = Len(rows)
  /\ \A p, q \in Procs : retired[p] # 0 /\ retired[p] = retired[q] => p = q
  /\ \A p \in Procs : pc[p] = "commit" => retired[p] = Len(rows)
  /\ \A p, q \in Procs : pc[p] = "commit" /\ pc[q] = "commit" => p = q

\* What has been read is a row.
SeenInv == \A p \in Procs : pc[p] \in {"wait", "store"} => seen[p] # 0

IInv == /\ TypeOK /\ JobsInv /\ LocksInv /\ SeenInv
        /\ NewestIsActive /\ ServingHasKey /\ SetReadsOwnRow

-----------------------------------------------------------------------------
\* The SELECT finds the newest row.
LEMMA ActiveRowIsNewest ==
  ASSUME TypeOK, NewestIsActive
  PROVE  /\ ActiveRow = Len(rows) /\ Len(rows) \in RowRefs /\ Len(rows) \in Nat
         /\ 0 \in RowRefs
         /\ Active = IF Len(rows) = 0 THEN {} ELSE {Len(rows)}
         /\ \A i \in RowRefs : i # 0 => (rows[i].active <=> i = Len(rows))
<1>1. Len(rows) \in Nat /\ DOMAIN rows = 1 .. Len(rows)
  BY DEF TypeOK
<1>2. CASE rows = << >>
  BY <1>1, <1>2 DEF ActiveRow, Active, RowRefs
<1>3. CASE rows # << >>
  <2>1. Len(rows) # 0 /\ Active = {Len(rows)}
    BY <1>1, <1>3 DEF NewestIsActive, TypeOK
  <2>2. ActiveRow = Len(rows)
    BY <2>1 DEF ActiveRow
  <2>3. ASSUME NEW i \in RowRefs, i # 0
        PROVE  rows[i].active <=> i = Len(rows)
    <3>1. i \in DOMAIN rows
      BY <1>1, <2>3 DEF RowRefs
    <3>2. i \in Active <=> i = Len(rows)
      BY <2>1
    <3>3. QED
      BY <3>1, <3>2 DEF Active
  <2>4. Len(rows) \in RowRefs /\ 0 \in RowRefs
    BY <1>1 DEF RowRefs
  <2>5. QED
    BY <1>1, <2>1, <2>2, <2>3, <2>4
<1>4. QED
  BY <1>2, <1>3

\* What the commit of a transaction that holds the newest row makes.
LEMMA CommitTable ==
  ASSUME TypeOK, NewestIsActive, NEW p \in Procs,
         retired[p] = Len(rows), CommitRows(p)
  PROVE  /\ rows' \in Seq([active : BOOLEAN, origin : {"env", "admin"}])
         /\ Len(rows') = Len(rows) + 1 /\ Len(rows) \in Nat
         /\ RowRefs \subseteq RowRefs' /\ Len(rows) + 1 \in RowRefs'
         /\ Active' = {Len(rows')}
<1> DEFINE R == [active : BOOLEAN, origin : {"env", "admin"}]
           n == Len(rows)
<1>1. n \in Nat /\ DOMAIN rows = 1 .. n /\ \A i \in 1 .. n : rows[i] \in R
  <2>1. rows \in Seq(R)
    BY DEF TypeOK
  <2> HIDE DEF R
  <2>2. QED
    BY <2>1
<1>2. ASSUME NEW i \in 1 .. n
      PROVE  [rows[i] EXCEPT !.active = FALSE] \in R
             /\ ~[rows[i] EXCEPT !.active = FALSE].active
  BY <1>1
<1>3. /\ RetiredRows(p) \in Seq(R) /\ Len(RetiredRows(p)) = n
      /\ \A i \in 1 .. n : ~RetiredRows(p)[i].active
  <2>1. ASSUME NEW i \in 1 .. n
        PROVE  RetiredRows(p)[i] \in R /\ ~RetiredRows(p)[i].active
    <3>1. CASE i = retired[p]
      BY <1>1, <1>2, <3>1 DEF RetiredRows
    <3>2. CASE i # retired[p]
      <4>1. RetiredRows(p)[i] = rows[i]
        BY <1>1, <3>2 DEF RetiredRows
      <4>2. i \in RowRefs /\ i # 0
        BY <1>1 DEF RowRefs
      <4>3. ~rows[i].active
        BY <3>2, <4>2, ActiveRowIsNewest
      <4>4. QED
        BY <1>1, <4>1, <4>3
    <3>3. QED
      BY <3>1, <3>2
  <2>2. RetiredRows(p) = [i \in 1 .. n |-> RetiredRows(p)[i]]
    BY <1>1 DEF RetiredRows
  <2> DEFINE S == RetiredRows(p)
  <2> HIDE DEF S, R, n
  <2>3. S \in Seq(R) /\ Len(S) = n
    <3>1. S \in [1 .. n -> R]
      BY <2>1, <2>2 DEF S
    <3>2. QED
      BY <1>1, <3>1
  <2>4. QED
    BY <2>1, <2>3 DEF S
<1>4. NewRow(p) \in R /\ NewRow(p).active
  BY DEF NewRow
<1> HIDE DEF R
<1>5. rows' = Append(RetiredRows(p), NewRow(p))
  BY DEF CommitRows
<1>6. rows' \in Seq(R) /\ Len(rows') = n + 1
  BY <1>3, <1>4, <1>5
<1>7. /\ \A i \in 1 .. n : rows'[i] = RetiredRows(p)[i]
      /\ rows'[n + 1] = NewRow(p)
  BY <1>1, <1>3, <1>4, <1>5
<1>8. Active' = {n + 1}
  <2>1. DOMAIN rows' = 1 .. n + 1
    BY <1>6, <1>1
  <2>2. QED
    BY <2>1, <1>1, <1>3, <1>4, <1>7 DEF Active
<1>9. QED
  BY <1>1, <1>6, <1>8 DEF R, RowRefs

-----------------------------------------------------------------------------
\* Every step keeps the shape of the state.
LEMMA TypeStep ==
  ASSUME IInv, [Next]_vars
  PROVE  TypeOK'
<1> USE ReplicasAssumption DEF Procs
<1>1. ASSUME NEW p \in Procs, TxUpdate(p)
      PROVE  TypeOK'
  <2>1. RowRefs' = RowRefs /\ 0 \in RowRefs /\ ActiveRow \in RowRefs
    BY <1>1, ActiveRowIsNewest DEF IInv, RowRefs, TxUpdate
  <2>2. rows' = rows
    BY <1>1 DEF TxUpdate
  <2>3. QED
    BY <1>1, <2>1, <2>2 DEF IInv, TypeOK, TxPcs, TxUpdate, Retire, Goto
<1>2. ASSUME NEW p \in Procs, TxUpdateResume(p)
      PROVE  TypeOK'
  BY <1>2, ActiveRowIsNewest DEF IInv, TypeOK, TxPcs, RowRefs, TxUpdateResume, Retire, Goto
<1>3. ASSUME NEW p \in Procs, TxInsert(p)
      PROVE  TypeOK'
  BY <1>3, ActiveRowIsNewest DEF IInv, TypeOK, TxPcs, RowRefs, TxInsert, Goto
<1>4. ASSUME NEW p \in Procs, TxInsertDuplicate(p)
      PROVE  TypeOK'
  BY <1>4, ActiveRowIsNewest DEF IInv, TypeOK, TxPcs, RowRefs, TxInsertDuplicate, Fail, Goto
<1>5. ASSUME NEW p \in Procs, TxCommit(p)
      PROVE  TypeOK'
  <2>1. /\ rows' \in Seq([active : BOOLEAN, origin : {"env", "admin"}])
        /\ RowRefs \subseteq RowRefs' /\ Len(rows) + 1 \in RowRefs' /\ 0 \in RowRefs'
    BY <1>5, CommitTable, ActiveRowIsNewest DEF IInv, LocksInv, TxCommit
  <2>2. QED
    BY <1>5, <2>1 DEF IInv, TypeOK, TxPcs, TxCommit, Goto
<1>6. ASSUME NEW p \in Procs, TxCommitLost(p)
      PROVE  TypeOK'
  <2>1. /\ rows' \in Seq([active : BOOLEAN, origin : {"env", "admin"}])
        /\ RowRefs \subseteq RowRefs' /\ Len(rows) + 1 \in RowRefs' /\ 0 \in RowRefs'
    BY <1>6, CommitTable, ActiveRowIsNewest DEF IInv, LocksInv, TxCommitLost
  <2>2. QED
    BY <1>6, <2>1 DEF IInv, TypeOK, TxPcs, TxCommitLost, Fail, Goto
<1>7. ASSUME NEW p \in Procs, TxFail(p)
      PROVE  TypeOK'
  BY <1>7, ActiveRowIsNewest DEF IInv, TypeOK, TxPcs, RowRefs, TxFail, Fail, Goto
<1>8. ASSUME NEW p \in Procs, RefreshSelect(p)
      PROVE  TypeOK'
  <2>1. RowRefs' = RowRefs /\ 0 \in RowRefs /\ ActiveRow \in RowRefs
    BY <1>8, ActiveRowIsNewest DEF IInv, RowRefs, RefreshSelect
  <2>2. rows' = rows
    BY <1>8 DEF RefreshSelect
  <2>3. QED
    <3>1. pc' \in [Procs -> {"idle", "select", "store"} \cup TxPcs]
      BY <1>8 DEF IInv, TypeOK, TxPcs, RefreshSelect, Fail, Goto
    <3>2. seen' \in [Procs -> RowRefs] /\ retired' \in [Procs -> RowRefs]
      BY <1>8, <2>1 DEF IInv, TypeOK, RefreshSelect, Fail
    <3>3. job' \in [Procs -> {"boot", "bootSet", "booted", "tick", "rotate"}]
      BY <1>8 DEF IInv, TypeOK, RefreshSelect
    <3>4. status' \in [Replicas -> {"down", "boot", "serving"}]
      BY <1>8 DEF IInv, TypeOK, RefreshSelect, Fail
    <3>5. QED
      BY <1>8, <2>1, <2>2, <3>1, <3>2, <3>3, <3>4 DEF IInv, TypeOK, RefreshSelect
<1>9. ASSUME NEW p \in Procs, RefreshStore(p)
      PROVE  TypeOK'
  <2>1. RowRefs' = RowRefs /\ 0 \in RowRefs /\ ActiveRow \in RowRefs
    BY <1>9, ActiveRowIsNewest DEF IInv, RowRefs, RefreshStore
  <2>2. rows' = rows
    BY <1>9 DEF RefreshStore
  <2>3. QED
    <3>1. pc' \in [Procs -> {"idle", "select", "store"} \cup TxPcs]
      BY <1>9 DEF IInv, TypeOK, TxPcs, RefreshStore, Goto
    <3>2. cache' \in [Replicas -> RowRefs]
      BY <1>9 DEF IInv, TypeOK, RefreshStore
    <3>3. job' \in [Procs -> {"boot", "bootSet", "booted", "tick", "rotate"}]
      BY <1>9 DEF IInv, TypeOK, RefreshStore
    <3>4. status' \in [Replicas -> {"down", "boot", "serving"}]
      BY <1>9 DEF IInv, TypeOK, RefreshStore
    <3>5. acked' \in [Replicas -> RowRefs]
      BY <1>9 DEF IInv, TypeOK, RefreshStore
    <3>6. QED
      BY <1>9, <2>1, <2>2, <3>1, <3>2, <3>3, <3>4, <3>5 DEF IInv, TypeOK, RefreshStore
<1>10. ASSUME NEW p \in Procs, RefreshFail(p)
      PROVE  TypeOK'
  BY <1>10, ActiveRowIsNewest DEF IInv, TypeOK, TxPcs, RowRefs, RefreshFail, Fail, Goto
<1>11. ASSUME NEW r \in Replicas, RefreshTick(r)
      PROVE  TypeOK'
  BY <1>11, ActiveRowIsNewest DEF IInv, TypeOK, TxPcs, RowRefs, RefreshTick, Goto
<1>12. ASSUME NEW r \in Replicas, Boot(r)
      PROVE  TypeOK'
  BY <1>12, ActiveRowIsNewest DEF IInv, TypeOK, TxPcs, RowRefs, Boot, Goto
<1>13. ASSUME NEW r \in Replicas, Crash(r)
      PROVE  TypeOK'
  BY <1>13, ActiveRowIsNewest DEF IInv, TypeOK, TxPcs, RowRefs, Crash
<1>14. ASSUME NEW a \in Admins, NEW r \in Replicas, Rotate(a, r)
      PROVE  TypeOK'
  BY <1>14, ActiveRowIsNewest DEF IInv, TypeOK, TxPcs, RowRefs, Rotate, Goto
<1>15. CASE UNCHANGED vars
  BY <1>15 DEF IInv, TypeOK, TxPcs, RowRefs, vars
<1>16. QED
  BY <1>1, <1>2, <1>3, <1>4, <1>5, <1>6, <1>7, <1>8, <1>9, <1>10, <1>11, <1>12, <1>13, <1>14, <1>15 DEF Next

\* No goroutine changes its place.
LEMMA JobsStep ==
  ASSUME IInv, [Next]_vars
  PROVE  JobsInv'
<1> USE ReplicasAssumption DEF Procs
<1>1. ASSUME NEW p \in Procs, TxUpdate(p)
      PROVE  JobsInv'
  BY <1>1 DEF IInv, TypeOK, JobsInv, TxUpdate, Retire, Goto
<1>2. ASSUME NEW p \in Procs, TxUpdateResume(p)
      PROVE  JobsInv'
  BY <1>2 DEF IInv, TypeOK, JobsInv, TxUpdateResume, Retire, Goto
<1>3. ASSUME NEW p \in Procs, TxInsert(p)
      PROVE  JobsInv'
  BY <1>3 DEF IInv, TypeOK, JobsInv, TxInsert, Goto
<1>4. ASSUME NEW p \in Procs, TxInsertDuplicate(p)
      PROVE  JobsInv'
  BY <1>4 DEF IInv, TypeOK, JobsInv, TxInsertDuplicate, Fail, Goto
<1>5. ASSUME NEW p \in Procs, TxCommit(p)
      PROVE  JobsInv'
  BY <1>5 DEF IInv, TypeOK, JobsInv, TxCommit, Goto
<1>6. ASSUME NEW p \in Procs, TxCommitLost(p)
      PROVE  JobsInv'
  BY <1>6 DEF IInv, TypeOK, JobsInv, TxCommitLost, Fail, Goto
<1>7. ASSUME NEW p \in Procs, TxFail(p)
      PROVE  JobsInv'
  BY <1>7 DEF IInv, TypeOK, JobsInv, TxFail, Fail, Goto
<1>8. ASSUME NEW p \in Procs, RefreshSelect(p)
      PROVE  JobsInv'
  BY <1>8 DEF IInv, TypeOK, JobsInv, RefreshSelect, Fail, Goto
<1>9. ASSUME NEW p \in Procs, RefreshStore(p)
      PROVE  JobsInv'
  <2>1. /\ on' = on
        /\ \A q \in Procs : q # p => pc'[q] = pc[q] /\ job'[q] = job[q]
        /\ \A r \in Replicas : r # p => status'[r] = status[r]
    BY <1>9 DEF IInv, TypeOK, RefreshStore, Goto
  <2>2. p \in Replicas => status'[p] # "down"
    BY <1>9 DEF IInv, TypeOK, JobsInv, RefreshStore
  <2>3. job'[p] = job[p] \/ (job[p] # "rotate" /\ job'[p] \in {"booted", "tick"})
    BY <1>9 DEF IInv, TypeOK, RefreshStore
  <2>4. QED
    BY <2>1, <2>2, <2>3 DEF IInv, JobsInv
<1>10. ASSUME NEW p \in Procs, RefreshFail(p)
      PROVE  JobsInv'
  BY <1>10 DEF IInv, TypeOK, JobsInv, RefreshFail, Fail, Goto
<1>11. ASSUME NEW r \in Replicas, RefreshTick(r)
      PROVE  JobsInv'
  BY <1>11 DEF IInv, TypeOK, JobsInv, RefreshTick, Goto
<1>12. ASSUME NEW r \in Replicas, Boot(r)
      PROVE  JobsInv'
  BY <1>12 DEF IInv, TypeOK, JobsInv, Boot, Goto
<1>13. ASSUME NEW r \in Replicas, Crash(r)
      PROVE  JobsInv'
  BY <1>13 DEF IInv, TypeOK, JobsInv, Crash
<1>14. ASSUME NEW a \in Admins, NEW r \in Replicas, Rotate(a, r)
      PROVE  JobsInv'
  BY <1>14 DEF IInv, TypeOK, JobsInv, Rotate, Goto
<1>15. CASE UNCHANGED vars
  BY <1>15 DEF IInv, TypeOK, JobsInv, vars
<1>16. QED
  BY <1>1, <1>2, <1>3, <1>4, <1>5, <1>6, <1>7, <1>8, <1>9, <1>10, <1>11, <1>12, <1>13, <1>14, <1>15 DEF Next

\* Only rows are waited for and stored.
LEMMA SeenStep ==
  ASSUME IInv, [Next]_vars
  PROVE  SeenInv'
<1> USE ReplicasAssumption DEF Procs
<1>1. ASSUME NEW p \in Procs, TxUpdate(p)
      PROVE  SeenInv'
  BY <1>1 DEF IInv, TypeOK, SeenInv, TxUpdate, Retire, Goto, LockedByOther
<1>2. ASSUME NEW p \in Procs, TxUpdateResume(p)
      PROVE  SeenInv'
  BY <1>2 DEF IInv, TypeOK, SeenInv, TxUpdateResume, Retire, Goto
<1>3. ASSUME NEW p \in Procs, TxInsert(p)
      PROVE  SeenInv'
  BY <1>3 DEF IInv, TypeOK, SeenInv, TxInsert, Goto
<1>4. ASSUME NEW p \in Procs, TxInsertDuplicate(p)
      PROVE  SeenInv'
  BY <1>4 DEF IInv, TypeOK, SeenInv, TxInsertDuplicate, Fail, Goto
<1>5. ASSUME NEW p \in Procs, TxCommit(p)
      PROVE  SeenInv'
  BY <1>5 DEF IInv, TypeOK, SeenInv, TxCommit, Goto
<1>6. ASSUME NEW p \in Procs, TxCommitLost(p)
      PROVE  SeenInv'
  BY <1>6 DEF IInv, TypeOK, SeenInv, TxCommitLost, Fail, Goto
<1>7. ASSUME NEW p \in Procs, TxFail(p)
      PROVE  SeenInv'
  BY <1>7 DEF IInv, TypeOK, SeenInv, TxFail, Fail, Goto
<1>8. ASSUME NEW p \in Procs, RefreshSelect(p)
      PROVE  SeenInv'
  BY <1>8 DEF IInv, TypeOK, SeenInv, RefreshSelect, Fail, Goto
<1>9. ASSUME NEW p \in Procs, RefreshStore(p)
      PROVE  SeenInv'
  BY <1>9 DEF IInv, TypeOK, SeenInv, RefreshStore, Goto
<1>10. ASSUME NEW p \in Procs, RefreshFail(p)
      PROVE  SeenInv'
  BY <1>10 DEF IInv, TypeOK, SeenInv, RefreshFail, Fail, Goto
<1>11. ASSUME NEW r \in Replicas, RefreshTick(r)
      PROVE  SeenInv'
  BY <1>11 DEF IInv, TypeOK, SeenInv, RefreshTick, Goto
<1>12. ASSUME NEW r \in Replicas, Boot(r)
      PROVE  SeenInv'
  BY <1>12 DEF IInv, TypeOK, SeenInv, Boot, Goto
<1>13. ASSUME NEW r \in Replicas, Crash(r)
      PROVE  SeenInv'
  BY <1>13 DEF IInv, TypeOK, SeenInv, Crash
<1>14. ASSUME NEW a \in Admins, NEW r \in Replicas, Rotate(a, r)
      PROVE  SeenInv'
  BY <1>14 DEF IInv, TypeOK, SeenInv, Rotate, Goto
<1>15. CASE UNCHANGED vars
  BY <1>15 DEF IInv, TypeOK, SeenInv, vars
<1>16. QED
  BY <1>1, <1>2, <1>3, <1>4, <1>5, <1>6, <1>7, <1>8, <1>9, <1>10, <1>11, <1>12, <1>13, <1>14, <1>15 DEF Next

\* One open transaction at a time holds the newest row and its INSERT.
LEMMA LocksStep ==
  ASSUME IInv, [Next]_vars
  PROVE  LocksInv'
<1> USE ReplicasAssumption DEF Procs
<1>1. ASSUME NEW p \in Procs, TxUpdate(p)
      PROVE  LocksInv'
  <2>1. ActiveRow = Len(rows) /\ rows' = rows
    BY <1>1, ActiveRowIsNewest DEF IInv, TxUpdate
  <2>2. CASE ~LockedByOther(p, ActiveRow) /\ Retire(p, ActiveRow)
    <3>1. \A q \in Procs : q # p => (retired[q] # 0 => retired[q] # Len(rows))
      BY <2>1, <2>2 DEF LockedByOther
    <3>2. /\ retired'[p] = Len(rows) /\ pc'[p] = "insert"
          /\ \A q \in Procs : q # p => retired'[q] = retired[q] /\ pc'[q] = pc[q]
      BY <2>1, <2>2 DEF IInv, TypeOK, Retire, Goto
    <3>3. QED
      BY <2>1, <3>1, <3>2 DEF IInv, LocksInv
  <2>3. CASE Goto(p, "wait") /\ UNCHANGED retired
    <3>1. retired[p] = 0 /\ pc'[p] = "wait"
          /\ \A q \in Procs : q # p => pc'[q] = pc[q]
      BY <1>1, <2>3 DEF IInv, LocksInv, TypeOK, TxUpdate, Goto
    <3>2. QED
      BY <2>1, <2>3, <3>1 DEF IInv, LocksInv
  <2>4. QED
    BY <1>1, <2>2, <2>3 DEF TxUpdate
<1>2. ASSUME NEW p \in Procs, TxUpdateResume(p)
      PROVE  LocksInv'
  <2> DEFINE i == IF rows[seen[p]].active THEN seen[p] ELSE 0
  <2>1. seen[p] \in RowRefs /\ seen[p] # 0
    BY <1>2 DEF IInv, SeenInv, TypeOK, TxUpdateResume
  <2>2. i # 0 => i = Len(rows) /\ i = seen[p]
    BY <2>1, ActiveRowIsNewest DEF IInv
  <2>3. /\ rows' = rows /\ retired'[p] = i /\ pc'[p] = "insert"
        /\ \A q \in Procs : q # p => retired'[q] = retired[q] /\ pc'[q] = pc[q]
    BY <1>2 DEF IInv, TypeOK, TxUpdateResume, Retire, Goto
  <2> HIDE DEF i
  <2>4. \A q \in Procs : q # p /\ i # 0 => retired[q] # i
    BY <1>2, <2>2 DEF TxUpdateResume, LockedByOther
  <2>5. QED
    BY <2>2, <2>3, <2>4 DEF IInv, LocksInv
<1>3. ASSUME NEW p \in Procs, TxInsert(p)
      PROVE  LocksInv'
  <2>1. retired[p] = Len(rows) /\ rows' = rows
    BY <1>3, ActiveRowIsNewest DEF IInv, LocksInv, TypeOK, RowRefs, TxInsert
  <2>2. \A q \in Procs : q # p => pc[q] # "commit"
    BY <1>3 DEF TxInsert, InsertWaits
  <2>3. QED
    BY <1>3, <2>1, <2>2 DEF IInv, LocksInv, TypeOK, TxInsert, Goto
<1>4. ASSUME NEW p \in Procs, TxInsertDuplicate(p)
      PROVE  LocksInv'
  BY <1>4 DEF IInv, LocksInv, TypeOK, TxInsertDuplicate, Fail, Goto
<1>5. ASSUME NEW p \in Procs, TxCommit(p)
      PROVE  LocksInv'
  <2>1. retired[p] = Len(rows) /\ Len(rows) \in Nat
    BY <1>5, ActiveRowIsNewest DEF IInv, LocksInv, TxCommit
  <2>2. \A q \in Procs : q # p => retired[q] = 0 /\ pc[q] # "commit"
    BY <1>5, <2>1 DEF IInv, LocksInv, TypeOK, RowRefs, TxCommit
  <2>3. \A q \in Procs : retired'[q] = 0 /\ pc'[q] # "commit"
    BY <1>5, <2>2 DEF IInv, TypeOK, TxCommit, Goto
  <2>4. QED
    BY <2>3 DEF LocksInv
<1>6. ASSUME NEW p \in Procs, TxCommitLost(p)
      PROVE  LocksInv'
  <2>1. retired[p] = Len(rows) /\ Len(rows) \in Nat
    BY <1>6, ActiveRowIsNewest DEF IInv, LocksInv, TxCommitLost
  <2>2. \A q \in Procs : q # p => retired[q] = 0 /\ pc[q] # "commit"
    BY <1>6, <2>1 DEF IInv, LocksInv, TypeOK, RowRefs, TxCommitLost
  <2>3. \A q \in Procs : retired'[q] = 0 /\ pc'[q] # "commit"
    BY <1>6, <2>2 DEF IInv, TypeOK, TxCommitLost, Fail, Goto
  <2>4. QED
    BY <2>3 DEF LocksInv
<1>7. ASSUME NEW p \in Procs, TxFail(p)
      PROVE  LocksInv'
  BY <1>7 DEF IInv, LocksInv, TypeOK, TxFail, Fail, Goto, TxPcs
<1>8. ASSUME NEW p \in Procs, RefreshSelect(p)
      PROVE  LocksInv'
  <2>1. retired[p] = 0 /\ rows' = rows
    BY <1>8 DEF IInv, LocksInv, RefreshSelect
  <2>2. /\ retired'[p] = 0 /\ pc'[p] # "commit"
        /\ \A q \in Procs : q # p => retired'[q] = retired[q] /\ pc'[q] = pc[q]
    BY <1>8, <2>1 DEF IInv, TypeOK, RefreshSelect, Fail, Goto
  <2>3. QED
    BY <2>1, <2>2 DEF IInv, LocksInv
<1>9. ASSUME NEW p \in Procs, RefreshStore(p)
      PROVE  LocksInv'
  <2>1. retired[p] = 0 /\ pc'[p] \in {"idle", "select"}
        /\ \A q \in Procs : q # p => pc'[q] = pc[q]
    BY <1>9 DEF IInv, LocksInv, TypeOK, RefreshStore, Goto
  <2>2. rows' = rows /\ retired' = retired
    BY <1>9 DEF RefreshStore
  <2>3. QED
    BY <2>1, <2>2 DEF IInv, LocksInv
<1>10. ASSUME NEW p \in Procs, RefreshFail(p)
      PROVE  LocksInv'
  BY <1>10 DEF IInv, LocksInv, TypeOK, RefreshFail, Fail, Goto
<1>11. ASSUME NEW r \in Replicas, RefreshTick(r)
      PROVE  LocksInv'
  BY <1>11 DEF IInv, LocksInv, TypeOK, RefreshTick, Goto
<1>12. ASSUME NEW r \in Replicas, Boot(r)
      PROVE  LocksInv'
  <2>1. retired[r] = 0 /\ pc'[r] \in {"idle", "select"}
        /\ \A q \in Procs : q # r => pc'[q] = pc[q]
    BY <1>12 DEF IInv, JobsInv, LocksInv, TypeOK, Boot, Goto
  <2>2. rows' = rows /\ retired' = retired
    BY <1>12 DEF Boot
  <2>3. QED
    BY <2>1, <2>2 DEF IInv, LocksInv
<1>13. ASSUME NEW r \in Replicas, Crash(r)
      PROVE  LocksInv'
  BY <1>13 DEF IInv, LocksInv, TypeOK, Crash
<1>14. ASSUME NEW a \in Admins, NEW r \in Replicas, Rotate(a, r)
      PROVE  LocksInv'
  BY <1>14 DEF IInv, LocksInv, TypeOK, Rotate, Goto
<1>15. CASE UNCHANGED vars
  BY <1>15 DEF IInv, LocksInv, TypeOK, vars
<1>16. QED
  BY <1>1, <1>2, <1>3, <1>4, <1>5, <1>6, <1>7, <1>8, <1>9, <1>10, <1>11, <1>12, <1>13, <1>14, <1>15 DEF Next


\* The table changes only when a transaction commits.
LEMMA TableSteps ==
  ASSUME [Next]_vars
  PROVE  \/ rows' = rows
         \/ \E p \in Procs : pc[p] = "commit" /\ CommitRows(p)
  BY DEF Next, vars, TxUpdate, TxUpdateResume, TxInsert, TxInsertDuplicate,
         TxCommit, TxCommitLost, TxFail, RefreshSelect, RefreshStore,
         RefreshFail, RefreshTick, Boot, Crash, Rotate

LEMMA NewestStep ==
  ASSUME IInv, [Next]_vars
  PROVE  NewestIsActive'
<1>1. CASE rows' = rows
  BY <1>1 DEF IInv, NewestIsActive, Active
<1>2. ASSUME NEW p \in Procs, pc[p] = "commit", CommitRows(p)
      PROVE  NewestIsActive'
  BY <1>2, CommitTable DEF IInv, LocksInv, NewestIsActive
<1>3. QED
  BY <1>1, <1>2, TableSteps

\* Snapshots are only ever filled with rows, and a replica serves only once
\* its snapshot has been filled.
LEMMA ServingStep ==
  ASSUME IInv, [Next]_vars
  PROVE  ServingHasKey'
<1> USE ReplicasAssumption DEF Procs
<1>1. ASSUME NEW p \in Procs, RefreshStore(p)
      PROVE  ServingHasKey'
  <2>1. seen[p] # 0 /\ on[p] \in Replicas
    BY <1>1 DEF IInv, SeenInv, TypeOK, RefreshStore
  <2>2. /\ cache'[on[p]] = seen[p]
        /\ \A r \in Replicas : r # on[p] => cache'[r] = cache[r]
    BY <1>1, <2>1 DEF IInv, TypeOK, RefreshStore
  <2>3. \A r \in Replicas : status'[r] = status[r] \/ (r = p /\ on[p] = r)
    BY <1>1 DEF IInv, TypeOK, JobsInv, RefreshStore
  <2>4. QED
    BY <2>1, <2>2, <2>3 DEF IInv, ServingHasKey
<1>2. ASSUME NEW r \in Replicas, Boot(r) \/ Crash(r)
      PROVE  ServingHasKey'
  BY <1>2 DEF IInv, TypeOK, ServingHasKey, Boot, Crash
<1>3. ASSUME cache' = cache,
             \A r \in Replicas : status'[r] = status[r] \/ status'[r] = "down"
      PROVE  ServingHasKey'
  BY <1>3 DEF IInv, ServingHasKey
<1>4. ASSUME NEW p \in Procs, Fail(p), cache' = cache
      PROVE  ServingHasKey'
  BY <1>3, <1>4 DEF IInv, TypeOK, Fail
<1>5. CASE cache' = cache /\ status' = status
  BY <1>3, <1>5
<1>6. ASSUME NEW p \in Procs, RefreshSelect(p)
      PROVE  ServingHasKey'
  BY <1>4, <1>5, <1>6 DEF RefreshSelect
<1>7. ASSUME NEW p \in Procs,
             \/ TxInsertDuplicate(p) \/ TxCommitLost(p) \/ TxFail(p)
             \/ RefreshFail(p)
      PROVE  ServingHasKey'
  BY <1>4, <1>7 DEF TxInsertDuplicate, TxCommitLost, TxFail, RefreshFail
<1>8. ASSUME NEW p \in Procs,
             \/ TxUpdate(p) \/ TxUpdateResume(p) \/ TxInsert(p) \/ TxCommit(p)
      PROVE  ServingHasKey'
  BY <1>5, <1>8 DEF TxUpdate, TxUpdateResume, TxInsert, TxCommit
<1>9. CASE \/ \E r \in Replicas : RefreshTick(r)
           \/ \E a \in Admins, r \in Replicas : Rotate(a, r)
           \/ UNCHANGED vars
  BY <1>5, <1>9 DEF RefreshTick, Rotate, vars
<1>10. QED
  BY <1>1, <1>2, <1>6, <1>7, <1>8, <1>9 DEF Next

\* Set's refresh reads its own row or a newer one.
LEMMA OwnRowStep ==
  ASSUME IInv, [Next]_vars
  PROVE  SetReadsOwnRow'
<1> USE ReplicasAssumption DEF Procs
<1>1. ASSUME NEW p \in Procs, TxUpdate(p)
      PROVE  SetReadsOwnRow'
  BY <1>1 DEF IInv, SetReadsOwnRow, TypeOK, TxUpdate, Retire, Goto
<1>2. ASSUME NEW p \in Procs, TxUpdateResume(p)
      PROVE  SetReadsOwnRow'
  BY <1>2 DEF IInv, SetReadsOwnRow, TypeOK, TxUpdateResume, Retire, Goto
<1>3. ASSUME NEW p \in Procs, TxInsert(p)
      PROVE  SetReadsOwnRow'
  BY <1>3 DEF IInv, SetReadsOwnRow, TypeOK, TxInsert, Goto
<1>4. ASSUME NEW p \in Procs, TxInsertDuplicate(p)
      PROVE  SetReadsOwnRow'
  BY <1>4 DEF IInv, SetReadsOwnRow, TypeOK, TxInsertDuplicate, Fail, Goto
<1>5. ASSUME NEW p \in Procs, TxCommit(p)
      PROVE  SetReadsOwnRow'
  BY <1>5 DEF IInv, SetReadsOwnRow, TypeOK, TxCommit, Goto
<1>6. ASSUME NEW p \in Procs, TxCommitLost(p)
      PROVE  SetReadsOwnRow'
  BY <1>6 DEF IInv, SetReadsOwnRow, TypeOK, TxCommitLost, Fail, Goto
<1>7. ASSUME NEW p \in Procs, TxFail(p)
      PROVE  SetReadsOwnRow'
  BY <1>7 DEF IInv, SetReadsOwnRow, TypeOK, TxFail, Fail, Goto
<1>8. ASSUME NEW p \in Procs, RefreshSelect(p)
      PROVE  SetReadsOwnRow'
  <2>1. ActiveRow = Len(rows) /\ \A a \in Admins : mine[a] <= Len(rows)
    BY ActiveRowIsNewest DEF IInv, TypeOK, RowRefs
  <2>2. QED
    BY <1>8, <2>1 DEF IInv, SetReadsOwnRow, TypeOK, RefreshSelect, Fail, Goto
<1>9. ASSUME NEW p \in Procs, RefreshStore(p)
      PROVE  SetReadsOwnRow'
  BY <1>9 DEF IInv, SetReadsOwnRow, TypeOK, RefreshStore, Goto
<1>10. ASSUME NEW p \in Procs, RefreshFail(p)
      PROVE  SetReadsOwnRow'
  BY <1>10 DEF IInv, SetReadsOwnRow, TypeOK, RefreshFail, Fail, Goto
<1>11. ASSUME NEW r \in Replicas, RefreshTick(r)
      PROVE  SetReadsOwnRow'
  BY <1>11 DEF IInv, SetReadsOwnRow, TypeOK, RefreshTick, Goto
<1>12. ASSUME NEW r \in Replicas, Boot(r)
      PROVE  SetReadsOwnRow'
  BY <1>12 DEF IInv, SetReadsOwnRow, TypeOK, Boot, Goto
<1>13. ASSUME NEW r \in Replicas, Crash(r)
      PROVE  SetReadsOwnRow'
  BY <1>13 DEF IInv, SetReadsOwnRow, TypeOK, Crash
<1>14. ASSUME NEW a \in Admins, NEW r \in Replicas, Rotate(a, r)
      PROVE  SetReadsOwnRow'
  BY <1>14 DEF IInv, SetReadsOwnRow, TypeOK, Rotate, Goto
<1>15. CASE UNCHANGED vars
  BY <1>15 DEF IInv, SetReadsOwnRow, TypeOK, vars
<1>16. QED
  BY <1>1, <1>2, <1>3, <1>4, <1>5, <1>6, <1>7, <1>8, <1>9, <1>10, <1>11, <1>12, <1>13, <1>14, <1>15 DEF Next

-----------------------------------------------------------------------------
LEMMA InitIInv == Init => IInv
<1> USE ReplicasAssumption DEF Procs
<1> SUFFICES ASSUME Init PROVE IInv
  OBVIOUS
<1>1. rows \in Seq([active : BOOLEAN, origin : {"env", "admin"}]) /\ Len(rows) = 0
  BY DEF Init
<1>2. TypeOK
  BY <1>1 DEF Init, TypeOK, RowRefs, TxPcs
<1>3. JobsInv /\ SeenInv
  BY DEF Init, JobsInv, SeenInv
<1>4. LocksInv /\ SetReadsOwnRow
  BY DEF Init, LocksInv, SetReadsOwnRow
<1>5. NewestIsActive /\ ServingHasKey
  BY DEF Init, NewestIsActive, ServingHasKey
<1>6. QED
  BY <1>2, <1>3, <1>4, <1>5 DEF IInv

LEMMA NextIInv == IInv /\ [Next]_vars => IInv'
  BY TypeStep, JobsStep, LocksStep, SeenStep, NewestStep, ServingStep,
     OwnRowStep DEF IInv

(***************************************************************************)
(* The inductive invariant holds of every behaviour, however many replicas *)
(* boot and administrators rotate at once.                                 *)
(***************************************************************************)
THEOREM Invariance == Spec => []IInv
  BY InitIInv, NextIInv, PTL DEF Spec

(***************************************************************************)
(* Snapshots and goroutines only ever refer to committed rows.             *)
(***************************************************************************)
THEOREM TypeCorrect == Spec => []TypeOK
  BY Invariance, PTL DEF IInv

(***************************************************************************)
(* From the first key on, exactly the newest row is active, through every  *)
(* race of rotations and boots, every rollback and every crash.            *)
(***************************************************************************)
THEOREM OneActiveKey == Spec => []NewestIsActive
  BY Invariance, PTL DEF IInv

(***************************************************************************)
(* A serving replica never forwards a request without an upstream key.     *)
(***************************************************************************)
THEOREM NeverKeyless == Spec => []ServingHasKey
  BY Invariance, PTL DEF IInv

(***************************************************************************)
(* A Set that returns nil has put its own key, or a newer one, into the    *)
(* snapshot of the replica it ran on.                                      *)
(***************************************************************************)
THEOREM SetTakesEffect == Spec => []SetReadsOwnRow
  BY Invariance, PTL DEF IInv

(***************************************************************************)
(* The transactions of any number of rotations never deadlock: a blocked   *)
(* one always waits for one that can go on.                                *)
(***************************************************************************)
THEOREM RotationsNeverDeadlock == Spec => []NoLockCycle
<1>1. ASSUME IInv, NEW p \in Procs, Blocked(p)
      PROVE  \E q \in Procs \ {p} : pc[q] \in {"insert", "commit"} /\ ~Blocked(q)
  <2>1. \A q \in Procs : pc[q] = "commit" => ~Blocked(q)
    BY DEF Blocked
  <2>2. pc[p] \in {"wait", "insert"}
    BY <1>1 DEF Blocked
  <2>3. CASE \E q \in Procs : pc[q] = "commit"
    BY <2>1, <2>2, <2>3
  <2>4. CASE \A q \in Procs : pc[q] # "commit"
    <3>1. \E i \in RowRefs : LockedByOther(p, i)
      BY <1>1, <2>4, ActiveRowIsNewest
         DEF Blocked, InsertWaits, IInv, TypeOK
    <3>2. PICK q \in Procs \ {p} : retired[q] # 0
      BY <3>1 DEF LockedByOther
    <3>3. pc[q] = "insert" /\ retired[q] = Len(rows)
      BY <1>1, <2>4, <3>2 DEF IInv, LocksInv
    <3>4. ActiveRow = retired[q]
      BY <1>1, <3>3, ActiveRowIsNewest DEF IInv
    <3>5. ~LockedByOther(q, ActiveRow)
      BY <1>1, <3>2, <3>4 DEF LockedByOther, IInv, LocksInv
    <3>6. ~Blocked(q)
      BY <2>4, <3>3, <3>5 DEF Blocked, InsertWaits
    <3>7. QED
      BY <3>2, <3>3, <3>6
  <2>5. QED
    BY <2>3, <2>4
<1>2. IInv => NoLockCycle
  BY <1>1 DEF NoLockCycle
<1>3. QED
  BY <1>2, Invariance, PTL

-----------------------------------------------------------------------------
(* The refinement of KeyRotation: the values of its variables.             *)

LookedAt(r) == {seen[p] : p \in {q \in Procs : on[q] = r /\ pc[q] = "store"}}
Looked == [r \in Replicas |-> LookedAt(r)]
ServedBy(r) == IF status[r] = "serving" THEN cache[r] ELSE 0
Served == [r \in Replicas |-> ServedBy(r)]

\* What an abstract step is, in terms of these.
LEMMA AbstractNext ==
  ASSUME \/ Len(rows)' = Len(rows) + 1 /\ Looked' = Looked /\ Served' = Served
         \/ \E r \in Replicas :
              /\ Len(rows) # 0 /\ Len(rows)' = Len(rows) /\ Served' = Served
              /\ Looked' = [Looked EXCEPT ![r] = @ \cup {Len(rows)}]
         \/ \E r \in Replicas : \E k \in Looked[r] :
              /\ Len(rows)' = Len(rows)
              /\ Looked' \in {Looked, [Looked EXCEPT ![r] = @ \ {k}]}
              /\ Served' \in {Served, [Served EXCEPT ![r] = k]}
         \/ \E r \in Replicas :
              /\ Len(rows)' = Len(rows)
              /\ Looked' = [Looked EXCEPT ![r] = {}]
              /\ Served' = [Served EXCEPT ![r] = 0]
         \/ Len(rows)' = Len(rows) /\ Looked' = Looked /\ Served' = Served
  PROVE  [Rotation!Next]_(Rotation!vars)
  BY DEF Rotation!Next, Rotation!vars, Rotation!SetKey, Rotation!Look,
         Rotation!TakeUp, Rotation!Stop, Looked, LookedAt, Served, ServedBy

\* A step that leaves those alone who are about to store.
LEMMA LookedFrame ==
  ASSUME \A p \in Procs :
           /\ pc'[p] = "store" <=> pc[p] = "store"
           /\ pc[p] = "store" => seen'[p] = seen[p] /\ on'[p] = on[p]
  PROVE  Looked' = Looked
<1>1. ASSUME NEW r \in Replicas
      PROVE  LookedAt(r)' = LookedAt(r)
  BY DEF LookedAt
<1>2. QED
  BY <1>1 DEF Looked

LEMMA ServedFrame ==
  ASSUME \A r \in Replicas :
           /\ status'[r] = "serving" <=> status[r] = "serving"
           /\ status[r] = "serving" => cache'[r] = cache[r]
  PROVE  Served' = Served
  BY DEF Served, ServedBy

\* p, on r, has left "store": what it read is dropped unless another one on r
\* has read the same.
LEMMA LookedDrop ==
  ASSUME NEW p \in Procs, on[p] \in Replicas, pc[p] = "store", pc'[p] # "store",
         seen' = seen, on' = on,
         \A q \in Procs \ {p} : pc'[q] = pc[q]
  PROVE  /\ seen[p] \in Looked[on[p]]
         /\ Looked' \in {Looked, [Looked EXCEPT ![on[p]] = @ \ {seen[p]}]}
<1> DEFINE r == on[p]
<1>1. seen[p] \in LookedAt(r)
  BY DEF LookedAt
<1>2. ASSUME NEW o \in Replicas \ {r}
      PROVE  LookedAt(o)' = LookedAt(o)
  BY DEF LookedAt
<1>3. LookedAt(r)' = LookedAt(r) \/ LookedAt(r)' = LookedAt(r) \ {seen[p]}
  <2>1. CASE \E q \in Procs \ {p} : on[q] = r /\ pc[q] = "store" /\ seen[q] = seen[p]
    <3>1. LookedAt(r)' = LookedAt(r)
      BY <2>1 DEF LookedAt
    <3>2. QED
      BY <3>1
  <2>2. CASE ~ \E q \in Procs \ {p} : on[q] = r /\ pc[q] = "store" /\ seen[q] = seen[p]
    <3>1. LookedAt(r)' = LookedAt(r) \ {seen[p]}
      BY <2>2 DEF LookedAt
    <3>2. QED
      BY <3>1
  <2>3. QED
    BY <2>1, <2>2
<1>4. QED
  <2>1. CASE LookedAt(r)' = LookedAt(r)
    BY <1>1, <1>2, <2>1 DEF Looked
  <2>2. CASE LookedAt(r)' = LookedAt(r) \ {seen[p]}
    BY <1>1, <1>2, <2>2 DEF Looked
  <2>3. QED
    BY <1>3, <2>1, <2>2

\* Every step is one of KeyRotation, or none.
LEMMA RotationStep ==
  ASSUME IInv, [Next]_vars
  PROVE  [Rotation!Next]_(Rotation!vars)
<1> USE ReplicasAssumption
<1> DEFINE Stutter == Len(rows)' = Len(rows) /\ Looked' = Looked /\ Served' = Served
           Commits == Len(rows)' = Len(rows) + 1 /\ Looked' = Looked /\ Served' = Served
<1>1. ASSUME NEW p \in Procs,
             \/ TxUpdate(p) \/ TxUpdateResume(p) \/ TxInsert(p)
             \/ TxInsertDuplicate(p) \/ TxFail(p)
      PROVE  Stutter
  <2>1. rows' = rows
    BY <1>1 DEF TxUpdate, TxUpdateResume, TxInsert, TxInsertDuplicate, TxFail
  <2>2. Looked' = Looked
    BY <1>1, LookedFrame
       DEF IInv, TypeOK, TxUpdate, TxUpdateResume, TxInsert, TxInsertDuplicate,
           TxFail, TxPcs, Fail, Retire, Goto
  <2>3. Served' = Served
    BY <1>1, ServedFrame
       DEF IInv, TypeOK, TxUpdate, TxUpdateResume, TxInsert, TxInsertDuplicate,
           TxFail, Fail
  <2>4. QED
    BY <2>1, <2>2, <2>3
<1>2. ASSUME NEW p \in Procs, TxCommit(p) \/ TxCommitLost(p)
      PROVE  Commits
  <2>1. Len(rows') = Len(rows) + 1
    BY <1>2, CommitTable DEF IInv, LocksInv, TxCommit, TxCommitLost
  <2>2. Looked' = Looked
    BY <1>2, LookedFrame DEF IInv, TypeOK, TxCommit, TxCommitLost, Fail, Goto
  <2>3. Served' = Served
    BY <1>2, ServedFrame DEF IInv, TypeOK, TxCommit, TxCommitLost, Fail
  <2>4. QED
    BY <2>1, <2>2, <2>3
<1>3. ASSUME NEW p \in Procs, RefreshSelect(p)
      PROVE  \/ Stutter
             \/ \E r \in Replicas :
                  /\ Len(rows) # 0 /\ Len(rows)' = Len(rows) /\ Served' = Served
                  /\ Looked' = [Looked EXCEPT ![r] = @ \cup {Len(rows)}]
  <2>1. rows' = rows
    BY <1>3 DEF RefreshSelect
  <2>2. Served' = Served
    BY <1>3, ServedFrame DEF IInv, TypeOK, RefreshSelect, Fail
  <2>3. CASE ActiveRow = 0
    <3>1. Looked' = Looked
      BY <1>3, <2>3, LookedFrame DEF IInv, TypeOK, RefreshSelect, Fail, Goto
    <3>2. QED
      BY <2>1, <2>2, <3>1
  <2>4. CASE ActiveRow # 0
    <3>1. /\ Len(rows) # 0 /\ seen' = [seen EXCEPT ![p] = Len(rows)]
          /\ pc[p] = "select" /\ pc' = [pc EXCEPT ![p] = "store"] /\ on' = on
      BY <1>3, <2>4, ActiveRowIsNewest DEF IInv, RefreshSelect, Goto
    <3>2. PICK r \in Replicas : on[p] = r
      BY DEF IInv, TypeOK
    <3>3. LookedAt(r)' = LookedAt(r) \cup {Len(rows)}
      BY <3>1, <3>2 DEF LookedAt, IInv, TypeOK
    <3>4. ASSUME NEW o \in Replicas \ {r}
          PROVE  LookedAt(o)' = LookedAt(o)
      BY <3>1, <3>2 DEF LookedAt, IInv, TypeOK
    <3>5. Looked' = [Looked EXCEPT ![r] = @ \cup {Len(rows)}]
      BY <3>2, <3>3, <3>4 DEF Looked
    <3>6. QED
      BY <2>1, <2>2, <3>1, <3>2, <3>5
  <2>5. QED
    BY <2>3, <2>4
<1>4. ASSUME NEW p \in Procs, RefreshStore(p)
      PROVE  \E r \in Replicas : \E k \in Looked[r] :
               /\ Len(rows)' = Len(rows)
               /\ Looked' \in {Looked, [Looked EXCEPT ![r] = @ \ {k}]}
               /\ Served' \in {Served, [Served EXCEPT ![r] = k]}
  <2>1. rows' = rows /\ on[p] \in Replicas
    BY <1>4 DEF RefreshStore, IInv, TypeOK
  <2>2. /\ seen[p] \in Looked[on[p]]
        /\ Looked' \in {Looked, [Looked EXCEPT ![on[p]] = @ \ {seen[p]}]}
    BY <1>4, <2>1, LookedDrop DEF RefreshStore, Goto, IInv, TypeOK
  <2>3. /\ cache' = [cache EXCEPT ![on[p]] = seen[p]]
        /\ \A o \in Replicas \ {on[p]} : status'[o] = status[o]
        /\ status[on[p]] = "serving" => status'[on[p]] = "serving"
    BY <1>4 DEF RefreshStore, IInv, TypeOK, JobsInv, Procs
  <2>4. ASSUME NEW o \in Replicas \ {on[p]}
        PROVE  ServedBy(o)' = ServedBy(o)
    BY <2>3 DEF ServedBy, IInv, TypeOK
  <2>5. CASE status'[on[p]] = "serving"
    <3>1. Served' = [Served EXCEPT ![on[p]] = seen[p]]
      BY <2>1, <2>3, <2>4, <2>5 DEF Served, ServedBy, IInv, TypeOK
    <3>2. QED
      BY <2>1, <2>2, <3>1
  <2>6. CASE status'[on[p]] # "serving"
    <3>1. Served' = Served
      BY <2>3, <2>4, <2>6 DEF Served, ServedBy
    <3>2. QED
      BY <2>1, <2>2, <3>1
  <2>7. QED
    BY <2>5, <2>6
<1>5. ASSUME NEW p \in Procs, RefreshFail(p)
      PROVE  \/ Stutter
             \/ \E r \in Replicas : \E k \in Looked[r] :
                  /\ Len(rows)' = Len(rows)
                  /\ Looked' \in {Looked, [Looked EXCEPT ![r] = @ \ {k}]}
                  /\ Served' \in {Served, [Served EXCEPT ![r] = k]}
  <2>1. rows' = rows /\ on[p] \in Replicas
    BY <1>5 DEF RefreshFail, IInv, TypeOK
  <2>2. Served' = Served
    BY <1>5, ServedFrame DEF IInv, TypeOK, RefreshFail, Fail
  <2>3. CASE pc[p] = "select"
    <3>1. Looked' = Looked
      BY <1>5, <2>3, LookedFrame DEF IInv, TypeOK, RefreshFail, Fail, Goto
    <3>2. QED
      BY <2>1, <2>2, <3>1
  <2>4. CASE pc[p] = "store"
    <3>1. /\ seen[p] \in Looked[on[p]]
          /\ Looked' \in {Looked, [Looked EXCEPT ![on[p]] = @ \ {seen[p]}]}
      BY <1>5, <2>1, <2>4, LookedDrop DEF RefreshFail, Fail, Goto, IInv, TypeOK
    <3>2. QED
      BY <2>1, <2>2, <3>1
  <2>5. QED
    BY <1>5, <2>3, <2>4 DEF RefreshFail
<1>6. ASSUME NEW r \in Replicas, RefreshTick(r) \/ Boot(r)
      PROVE  Stutter
  <2>1. rows' = rows
    BY <1>6 DEF RefreshTick, Boot
  <2>2. Looked' = Looked
    BY <1>6, LookedFrame DEF IInv, TypeOK, JobsInv, RefreshTick, Boot, Goto, Procs
  <2>3. Served' = Served
    BY <1>6, ServedFrame DEF IInv, TypeOK, RefreshTick, Boot
  <2>4. QED
    BY <2>1, <2>2, <2>3
<1>7. ASSUME NEW r \in Replicas, Crash(r)
      PROVE  /\ Len(rows)' = Len(rows)
             /\ Looked' = [Looked EXCEPT ![r] = {}]
             /\ Served' = [Served EXCEPT ![r] = 0]
  <2>1. rows' = rows
    BY <1>7 DEF Crash
  <2>2. LookedAt(r)' = {}
    BY <1>7 DEF Crash, LookedAt
  <2>3. ASSUME NEW o \in Replicas \ {r}
        PROVE  LookedAt(o)' = LookedAt(o)
    BY <1>7 DEF Crash, LookedAt
  <2>4. Looked' = [Looked EXCEPT ![r] = {}]
    BY <2>2, <2>3 DEF Looked
  <2>5. Served' = [Served EXCEPT ![r] = 0]
    BY <1>7 DEF Crash, Served, ServedBy, IInv, TypeOK
  <2>6. QED
    BY <2>1, <2>4, <2>5
<1>8. ASSUME NEW a \in Admins, NEW r \in Replicas, Rotate(a, r)
      PROVE  Stutter
  <2>1. rows' = rows
    BY <1>8 DEF Rotate
  <2>2. Looked' = Looked
    BY <1>8, LookedFrame DEF IInv, TypeOK, Rotate, Goto, Procs
  <2>3. Served' = Served
    BY <1>8, ServedFrame DEF Rotate
  <2>4. QED
    BY <2>1, <2>2, <2>3
<1>9. ASSUME UNCHANGED vars
      PROVE  Stutter
  <2>1. Looked' = Looked /\ Served' = Served
    BY <1>9, LookedFrame, ServedFrame DEF vars
  <2>2. QED
    BY <1>9, <2>1 DEF vars
<1>10. QED
  BY <1>1, <1>2, <1>3, <1>4, <1>5, <1>6, <1>7, <1>8, <1>9, AbstractNext DEF Next

(***************************************************************************)
(* For any number of replicas, administrators and rows the key store       *)
(* implements KeyRotation: whatever a serving replica sends upstream was   *)
(* the newest key at some moment of the refresh that stored it.            *)
(***************************************************************************)
THEOREM RotationImplemented == Spec => ImplementsRotation
<1>1. Init => Rotation!Init
  <2>1. ASSUME Init
        PROVE  Rotation!Init
    BY <2>1 DEF Init, Rotation!Init
  <2>2. QED
    BY <2>1
<1>2. IInv /\ [Next]_vars => [Rotation!Next]_(Rotation!vars)
  BY RotationStep
<1>3. QED
  BY <1>1, <1>2, Invariance, PTL DEF Spec, ImplementsRotation, Rotation!Spec
=============================================================================
