------------------------- MODULE VerifyCacheProofs -------------------------
(***************************************************************************)
(* Proofs about VerifyCache, for any set of keys and goroutines, any TTL   *)
(* and any bounds.  The inductive invariant is the conjunction of          *)
(*   TypeOK        the shape of the state,                                 *)
(*   RowsInv       the versions of a row are committed in clock order,     *)
(*   ReadsInv      every row held in Redis or by a Verify call was current *)
(*                 when it was read,                                       *)
(*   LifetimesInv  how long such a row can still be around,                *)
(*   VerdictsInv   what both say about the verdict just handed out.        *)
(***************************************************************************)
EXTENDS VerifyCache, TLAPS

\* The versions of a row follow each other in clock order.
RowsInv ==
  \A k \in Keys :
    /\ db[k].state = "unissued" => db[k].ver = 0
    /\ \A m, n \in Versions :
         m <= n /\ n <= db[k].ver => since[k][m] <= since[k][n]
    /\ since[k][db[k].ver] <= now

\* x is a row read from the table: it was current at x.readAt.
WasCurrent(x) ==
  /\ x.plain = "issued"
  /\ x.row.state = "live"
  /\ x.readAt <= now
  /\ x.row.ver <= db[x.key].ver
  /\ x.row.ver = db[x.key].ver => x.row = db[x.key]
  /\ x.row.ver < db[x.key].ver => x.readAt <= since[x.key][x.row.ver + 1]

ReadsInv ==
  /\ \A e \in cache : WasCurrent(e)
  /\ \A f \in fills : WasCurrent(f)

LifetimesInv ==
  /\ \A f \in fills : now <= f.readAt + MaxFill
  /\ CacheTTL > 0 =>
       \A e \in cache : /\ now < e.expires
                        /\ e.expires <= e.readAt + MaxFill + CacheTTL

\* A row that validateKey accepts.
Accepted(row) ==
  row.state = "live" /\ row.active /\ (row.exp = NoExpiry \/ now <= row.exp)

VerdictsInv ==
  \A r \in returned :
    /\ r.row.ver <= db[r.key].ver
    /\ r.row.ver = db[r.key].ver => r.row = db[r.key]
    /\ r.res = "ok" => r.plain = "issued" /\ Accepted(r.row)
    /\ r.plain = "issued" /\ r.res # "ok" => ~Accepted(r.row)
    /\ CacheTTL > 0 /\ r.row.ver < db[r.key].ver =>
         now <= since[r.key][r.row.ver + 1] + CacheTTL + MaxFill

IInv == TypeOK /\ RowsInv /\ ReadsInv /\ LifetimesInv /\ VerdictsInv

-----------------------------------------------------------------------------
\* Copies of a row that differ in one field are rows.
LEMMA RowUpdates ==
  ASSUME NEW row \in Row
  PROVE  /\ \A b \in BOOLEAN : [row EXCEPT !.active = b] \in Row
         /\ \A x \in Deadlines \cup {NoExpiry} : [row EXCEPT !.exp = x] \in Row
         /\ [row EXCEPT !.state = "deleted"] \in Row
         /\ \A n \in Versions : [row EXCEPT !.ver = n] \in Row
  BY DEF Row

\* What an UPDATE or DELETE leaves behind.
LEMMA CommitType ==
  ASSUME TypeOK, NEW k \in Keys, NEW row \in Row, Commit(k, row)
  PROVE  /\ db[k].ver + 1 \in Versions
         /\ db' \in [Keys -> Row]
         /\ since' \in [Keys -> [Versions -> Nat]]
<1>1. db[k].ver + 1 \in Versions
  BY ConstantsAssumption DEF TypeOK, Commit, Row, Versions
<1>2. [row EXCEPT !.ver = db[k].ver + 1] \in Row
  BY <1>1, RowUpdates
<1>3. db' \in [Keys -> Row]
  BY <1>2 DEF TypeOK, Commit
<1>4. since' \in [Keys -> [Versions -> Nat]]
  BY <1>1 DEF TypeOK, Commit
<1>5. QED
  BY <1>1, <1>3, <1>4

\* Marking entries keeps what they say.
LEMMA MarkMissedType ==
  ASSUME NEW k \in Keys, cache \subseteq Entry,
         \A e, f \in cache : e.key = f.key => e = f
  PROVE  /\ MarkMissed(k) \subseteq Entry
         /\ \A e, f \in MarkMissed(k) : e.key = f.key => e = f
         /\ \A m \in MarkMissed(k) : \E e \in cache :
              /\ m.key = e.key /\ m.plain = e.plain /\ m.row = e.row
              /\ m.expires = e.expires /\ m.readAt = e.readAt
              /\ m.late = e.late
              /\ m.key = k => m.missed
              /\ m.key # k => m = e
<1>1. ASSUME NEW e \in cache
      PROVE  /\ [e EXCEPT !.missed = TRUE] \in Entry
             /\ [e EXCEPT !.missed = TRUE].key = e.key
             /\ [e EXCEPT !.missed = TRUE].plain = e.plain
             /\ [e EXCEPT !.missed = TRUE].row = e.row
             /\ [e EXCEPT !.missed = TRUE].expires = e.expires
             /\ [e EXCEPT !.missed = TRUE].readAt = e.readAt
             /\ [e EXCEPT !.missed = TRUE].late = e.late
             /\ [e EXCEPT !.missed = TRUE].missed = TRUE
  BY <1>1 DEF Entry
<1>2. ASSUME NEW m \in MarkMissed(k)
      PROVE  \E e \in cache :
               /\ m = IF e.key = k THEN [e EXCEPT !.missed = TRUE] ELSE e
               /\ m.key = e.key /\ m.plain = e.plain /\ m.row = e.row
               /\ m.expires = e.expires /\ m.readAt = e.readAt
               /\ m.late = e.late
               /\ m.key = k => m.missed
               /\ m.key # k => m = e
  <2>1. PICK e \in cache : m = IF e.key = k THEN [e EXCEPT !.missed = TRUE] ELSE e
    BY DEF MarkMissed
  <2>2. CASE e.key = k
    BY <1>1, <2>1, <2>2
  <2>3. CASE e.key # k
    BY <2>1, <2>3
  <2>4. QED
    BY <2>2, <2>3
<1>3. MarkMissed(k) \subseteq Entry
  BY <1>1 DEF MarkMissed
<1>4. ASSUME NEW m \in MarkMissed(k), NEW n \in MarkMissed(k), m.key = n.key
      PROVE  m = n
  <2>1. PICK e \in cache : m = (IF e.key = k THEN [e EXCEPT !.missed = TRUE] ELSE e)
                             /\ m.key = e.key
    BY <1>2
  <2>2. PICK f \in cache : n = (IF f.key = k THEN [f EXCEPT !.missed = TRUE] ELSE f)
                             /\ n.key = f.key
    BY <1>2
  <2>3. e = f
    BY <1>4, <2>1, <2>2
  <2>4. QED
    BY <2>1, <2>2, <2>3
<1>5. QED
  BY <1>2, <1>3, <1>4

\* Every step keeps the shape of the state.
LEMMA TypeStep ==
  ASSUME TypeOK, [Next]_vars
  PROVE  TypeOK'
<1> USE ConstantsAssumption
<1>1. ASSUME NEW v \in Verifiers, NEW k \in Keys, NEW plain \in Secrets, VerifyStart(v, k, plain)
      PROVE  TypeOK'
  BY <1>1 DEF TypeOK, VerifyStart
<1>2. ASSUME NEW c \in calls, VerifyHit(c)
      PROVE  TypeOK'
  BY <1>2 DEF TypeOK, VerifyHit, Return, validateKey, Entry
<1>3. ASSUME NEW c \in calls, VerifyMiss(c)
      PROVE  TypeOK'
  <2>1. [c EXCEPT !.pc = "select"] \in
          [verifier : Verifiers, key : Keys, plain : Secrets, pc : {"get", "select"}]
    BY DEF TypeOK
  <2>2. QED
    BY <1>3, <2>1 DEF TypeOK, VerifyMiss
<1>4. ASSUME NEW c \in calls, VerifySelect(c)
      PROVE  TypeOK'
  BY <1>4 DEF TypeOK, VerifySelect, Return
<1>5. ASSUME NEW f \in fills, VerifySet(f)
      PROVE  TypeOK'
  <2>1. validateKey(f.row) \in {"ok", "ErrInactive", "ErrExpired"}
    BY DEF validateKey
  <2>2. SetExpiry \in Nat \cup {NoExpiry}
    BY DEF TypeOK, SetExpiry
  <2> DEFINE new == [key |-> f.key, plain |-> f.plain, row |-> f.row,
                     expires |-> SetExpiry, readAt |-> f.readAt,
                     late |-> f.row.ver # db[f.key].ver, missed |-> FALSE]
  <2>3. new \in Entry
    BY <2>2 DEF TypeOK, Entry
  <2>4. cache' = Without(f.key) \cup {new} /\ new.key = f.key
    BY <1>5 DEF VerifySet
  <2> HIDE DEF new
  <2>5. cache' \subseteq Entry /\ \A e, g \in cache' : e.key = g.key => e = g
    BY <2>3, <2>4 DEF TypeOK, Without
  <2>6. QED
    BY <1>5, <2>1, <2>5 DEF TypeOK, VerifySet, Return
<1>6. ASSUME NEW f \in fills, VerifySetFails(f)
      PROVE  TypeOK'
  BY <1>6 DEF TypeOK, VerifySetFails, Return, validateKey
<1>7. ASSUME NEW v \in Verifiers, VerifyAbort(v)
      PROVE  TypeOK'
  BY <1>7 DEF TypeOK, VerifyAbort
<1>8. ASSUME NEW k \in Keys, NEW exp \in Deadlines \cup {NoExpiry}, Issue(k, exp)
      PROVE  TypeOK'
  BY <1>8 DEF TypeOK, Issue, Row, Versions
<1>9. ASSUME NEW a \in Admins, NEW k \in Keys, NEW active \in BOOLEAN, SetActive(a, k, active)
      PROVE  TypeOK'
  <2>1. [db[k] EXCEPT !.active = active] \in Row
    BY RowUpdates DEF TypeOK
  <2>2. Commit(k, [db[k] EXCEPT !.active = active])
    BY <1>9 DEF SetActive
  <2>3. db' \in [Keys -> Row] /\ since' \in [Keys -> [Versions -> Nat]]
    BY <2>1, <2>2, CommitType
  <2>4. QED
    BY <1>9, <2>3 DEF TypeOK, SetActive, StartInvalidation
<1>10. ASSUME NEW a \in Admins, NEW k \in Keys,
                  NEW exp \in Deadlines \cup {NoExpiry}, Update(a, k, exp)
      PROVE  TypeOK'
  <2>1. [db[k] EXCEPT !.exp = exp] \in Row
    BY RowUpdates DEF TypeOK
  <2>2. Commit(k, [db[k] EXCEPT !.exp = exp])
    BY <1>10 DEF Update
  <2>3. db' \in [Keys -> Row] /\ since' \in [Keys -> [Versions -> Nat]]
    BY <2>1, <2>2, CommitType
  <2>4. QED
    BY <1>10, <2>3 DEF TypeOK, Update, StartInvalidation
<1>11. ASSUME NEW a \in Admins, NEW k \in Keys, Delete(a, k)
      PROVE  TypeOK'
  <2>1. [db[k] EXCEPT !.state = "deleted"] \in Row
    BY RowUpdates DEF TypeOK
  <2>2. Commit(k, [db[k] EXCEPT !.state = "deleted"])
    BY <1>11 DEF Delete
  <2>3. db' \in [Keys -> Row] /\ since' \in [Keys -> [Versions -> Nat]]
    BY <2>1, <2>2, CommitType
  <2>4. QED
    BY <1>11, <2>3 DEF TypeOK, Delete, StartInvalidation
<1>12. ASSUME NEW j \in jobs, InvalidateLookup(j)
      PROVE  TypeOK'
  <2>1. MarkMissed(j.key) \subseteq Entry
        /\ \A e, f \in MarkMissed(j.key) : e.key = f.key => e = f
    BY MarkMissedType DEF TypeOK
  <2>2. jobs' \subseteq [admin : Admins, key : Keys, pc : {"lookup", "del"}]
    BY <1>12 DEF TypeOK, InvalidateLookup
  <2>3. QED
    BY <1>12, <2>1, <2>2 DEF TypeOK, InvalidateLookup
<1>13. ASSUME NEW j \in jobs, InvalidateDel(j)
      PROVE  TypeOK'
  BY <1>13 DEF TypeOK, InvalidateDel, Without
<1>14. ASSUME NEW j \in jobs, InvalidateFails(j)
      PROVE  TypeOK'
  <2>1. MarkMissed(j.key) \subseteq Entry
        /\ \A e, f \in MarkMissed(j.key) : e.key = f.key => e = f
    BY MarkMissedType DEF TypeOK
  <2>2. QED
    BY <1>14, <2>1 DEF TypeOK, InvalidateFails
<1>15. ASSUME NEW e \in cache, Evict(e)
      PROVE  TypeOK'
  BY <1>15 DEF TypeOK, Evict
<1>16. ASSUME Tick
      PROVE  TypeOK'
  BY <1>16 DEF TypeOK, Tick
<1>17. CASE UNCHANGED vars
  BY <1>17 DEF TypeOK, vars
<1>18. QED
  BY <1>1, <1>2, <1>3, <1>4, <1>5, <1>6, <1>7, <1>8, <1>9, <1>10, <1>11, <1>12, <1>13, <1>14, <1>15, <1>16, <1>17 DEF Next


-----------------------------------------------------------------------------
\* One committed UPDATE or DELETE, as SetActive, Update and Delete make it.
AdminCommit(a, k, row) ==
  /\ Commit(k, row)
  /\ row.state # "unissued"
  /\ StartInvalidation(a, k)
  /\ returned' = {}
  /\ UNCHANGED <<now, cache, calls, fills>>

\* SetActive, Update and Delete are such commits.
LEMMA AdminSteps ==
  ASSUME TypeOK, NEW a \in Admins, NEW k \in Keys,
         \/ \E active \in BOOLEAN : SetActive(a, k, active)
         \/ \E exp \in Deadlines \cup {NoExpiry} : Update(a, k, exp)
         \/ Delete(a, k)
  PROVE  \E row \in Row : AdminCommit(a, k, row)
<1>1. ASSUME NEW active \in BOOLEAN,
             SetActive(a, k, active)
      PROVE  \E row \in Row : AdminCommit(a, k, row)
  <2> DEFINE row == [db[k] EXCEPT !.active = active]
  <2>1. row \in Row
    BY RowUpdates DEF TypeOK
  <2>2. row.state = db[k].state
    BY DEF TypeOK, Row
  <2>3. Commit(k, row) /\ row.state # "unissued"
    BY <1>1, <2>2 DEF SetActive, Commit
  <2> HIDE DEF row
  <2>4. AdminCommit(a, k, row)
    BY <1>1, <2>3 DEF SetActive, AdminCommit
  <2>5. QED
    BY <2>1, <2>4
<1>2. ASSUME NEW exp \in Deadlines \cup {NoExpiry}, Update(a, k, exp)
      PROVE  \E row \in Row : AdminCommit(a, k, row)
  <2> DEFINE row == [db[k] EXCEPT !.exp = exp]
  <2>1. row \in Row
    BY RowUpdates DEF TypeOK
  <2>2. row.state = db[k].state
    BY DEF TypeOK, Row
  <2>3. Commit(k, row) /\ row.state # "unissued"
    BY <1>2, <2>2 DEF Update, Commit
  <2> HIDE DEF row
  <2>4. AdminCommit(a, k, row)
    BY <1>2, <2>3 DEF Update, AdminCommit
  <2>5. QED
    BY <2>1, <2>4
<1>3. ASSUME Delete(a, k)
      PROVE  \E row \in Row : AdminCommit(a, k, row)
  <2> DEFINE row == [db[k] EXCEPT !.state = "deleted"]
  <2>1. row \in Row
    BY RowUpdates DEF TypeOK
  <2>2. row.state = "deleted"
    BY DEF TypeOK, Row
  <2>3. Commit(k, row) /\ row.state # "unissued"
    BY <1>3, <2>2 DEF Delete, Commit
  <2> HIDE DEF row
  <2>4. AdminCommit(a, k, row)
    BY <1>3, <2>3 DEF Delete, AdminCommit
  <2>5. QED
    BY <2>1, <2>4
<1>4. QED
  BY <1>1, <1>2, <1>3

\* What a step does to the clock and the table.
LEMMA TableSteps ==
  ASSUME TypeOK, [Next]_vars
  PROVE  \/ UNCHANGED <<now, db, since>>
         \/ Tick
         \/ \E k \in Keys, exp \in Deadlines \cup {NoExpiry} : Issue(k, exp)
         \/ \E a \in Admins, k \in Keys, row \in Row : AdminCommit(a, k, row)
<1>1. CASE UNCHANGED vars
  BY <1>1 DEF vars
<1>2. CASE \E v \in Verifiers, k \in Keys, plain \in Secrets :
             VerifyStart(v, k, plain)
  BY <1>2 DEF VerifyStart
<1>3. CASE \E c \in calls : VerifyHit(c) \/ VerifyMiss(c) \/ VerifySelect(c)
  BY <1>3 DEF VerifyHit, VerifyMiss, VerifySelect
<1>4. CASE \E f \in fills : VerifySet(f) \/ VerifySetFails(f)
  BY <1>4 DEF VerifySet, VerifySetFails
<1>5. CASE \E v \in Verifiers : VerifyAbort(v)
  BY <1>5 DEF VerifyAbort
<1>6. CASE \E j \in jobs :
             InvalidateLookup(j) \/ InvalidateDel(j) \/ InvalidateFails(j)
  BY <1>6 DEF InvalidateLookup, InvalidateDel, InvalidateFails
<1>7. CASE \E e \in cache : Evict(e)
  BY <1>7 DEF Evict
<1>8. CASE \E a \in Admins, k \in Keys :
              \/ \E active \in BOOLEAN : SetActive(a, k, active)
              \/ \E exp \in Deadlines \cup {NoExpiry} : Update(a, k, exp)
              \/ Delete(a, k)
  BY <1>8, AdminSteps
<1>9. QED
  BY <1>1, <1>2, <1>3, <1>4, <1>5, <1>6, <1>7, <1>8 DEF Next

\* What a commit does to the row and its history.
LEMMA CommitEffect ==
  ASSUME TypeOK, NEW k \in Keys, NEW row \in Row, Commit(k, row)
  PROVE  /\ db[k].state = "live"
         /\ db'[k].ver = db[k].ver + 1 /\ db'[k].state = row.state
         /\ since'[k][db[k].ver + 1] = now
         /\ \A n \in Versions : n # db[k].ver + 1 => since'[k][n] = since[k][n]
         /\ \A h \in Keys : h # k => db'[h] = db[h] /\ since'[h] = since[h]
<1>1. db[k].ver + 1 \in Versions
  BY CommitType
<1>2. db'[k] = [row EXCEPT !.ver = db[k].ver + 1]
  BY DEF TypeOK, Commit
<1>3. db'[k].ver = db[k].ver + 1 /\ db'[k].state = row.state
  BY <1>2 DEF Row
<1>4. QED
  BY <1>1, <1>3 DEF TypeOK, Commit

LEMMA RowsStep ==
  ASSUME TypeOK, RowsInv, [Next]_vars
  PROVE  RowsInv'
<1> USE ConstantsAssumption
<1>1. CASE UNCHANGED <<now, db, since>>
  BY <1>1 DEF RowsInv
<1>2. CASE Tick
  BY <1>2 DEF Tick, RowsInv, TypeOK, Row, Versions
<1>3. ASSUME NEW k \in Keys, NEW exp \in Deadlines \cup {NoExpiry}, Issue(k, exp)
      PROVE  RowsInv'
  <2>1. db[k].ver = 0 /\ db'[k].ver = 0 /\ db'[k].state = "live"
    BY <1>3 DEF Issue, RowsInv, TypeOK
  <2>2. since'[k][0] = now /\ now' = now
    BY <1>3 DEF Issue, TypeOK, Versions
  <2>3. \A h \in Keys : h # k => db'[h] = db[h] /\ since'[h] = since[h]
    BY <1>3 DEF Issue, TypeOK
  <2>4. \A m, n \in Versions :
          m <= n /\ n <= db'[k].ver => since'[k][m] <= since'[k][n]
    BY <2>1, <2>2 DEF TypeOK, Versions
  <2>5. QED
    BY <2>1, <2>2, <2>3, <2>4 DEF RowsInv, TypeOK
<1>4. ASSUME NEW a \in Admins, NEW k \in Keys, NEW row \in Row,
             AdminCommit(a, k, row)
      PROVE  RowsInv'
  <2>1. /\ db[k].state = "live"
        /\ db'[k].ver = db[k].ver + 1 /\ db'[k].state = row.state
        /\ since'[k][db[k].ver + 1] = now
        /\ \A n \in Versions : n # db[k].ver + 1 => since'[k][n] = since[k][n]
        /\ \A h \in Keys : h # k => db'[h] = db[h] /\ since'[h] = since[h]
    BY <1>4, CommitEffect DEF AdminCommit
  <2>2. now' = now /\ row.state # "unissued"
    BY <1>4 DEF AdminCommit
  <2>3. ASSUME NEW m \in Versions, NEW n \in Versions,
               m <= n, n <= db[k].ver + 1
        PROVE  since'[k][m] <= since'[k][n]
    <3>1. db[k].ver \in Versions /\ db[k].ver \in Nat /\ m \in Nat /\ n \in Nat
      BY DEF TypeOK, Row, Versions
    <3>2. since[k][db[k].ver] <= now
      BY DEF RowsInv
    <3>3. CASE n = db[k].ver + 1 /\ m = n
      BY <2>1, <3>3 DEF TypeOK
    <3>4. CASE n = db[k].ver + 1 /\ m # n
      <4>1. since[k][m] <= since[k][db[k].ver]
        BY <3>1, <3>4, <2>3 DEF RowsInv
      <4>2. since'[k][m] = since[k][m] /\ since'[k][n] = now
        BY <2>1, <3>4
      <4>3. QED
        BY <3>1, <3>2, <4>1, <4>2 DEF TypeOK
    <3>5. CASE n # db[k].ver + 1
      BY <2>1, <2>3, <3>1, <3>5 DEF RowsInv
    <3>6. QED
      BY <3>3, <3>4, <3>5
  <2>4. QED
    BY <2>1, <2>2, <2>3 DEF RowsInv, TypeOK
<1>5. QED
  BY <1>1, <1>2, <1>3, <1>4, TableSteps

-----------------------------------------------------------------------------
\* e is the entry o, or o with its history marked.
SameEntry(e, o) ==
  /\ e.key = o.key /\ e.plain = o.plain /\ e.row = o.row
  /\ e.expires = o.expires /\ e.readAt = o.readAt

\* Where the entries in Redis and the rows held by Verify calls come from.
LEMMA Provenance ==
  ASSUME TypeOK, [Next]_vars
  PROVE  /\ \A e \in cache' :
              \/ \E o \in cache : SameEntry(e, o)
              \/ /\ UNCHANGED <<now, db, since>>
                 /\ \E f \in fills :
                      /\ e.key = f.key /\ e.plain = f.plain /\ e.row = f.row
                      /\ e.readAt = f.readAt /\ e.expires = SetExpiry
         /\ \A f \in fills' :
              \/ f \in fills
              \/ /\ UNCHANGED <<now, db, since>>
                 /\ f.plain = "issued" /\ f.row = db[f.key]
                 /\ f.row.state = "live" /\ f.readAt = now
<1>1. CASE UNCHANGED vars
  BY <1>1 DEF vars, SameEntry
<1>2. CASE \E v \in Verifiers, k \in Keys, plain \in Secrets :
             VerifyStart(v, k, plain)
  BY <1>2 DEF VerifyStart, SameEntry
<1>3. ASSUME NEW c \in calls, VerifyHit(c) \/ VerifyMiss(c) \/ VerifySelect(c)
      PROVE  /\ cache' = cache
             /\ \A f \in fills' :
                  \/ f \in fills
                  \/ /\ UNCHANGED <<now, db, since>>
                     /\ f.plain = "issued" /\ f.row = db[f.key]
                     /\ f.row.state = "live" /\ f.readAt = now
  BY <1>3 DEF VerifyHit, VerifyMiss, VerifySelect
<1>4. ASSUME NEW f \in fills, VerifySet(f) \/ VerifySetFails(f)
      PROVE  /\ fills' \subseteq fills
             /\ \A e \in cache' :
                  \/ e \in cache
                  \/ /\ UNCHANGED <<now, db, since>>
                     /\ e.key = f.key /\ e.plain = f.plain /\ e.row = f.row
                     /\ e.readAt = f.readAt /\ e.expires = SetExpiry
  BY <1>4 DEF VerifySet, VerifySetFails, Without
<1>5. CASE \E v \in Verifiers : VerifyAbort(v)
  BY <1>5 DEF VerifyAbort, SameEntry
<1>6. CASE \E k \in Keys, exp \in Deadlines \cup {NoExpiry} : Issue(k, exp)
  BY <1>6 DEF Issue, SameEntry
<1>7. CASE \E a \in Admins, k \in Keys :
              \/ \E active \in BOOLEAN : SetActive(a, k, active)
              \/ \E exp \in Deadlines \cup {NoExpiry} : Update(a, k, exp)
              \/ Delete(a, k)
  BY <1>7 DEF SetActive, Update, Delete, SameEntry
<1>8. ASSUME NEW j \in jobs,
             InvalidateLookup(j) \/ InvalidateDel(j) \/ InvalidateFails(j)
      PROVE  fills' = fills /\ \A e \in cache' : \E o \in cache : SameEntry(e, o)
  <2>1. \A m \in MarkMissed(j.key) : \E o \in cache : SameEntry(m, o)
    BY MarkMissedType DEF TypeOK, SameEntry
  <2>2. fills' = fills /\ (cache' \subseteq cache \/ cache' = MarkMissed(j.key))
    BY <1>8 DEF InvalidateLookup, InvalidateDel, InvalidateFails, Without
  <2>3. QED
    BY <2>1, <2>2 DEF SameEntry
<1>9. CASE \E e \in cache : Evict(e)
  BY <1>9 DEF Evict, SameEntry
<1>10. CASE Tick
  BY <1>10 DEF Tick, SameEntry
<1>11. CASE \E c \in calls : VerifyHit(c) \/ VerifyMiss(c) \/ VerifySelect(c)
  BY <1>3, <1>11 DEF SameEntry
<1>12. CASE \E f \in fills : VerifySet(f) \/ VerifySetFails(f)
  BY <1>4, <1>12 DEF SameEntry
<1>13. CASE \E j \in jobs :
              InvalidateLookup(j) \/ InvalidateDel(j) \/ InvalidateFails(j)
  BY <1>8, <1>13
<1>14. QED
  BY <1>1, <1>2, <1>5, <1>6, <1>7, <1>9, <1>10, <1>11, <1>12, <1>13 DEF Next

\* A row that was current when it was read stays one that was.
LEMMA StillCurrent ==
  ASSUME TypeOK, RowsInv, [Next]_vars, NEW x, x.key \in Keys, x.row \in Row,
         x.readAt \in Nat, WasCurrent(x)
  PROVE  WasCurrent(x)'
<1> USE ConstantsAssumption
<1>1. CASE UNCHANGED <<now, db, since>>
  BY <1>1 DEF WasCurrent
<1>2. CASE Tick
  BY <1>2 DEF Tick, WasCurrent, TypeOK
<1>3. ASSUME NEW k \in Keys, NEW exp \in Deadlines \cup {NoExpiry}, Issue(k, exp)
      PROVE  WasCurrent(x)'
  <2>1. x.key # k
    BY <1>3 DEF Issue, WasCurrent, RowsInv, TypeOK, Row, Versions
  <2>2. db'[x.key] = db[x.key] /\ since'[x.key] = since[x.key] /\ now' = now
    BY <1>3, <2>1 DEF Issue, TypeOK
  <2>3. QED
    BY <2>2 DEF WasCurrent
<1>4. ASSUME NEW a \in Admins, NEW k \in Keys, NEW row \in Row,
             AdminCommit(a, k, row)
      PROVE  WasCurrent(x)'
  <2>1. /\ db'[k].ver = db[k].ver + 1
        /\ since'[k][db[k].ver + 1] = now
        /\ \A n \in Versions : n # db[k].ver + 1 => since'[k][n] = since[k][n]
        /\ \A h \in Keys : h # k => db'[h] = db[h] /\ since'[h] = since[h]
    BY <1>4, CommitEffect DEF AdminCommit
  <2>2. now' = now
    BY <1>4 DEF AdminCommit
  <2>3. CASE x.key # k
    BY <2>1, <2>2, <2>3 DEF WasCurrent
  <2>4. CASE x.key = k
    <3>1. x.row.ver \in Nat /\ db[k].ver \in Nat /\ db[k].ver <= MaxVer
      BY DEF TypeOK, Row, Versions
    <3>2. CASE x.row.ver = db[k].ver
      BY <2>1, <2>2, <2>4, <3>1, <3>2 DEF WasCurrent
    <3>3. CASE x.row.ver < db[k].ver
      <4>1. x.row.ver + 1 \in Versions /\ x.row.ver + 1 # db[k].ver + 1
        BY <3>1, <3>3 DEF Versions
      <4>2. QED
        BY <2>1, <2>2, <2>4, <3>1, <3>3, <4>1 DEF WasCurrent
    <3>4. QED
      BY <2>4, <3>1, <3>2, <3>3 DEF WasCurrent
  <2>5. QED
    BY <2>3, <2>4
<1>5. QED
  BY <1>1, <1>2, <1>3, <1>4, TableSteps

LEMMA ReadsStep ==
  ASSUME TypeOK, RowsInv, ReadsInv, [Next]_vars
  PROVE  ReadsInv'
<1>1. ASSUME NEW e \in cache
      PROVE  WasCurrent(e)'
  <2>1. e.key \in Keys /\ e.row \in Row /\ e.readAt \in Nat /\ WasCurrent(e)
    BY DEF TypeOK, Entry, ReadsInv
  <2>2. QED
    BY <2>1, StillCurrent
<1>2. ASSUME NEW f \in fills
      PROVE  WasCurrent(f)'
  <2>1. f.key \in Keys /\ f.row \in Row /\ f.readAt \in Nat /\ WasCurrent(f)
    BY DEF TypeOK, ReadsInv
  <2>2. QED
    BY <2>1, StillCurrent
<1>3. ASSUME NEW e \in cache'
      PROVE  WasCurrent(e)'
  <2>1. CASE \E o \in cache : SameEntry(e, o)
    BY <1>1, <2>1 DEF SameEntry, WasCurrent
  <2>2. CASE \E f \in fills : /\ e.key = f.key /\ e.plain = f.plain
                              /\ e.row = f.row /\ e.readAt = f.readAt
    BY <1>2, <2>2 DEF WasCurrent
  <2>3. QED
    BY <2>1, <2>2, Provenance
<1>4. ASSUME NEW f \in fills', f \notin fills
      PROVE  WasCurrent(f)'
  <2>1. /\ UNCHANGED <<now, db, since>>
        /\ f.plain = "issued" /\ f.row = db[f.key]
        /\ f.row.state = "live" /\ f.readAt = now
    BY <1>4, Provenance
  <2>2. f.key \in Keys
    BY TypeStep DEF TypeOK
  <2>3. QED
    BY <2>1, <2>2 DEF WasCurrent, TypeOK, Row, Versions
<1>5. QED
  BY <1>2, <1>3, <1>4 DEF ReadsInv

LEMMA LifetimesStep ==
  ASSUME TypeOK, ReadsInv, LifetimesInv, [Next]_vars
  PROVE  LifetimesInv'
<1> USE ConstantsAssumption
<1>1. ASSUME NEW f \in fills'
      PROVE  now' <= f.readAt + MaxFill
  <2>1. CASE f \notin fills
    BY <2>1, Provenance DEF TypeOK
  <2>2. CASE f \in fills /\ now' = now
    BY <2>2 DEF LifetimesInv
  <2>3. CASE f \in fills /\ Tick
    BY <2>3 DEF Tick, TypeOK
  <2>4. now' = now \/ Tick
    BY TableSteps DEF Issue, AdminCommit
  <2>5. QED
    BY <2>1, <2>2, <2>3, <2>4
<1>2. ASSUME CacheTTL > 0, NEW e \in cache'
      PROVE  now' < e.expires /\ e.expires <= e.readAt + MaxFill + CacheTTL
  <2>1. CASE Tick
    <3>1. e \in cache /\ (e.expires = NoExpiry \/ now + 1 < e.expires)
          /\ now' = now + 1
      BY <2>1 DEF Tick
    <3>2. now < e.expires /\ e.expires <= e.readAt + MaxFill + CacheTTL
      BY <1>2, <3>1 DEF LifetimesInv
    <3>3. QED
      BY <3>1, <3>2 DEF TypeOK, NoExpiry
  <2>2. CASE now' = now /\ \E o \in cache : SameEntry(e, o)
    BY <1>2, <2>2 DEF LifetimesInv, SameEntry
  <2>3. CASE /\ now' = now
             /\ \E f \in fills : e.readAt = f.readAt /\ e.expires = SetExpiry
    <3>1. PICK f \in fills : e.readAt = f.readAt /\ e.expires = SetExpiry
      BY <2>3
    <3>2. now <= f.readAt + MaxFill /\ f.readAt \in Nat
      BY DEF LifetimesInv, TypeOK
    <3>3. e.expires = now + CacheTTL
      BY <1>2, <3>1 DEF SetExpiry
    <3>4. QED
      BY <1>2, <2>3, <3>1, <3>2, <3>3 DEF TypeOK
  <2>4. now' = now \/ Tick
    BY TableSteps DEF Issue, AdminCommit
  <2>5. QED
    BY <2>1, <2>2, <2>3, <2>4, Provenance
<1>3. QED
  BY <1>1, <1>2 DEF LifetimesInv

-----------------------------------------------------------------------------
\* What validateKey says of a row that is in the table.
LEMMA ValidateKeySound ==
  ASSUME NEW row \in Row, now \in Nat, row.state = "live"
  PROVE  validateKey(row) = "ok" <=> Accepted(row)
<1>1. row.exp \in Int /\ (row.exp = NoExpiry \/ row.exp \in Nat)
  <2>1. row.exp \in Deadlines \cup {NoExpiry}
    BY DEF Row
  <2>2. row.exp \in Nat \cup {NoExpiry}
    BY <2>1, ConstantsAssumption
  <2>3. NoExpiry \in Int
    BY DEF NoExpiry
  <2>4. QED
    BY <2>2, <2>3
<1>2. (row.exp # NoExpiry /\ row.exp < now) <=> ~(row.exp = NoExpiry \/ now <= row.exp)
  BY <1>1
<1>3. CASE row.active
  BY <1>2, <1>3 DEF validateKey, Accepted
<1>4. CASE ~row.active
  BY <1>4 DEF validateKey, Accepted
<1>5. QED
  BY <1>3, <1>4

\* A held row, given to the caller now, makes an honest verdict.
LEMMA HeldVerdict ==
  ASSUME TypeOK, RowsInv, NEW x, x.key \in Keys, x.row \in Row,
         x.readAt \in Nat, WasCurrent(x),
         CacheTTL > 0 => now <= x.readAt + MaxFill + CacheTTL
  PROVE  /\ x.row.ver <= db[x.key].ver
         /\ x.row.ver = db[x.key].ver => x.row = db[x.key]
         /\ validateKey(x.row) = "ok" => Accepted(x.row)
         /\ validateKey(x.row) # "ok" => ~Accepted(x.row)
         /\ CacheTTL > 0 /\ x.row.ver < db[x.key].ver =>
              now <= since[x.key][x.row.ver + 1] + CacheTTL + MaxFill
<1> USE ConstantsAssumption
<1>1. validateKey(x.row) = "ok" <=> Accepted(x.row)
  BY ValidateKeySound DEF WasCurrent, TypeOK
<1>2. ASSUME CacheTTL > 0, x.row.ver < db[x.key].ver
      PROVE  now <= since[x.key][x.row.ver + 1] + CacheTTL + MaxFill
  <2>1. x.readAt <= since[x.key][x.row.ver + 1]
    BY <1>2 DEF WasCurrent
  <2>2. x.row.ver + 1 \in Versions
    <3>1. x.row.ver \in Versions /\ db[x.key].ver \in Versions
      BY DEF TypeOK, Row
    <3>2. QED
      BY <1>2, <3>1 DEF Versions
  <2>3. since[x.key][x.row.ver + 1] \in Nat
    BY <2>2 DEF TypeOK
  <2>4. QED
    BY <1>2, <2>1, <2>3 DEF TypeOK
<1>3. QED
  BY <1>1, <1>2 DEF WasCurrent

LEMMA VerdictsStep ==
  ASSUME TypeOK, RowsInv, ReadsInv, LifetimesInv, VerdictsInv, [Next]_vars
  PROVE  VerdictsInv'
<1> USE ConstantsAssumption
<1>1. CASE returned' = {}
  BY <1>1 DEF VerdictsInv
<1>2. CASE UNCHANGED vars
  BY <1>2 DEF VerdictsInv, vars, Accepted
<1>3. ASSUME NEW c \in calls, VerifyHit(c)
      PROVE  VerdictsInv'
  <2>1. PICK e \in cache : /\ e.key = c.key /\ e.plain = c.plain
                           /\ Return(c, e.row, validateKey(e.row))
    BY <1>3 DEF VerifyHit
  <2>2. e.key \in Keys /\ e.row \in Row /\ e.readAt \in Nat /\ WasCurrent(e)
        /\ e.expires \in Int
    BY DEF TypeOK, Entry, ReadsInv, NoExpiry
  <2>3. CacheTTL > 0 => now <= e.readAt + MaxFill + CacheTTL
    BY <2>2 DEF LifetimesInv, TypeOK
  <2>4. UNCHANGED <<now, db, since>> /\ c.plain = "issued"
    BY <1>3, <2>1, <2>2 DEF VerifyHit, WasCurrent
  <2>5. /\ e.row.ver <= db[e.key].ver
        /\ e.row.ver = db[e.key].ver => e.row = db[e.key]
        /\ validateKey(e.row) = "ok" => Accepted(e.row)
        /\ validateKey(e.row) # "ok" => ~Accepted(e.row)
        /\ CacheTTL > 0 /\ e.row.ver < db[e.key].ver =>
             now <= since[e.key][e.row.ver + 1] + CacheTTL + MaxFill
    BY <2>2, <2>3, HeldVerdict
  <2>6. QED
    BY <2>1, <2>4, <2>5 DEF VerdictsInv, Return, Accepted
<1>4. ASSUME NEW f \in fills, VerifySet(f) \/ VerifySetFails(f)
      PROVE  VerdictsInv'
  <2>1. f.key \in Keys /\ f.row \in Row /\ f.readAt \in Nat /\ WasCurrent(f)
    BY DEF TypeOK, ReadsInv
  <2>2. CacheTTL > 0 => now <= f.readAt + MaxFill + CacheTTL
    BY <2>1 DEF LifetimesInv, TypeOK
  <2>3. /\ f.row.ver <= db[f.key].ver
        /\ f.row.ver = db[f.key].ver => f.row = db[f.key]
        /\ validateKey(f.row) = "ok" => Accepted(f.row)
        /\ validateKey(f.row) # "ok" => ~Accepted(f.row)
        /\ CacheTTL > 0 /\ f.row.ver < db[f.key].ver =>
             now <= since[f.key][f.row.ver + 1] + CacheTTL + MaxFill
    BY <2>1, <2>2, HeldVerdict
  <2>4. UNCHANGED <<now, db, since>> /\ f.plain = "issued"
        /\ Return(f, f.row, validateKey(f.row))
    BY <1>4, <2>1 DEF VerifySet, VerifySetFails, WasCurrent
  <2>5. QED
    BY <2>3, <2>4 DEF VerdictsInv, Return, Accepted
<1>5. ASSUME NEW c \in calls, VerifySelect(c)
      PROVE  VerdictsInv'
  <2>1. UNCHANGED <<now, db, since>>
    BY <1>5 DEF VerifySelect
  <2>2. CASE db[c.key].state # "live" /\ Return(c, db[c.key], "ErrNotFound")
    BY <2>1, <2>2 DEF VerdictsInv, Return, Accepted, TypeOK, Row, Versions
  <2>3. CASE c.plain # "issued" /\ Return(c, db[c.key], "ErrInvalid")
    BY <2>1, <2>3 DEF VerdictsInv, Return, Accepted, TypeOK, Row, Versions
  <2>4. QED
    BY <1>1, <1>5, <2>2, <2>3 DEF VerifySelect
<1>6. \/ returned' = {}
      \/ UNCHANGED vars
      \/ \E c \in calls : VerifyHit(c) \/ VerifySelect(c)
      \/ \E f \in fills : VerifySet(f) \/ VerifySetFails(f)
  BY DEF Next, VerifyStart, VerifyMiss, VerifyAbort, Issue, SetActive, Update,
         Delete, InvalidateLookup, InvalidateDel, InvalidateFails, Evict, Tick
<1>7. QED
  BY <1>1, <1>2, <1>3, <1>4, <1>5, <1>6

LEMMA InitIInv == Init => IInv
<1> USE ConstantsAssumption
<1> SUFFICES ASSUME Init PROVE IInv
  OBVIOUS
<1>1. TypeOK
  BY DEF Init, TypeOK, Row, Versions
<1>2. RowsInv
  BY DEF Init, RowsInv, Versions
<1>3. QED
  BY <1>1, <1>2 DEF Init, IInv, ReadsInv, LifetimesInv, VerdictsInv

LEMMA NextIInv == IInv /\ [Next]_vars => IInv'
  BY TypeStep, RowsStep, ReadsStep, LifetimesStep, VerdictsStep DEF IInv

(***************************************************************************)
(* The inductive invariant holds of every behaviour of the verify cache,   *)
(* whatever the TTL.                                                       *)
(***************************************************************************)
THEOREM Invariance == Spec => []IInv
  BY InitIInv, NextIInv, PTL DEF Spec

(***************************************************************************)
(* Redis never holds two entries for one prefix, and the state keeps its   *)
(* shape.                                                                  *)
(***************************************************************************)
THEOREM TypeCorrect == Spec => []TypeOK
  BY Invariance, PTL DEF IInv

(***************************************************************************)
(* With a positive VERIFY_CACHE_TTL no verdict rests on a row that was     *)
(* replaced more than CacheTTL + MaxFill ago.                              *)
(***************************************************************************)
THEOREM StalenessBounded == CacheTTL > 0 => (Spec => []BoundedStaleness)
<1> SUFFICES ASSUME CacheTTL > 0 PROVE Spec => []BoundedStaleness
  OBVIOUS
<1>1. IInv => BoundedStaleness
  BY DEF IInv, VerdictsInv, BoundedStaleness
<1>2. QED
  BY <1>1, Invariance, PTL

(***************************************************************************)
(* Verify accepts no secret but the issued one, for any TTL.               *)
(***************************************************************************)
THEOREM OnlyIssuedSecret == Spec => []IssuedSecretOnly
<1>1. IInv => IssuedSecretOnly
  BY DEF IInv, VerdictsInv, IssuedSecretOnly, Accepted
<1>2. QED
  BY <1>1, Invariance, PTL

(***************************************************************************)
(* With a positive TTL, a row left alone for CacheTTL + MaxFill is judged  *)
(* exactly as the table has it.                                            *)
(***************************************************************************)
THEOREM VerdictSettles == CacheTTL > 0 => (Spec => []SettledVerdict)
<1> SUFFICES ASSUME CacheTTL > 0 PROVE Spec => []SettledVerdict
  OBVIOUS
<1>1. ASSUME IInv, NEW r \in returned, r.plain = "issued",
             now > since[r.key][db[r.key].ver] + CacheTTL + MaxFill
      PROVE  r.res = "ok" <=> Accepted(db[r.key])
  <2>1. r.key \in Keys /\ r.row.ver \in Nat /\ db[r.key].ver \in Versions
    BY <1>1 DEF IInv, TypeOK, Row, Versions
  <2>2. CASE r.row.ver = db[r.key].ver
    BY <1>1, <2>2 DEF IInv, VerdictsInv
  <2>3. CASE r.row.ver < db[r.key].ver
    <3>1. now <= since[r.key][r.row.ver + 1] + CacheTTL + MaxFill
      BY <1>1, <2>3 DEF IInv, VerdictsInv
    <3>2. r.row.ver + 1 \in Versions /\ r.row.ver + 1 <= db[r.key].ver
          /\ db[r.key].ver <= db[r.key].ver
      BY <2>1, <2>3, ConstantsAssumption DEF Versions
    <3>3. since[r.key][r.row.ver + 1] <= since[r.key][db[r.key].ver]
      BY <1>1, <2>1, <3>2 DEF IInv, RowsInv
    <3>4. QED
      BY <1>1, <2>1, <3>1, <3>2, <3>3, ConstantsAssumption DEF IInv, TypeOK
  <2>4. r.row.ver <= db[r.key].ver
    BY <1>1 DEF IInv, VerdictsInv
  <2>5. QED
    BY <2>1, <2>2, <2>3, <2>4, ConstantsAssumption DEF Versions
<1>2. IInv => SettledVerdict
  BY <1>1 DEF SettledVerdict, Accepted
<1>3. QED
  BY <1>2, Invariance, PTL

-----------------------------------------------------------------------------
(***************************************************************************)
(* A stale entry in Redis always has one of the three named causes, for    *)
(* any TTL and any number of concurrent Verify and admin calls.            *)
(***************************************************************************)
THEOREM StaleEntriesExplained == Spec => []StaleEntryExplained
<1> USE ConstantsAssumption
<1>1. Init => StaleEntryExplained
  BY DEF Init, StaleEntryExplained
<1>2. ASSUME IInv, StaleEntryExplained, [Next]_vars
      PROVE  StaleEntryExplained'
  <2> USE <1>2
  <2>1. CASE db' = db /\ cache' \subseteq cache /\ jobs \subseteq jobs'
    BY <2>1 DEF StaleEntryExplained
  <2>2. ASSUME NEW f \in fills, VerifySet(f)
        PROVE  StaleEntryExplained'
    <3>1. f.row.ver \in Nat /\ db[f.key].ver \in Nat
      BY DEF IInv, TypeOK, Row, Versions
    <3>2. \A e \in cache' :
             \/ e \in cache
             \/ /\ e.key = f.key /\ e.row = f.row
                /\ f.row.ver # db[f.key].ver => e.late
      <4> DEFINE new == [key |-> f.key, plain |-> f.plain, row |-> f.row,
                         expires |-> SetExpiry, readAt |-> f.readAt,
                         late |-> f.row.ver # db[f.key].ver, missed |-> FALSE]
      <4>1. cache' \subseteq cache \cup {new}
        BY <2>2 DEF VerifySet, Without
      <4>2. new.key = f.key /\ new.row = f.row
        OBVIOUS
      <4>3. f.row.ver # db[f.key].ver => new.late
        BY Zenon
      <4> HIDE DEF new
      <4>4. QED
        BY <4>1, <4>2, <4>3
    <3>3. db' = db /\ jobs' = jobs
      BY <2>2 DEF VerifySet
    <3>4. QED
      BY <3>1, <3>2, <3>3 DEF StaleEntryExplained
  <2>3. ASSUME NEW k \in Keys, NEW exp \in Deadlines \cup {NoExpiry},
               Issue(k, exp)
        PROVE  StaleEntryExplained'
    <3>1. db'[k].ver = db[k].ver /\ \A h \in Keys : h # k => db'[h] = db[h]
      BY <2>3 DEF Issue, IInv, TypeOK, RowsInv
    <3>2. \A e \in cache : e.key \in Keys
      BY DEF IInv, TypeOK, Entry
    <3>3. QED
      BY <2>3, <3>1, <3>2 DEF Issue, StaleEntryExplained
  <2>4. ASSUME NEW a \in Admins, NEW k \in Keys, NEW row \in Row,
               AdminCommit(a, k, row)
        PROVE  StaleEntryExplained'
    <3>1. cache' = cache /\ jobs \subseteq jobs' /\ \E j \in jobs' : j.key = k
      <4> DEFINE job == [admin |-> a, key |-> k, pc |-> "lookup"]
      <4>1. cache' = cache /\ jobs' = jobs \cup {job} /\ job.key = k
        BY <2>4 DEF AdminCommit, StartInvalidation
      <4> HIDE DEF job
      <4>2. QED
        BY <4>1
    <3>2. \A h \in Keys : h # k => db'[h] = db[h]
      BY <2>4, CommitEffect DEF AdminCommit, IInv
    <3>3. \A e \in cache : e.key \in Keys
      BY DEF IInv, TypeOK, Entry
    <3>4. QED
      BY <3>1, <3>2, <3>3 DEF StaleEntryExplained
  <2>5. ASSUME NEW j \in jobs, j.pc = "lookup", cache' = cache, db' = db,
               jobs' = (jobs \ {j}) \cup {[j EXCEPT !.pc = "del"]}
        PROVE  StaleEntryExplained'
    <3>1. [j EXCEPT !.pc = "del"].key = j.key
      BY DEF IInv, TypeOK
    <3>2. \A i \in jobs : \E h \in jobs' : h.key = i.key
      BY <2>5, <3>1
    <3>3. QED
      BY <2>5, <3>2 DEF StaleEntryExplained
  <2>6. ASSUME NEW j \in jobs, jobs' = jobs \ {j}, db' = db,
               cache' = MarkMissed(j.key)
        PROVE  StaleEntryExplained'
    <3>1. \A m \in cache' : \E e \in cache :
             /\ m.key = e.key /\ m.row = e.row /\ m.late = e.late
             /\ m.key = j.key => m.missed
             /\ m.key # j.key => m = e
      BY <2>6, MarkMissedType DEF IInv, TypeOK
    <3>2. QED
      BY <2>6, <3>1 DEF StaleEntryExplained
  <2>7. ASSUME NEW j \in jobs, InvalidateDel(j)
        PROVE  StaleEntryExplained'
    BY <2>7 DEF InvalidateDel, Without, StaleEntryExplained
  <2>8. CASE Tick
    BY <2>1, <2>8 DEF Tick
  <2>9. CASE \E j \in jobs : InvalidateLookup(j) \/ InvalidateFails(j)
    BY <2>5, <2>6, <2>9 DEF InvalidateLookup, InvalidateFails
  <2>10. CASE UNCHANGED vars
    BY <2>1, <2>10 DEF vars
  <2>11. CASE \E v \in Verifiers, k \in Keys, plain \in Secrets :
                VerifyStart(v, k, plain)
    BY <2>1, <2>11 DEF VerifyStart
  <2>12. CASE \E c \in calls : VerifyHit(c) \/ VerifyMiss(c) \/ VerifySelect(c)
    BY <2>1, <2>12 DEF VerifyHit, VerifyMiss, VerifySelect
  <2>13. CASE \E f \in fills : VerifySetFails(f)
    BY <2>1, <2>13 DEF VerifySetFails
  <2>14. CASE \E v \in Verifiers : VerifyAbort(v)
    BY <2>1, <2>14 DEF VerifyAbort
  <2>15. CASE \E e \in cache : Evict(e)
    BY <2>1, <2>15 DEF Evict
  <2>16. CASE \E a \in Admins, k \in Keys :
                \/ \E active \in BOOLEAN : SetActive(a, k, active)
                \/ \E exp \in Deadlines \cup {NoExpiry} : Update(a, k, exp)
                \/ Delete(a, k)
    BY <2>4, <2>16, AdminSteps DEF IInv
  <2>17. QED
    BY <2>2, <2>3, <2>7, <2>8, <2>9, <2>10, <2>11, <2>12, <2>13, <2>14, <2>15,
       <2>16 DEF Next
<1>3. QED
  BY <1>1, <1>2, Invariance, PTL DEF Spec
=============================================================================
