-------------------------- MODULE QuotaTotalsProofs --------------------------
(***************************************************************************)
(* Proofs about QuotaTotals, for any number of goroutines and requests,    *)
(* any usage, any quotas and any rounding.  Usage on its way from the      *)
(* table to Redis is counted unit by unit: a unit is a pair of a goroutine *)
(* and a number, so that the sum over all goroutines is the cardinality of *)
(* a set.                                                                  *)
(***************************************************************************)
EXTENDS QuotaTotals, FiniteSetTheorems, TLAPS

-----------------------------------------------------------------------------
(* Counting                                                                *)

LEMMA IntervalSize ==
  ASSUME NEW n \in Nat
  PROVE  IsFiniteSet(1 .. n) /\ Cardinality(1 .. n) = n
<1>1. 1 \in Int /\ n \in Int
  OBVIOUS
<1>2. /\ IsFiniteSet(1 .. n)
      /\ Cardinality(1 .. n) = IF 1 > n THEN 0 ELSE n - 1 + 1
  BY <1>1, FS_Interval, Zenon
<1>3. QED
  BY <1>2

\* n units of one goroutine.
LEMMA UnitsSize ==
  ASSUME NEW s, NEW n \in Nat
  PROVE  IsFiniteSet({s} \X (1 .. n)) /\ Cardinality({s} \X (1 .. n)) = n
<1>1. IsFiniteSet({s}) /\ Cardinality({s}) = 1
  BY FS_Singleton
<1>2. IsFiniteSet(1 .. n) /\ Cardinality(1 .. n) = n
  BY IntervalSize
<1>3. /\ IsFiniteSet({s} \X (1 .. n))
      /\ Cardinality({s} \X (1 .. n)) = Cardinality({s}) * Cardinality(1 .. n)
  BY <1>1, <1>2, FS_Product, Zenon
<1>4. QED
  BY <1>1, <1>2, <1>3

LEMMA AddUnits ==
  ASSUME NEW P, IsFiniteSet(P), NEW U, IsFiniteSet(U), P \cap U = {}
  PROVE  /\ IsFiniteSet(P \cup U)
         /\ Cardinality(P \cup U) = Cardinality(P) + Cardinality(U)
<1>1. /\ IsFiniteSet(P \cup U)
      /\ Cardinality(P \cup U) = Cardinality(P) + Cardinality(U) - Cardinality(P \cap U)
  BY FS_Union, Zenon
<1>2. Cardinality(P \cap U) = 0
  BY FS_EmptySet
<1>3. Cardinality(P) \in Nat /\ Cardinality(U) \in Nat
  BY FS_CardinalityType
<1>4. QED
  BY <1>1, <1>2, <1>3

LEMMA RemoveUnits ==
  ASSUME NEW P, IsFiniteSet(P), NEW U, U \subseteq P
  PROVE  /\ IsFiniteSet(P \ U)
         /\ Cardinality(P \ U) = Cardinality(P) - Cardinality(U)
<1>1. /\ IsFiniteSet(P \ U)
      /\ Cardinality(P \ U) = Cardinality(P) - Cardinality(P \cap U)
  BY FS_Difference, Zenon
<1>2. P \cap U = U
  OBVIOUS
<1>3. QED
  BY <1>1, <1>2

LEMMA BoundUnits ==
  ASSUME NEW B, IsFiniteSet(B), NEW M \in Nat, NEW P, P \subseteq B \X (1 .. M)
  PROVE  Cardinality(P) <= Cardinality(B) * M
<1>1. IsFiniteSet(1 .. M) /\ Cardinality(1 .. M) = M
  BY IntervalSize
<1>2. /\ IsFiniteSet(B \X (1 .. M))
      /\ Cardinality(B \X (1 .. M)) = Cardinality(B) * Cardinality(1 .. M)
  BY <1>1, FS_Product, Zenon
<1>3. Cardinality(P) <= Cardinality(B \X (1 .. M))
  BY <1>2, FS_Subset
<1>4. QED
  BY <1>1, <1>2, <1>3

LEMMA Times ==
  ASSUME NEW a \in Nat, NEW b \in Nat, NEW M \in Nat
  PROVE  /\ a * M \in Nat /\ (a + b) * M = a * M + b * M
         /\ a <= b => a * M <= b * M
<1>1. /\ a * M \in Nat /\ (a + b) * M = a * M + b * M
  BY Z3
<1>2. a <= b => a * M <= b * M
  BY Z3
<1>3. QED
  BY <1>1, <1>2

\* Tickets: a total and M for each member of A stay below q.
LEMMA Keep ==
  ASSUME NEW A, IsFiniteSet(A), NEW A2 \in SUBSET A, NEW M \in Nat,
         NEW x \in Nat, NEW y \in Nat, NEW q \in Int,
         x + Cardinality(A) * M <= q, y <= x
  PROVE  y + Cardinality(A2) * M <= q
<1>1. /\ Cardinality(A) \in Nat /\ Cardinality(A2) \in Nat
      /\ Cardinality(A2) <= Cardinality(A)
  BY FS_Subset, FS_CardinalityType
<1>2. /\ Cardinality(A2) * M <= Cardinality(A) * M
      /\ Cardinality(A2) * M \in Nat /\ Cardinality(A) * M \in Nat
  BY <1>1, Times
<1>3. QED
  BY <1>2

\* A ticket is used.
LEMMA Spend ==
  ASSUME NEW A, IsFiniteSet(A), NEW s \in A, NEW M \in Nat,
         NEW x \in Nat, NEW y \in Nat, NEW q \in Int,
         x + Cardinality(A) * M <= q, y <= x + M
  PROVE  y + Cardinality(A \ {s}) * M <= q
<1>1. /\ Cardinality(A) \in Nat /\ Cardinality(A \ {s}) \in Nat
      /\ Cardinality(A) = Cardinality(A \ {s}) + 1
  <2>1. IsFiniteSet(A \ {s}) /\ Cardinality(A \ {s}) = Cardinality(A) - 1
    BY FS_RemoveElement
  <2>2. QED
    BY <2>1, FS_CardinalityType
<1>2. Cardinality(A) * M = Cardinality(A \ {s}) * M + 1 * M
  BY <1>1, Times
<1>3. Cardinality(A \ {s}) * M \in Nat
  BY <1>1, Times
<1>4. QED
  BY <1>2, <1>3

\* A ticket is given out while B others have used theirs.
LEMMA Grant ==
  ASSUME NEW S, IsFiniteSet(S), NEW A \in SUBSET S, NEW B \in SUBSET S, A \cap B = {},
         NEW M \in Nat, NEW x \in Nat, NEW q \in Int, x <= q + Cardinality(B) * M
  PROVE  x + Cardinality(A) * M <= q + Cardinality(S) * M
<1>1. IsFiniteSet(A) /\ IsFiniteSet(B)
  BY FS_Subset
<1>2. Cardinality(A \cup B) = Cardinality(A) + Cardinality(B)
  BY <1>1, AddUnits
<1>3. A \cup B \in SUBSET S
  OBVIOUS
<1>4. Cardinality(A \cup B) <= Cardinality(S)
  BY <1>3, FS_Subset
<1>5. Cardinality(A) \in Nat /\ Cardinality(B) \in Nat /\ Cardinality(S) \in Nat
  BY <1>1, FS_CardinalityType
<1> DEFINE a == Cardinality(A)
           b == Cardinality(B)
           n == Cardinality(S)
<1> HIDE DEF a, b, n
<1>6. a \in Nat /\ b \in Nat /\ n \in Nat /\ a + b \in Nat /\ a + b <= n
  BY <1>2, <1>4, <1>5 DEF a, b, n
<1>7. (a + b) * M = a * M + b * M /\ a * M \in Nat /\ b * M \in Nat
  BY <1>6, Times
<1>8. (a + b) * M <= n * M /\ n * M \in Nat
  BY <1>6, Times
<1>9. x <= q + b * M
  BY DEF b
<1>10. x + a * M <= q + n * M
  BY <1>7, <1>8, <1>9
<1>11. QED
  BY <1>10 DEF a, n

-----------------------------------------------------------------------------
(* The invariant                                                           *)

\* Where the usage of a request is in the table and not yet in the counter.
Stage(d) == IF d = "tok" THEN {"incTok"} ELSE {"incTok", "incCost"}
Units(s, d) == {s} \X (1 .. use[s][d])
Pending(d) == UNION {Units(s, d) : s \in {t \in Slots : pc[t] \in Stage(d)}}

PendingInv ==
  \A d \in Dims : IsFiniteSet(Pending(d)) /\ unapplied[d] = Cardinality(Pending(d))

\* A fill that no AddUsage has overlapped holds the present totals, and
\* nothing is on its way.
FillInv ==
  \A s \in Slots :
    alive /\ Filling(s) /\ overlap[s] = FALSE =>
      val[s] = db /\ \A t \in Slots : pc[t] \notin {"incTok", "incCost"}

SoundInv == sound = TRUE => alive = TRUE /\ drift = {}

\* A request that may still add to the total without another check, as far as
\* the token quota goes.
Holding == {"getCost", "setTok", "setCost", "decide", "upstream", "upsert"}
Tickets == {s \in Slots : pc[s] \in Holding /\ val[s]["tok"] < TokenQuota}

AdmitInv ==
  TokenQuota # NoQuota /\ sound = TRUE =>
    \A s \in Slots : pc[s] \in {"upstream", "upsert"} => s \in Tickets

TicketInv ==
  TokenQuota # NoQuota /\ sound = TRUE =>
    db["tok"] + Cardinality(Tickets) * MaxUse
      <= TokenQuota - 1 + Cardinality(Slots) * MaxUse

IInv ==
  /\ TypeOK /\ PendingInv /\ CounterTracksTable
  /\ FillInv /\ SoundInv /\ AdmitInv /\ TicketInv

-----------------------------------------------------------------------------
LEMMA Usage ==
  /\ MaxUse \in Nat /\ MaxUse > 0
  /\ \A u \in Usages \cup {Zero} : u["tok"] \in Nat /\ u["tok"] <= MaxUse
  /\ Usages \cup {Zero} \subseteq [Dims -> Nat] /\ Zero \in [Dims -> Nat]
<1>1. /\ Usages \cup {Zero} \subseteq [Dims -> Nat] /\ Zero \in [Dims -> Nat]
      /\ Zero["tok"] = 0
  BY QuotaAssumption DEF Zero, Dims
<1>2. PICK u \in Usages : u["tok"] > 0 /\ \A v \in Usages : v["tok"] <= u["tok"]
  BY QuotaAssumption
<1> DEFINE T == {v["tok"] : v \in Usages}
           IsMax(m) == \A v \in Usages : v["tok"] <= m
<1>3. u["tok"] \in T /\ IsMax(u["tok"])
  BY <1>2
<1>4. MaxUse \in T /\ IsMax(MaxUse)
  <2>1. MaxUse = CHOOSE m \in T : IsMax(m)
    BY DEF MaxUse
  <2> HIDE DEF T, IsMax
  <2>2. QED
    BY <1>3, <2>1
<1>5. \A v \in Usages : v["tok"] \in Nat
  BY <1>1 DEF Dims
<1>6. QED
  BY <1>1, <1>2, <1>4, <1>5

\* The set of units only depends on the requests in their stage.
LEMMA PendingFrame ==
  ASSUME PendingInv, UNCHANGED unapplied,
         \A t \in Slots : /\ pc'[t] \in {"incTok"} <=> pc[t] \in {"incTok"}
                          /\ pc'[t] \in {"incCost"} <=> pc[t] \in {"incCost"}
                          /\ pc[t] \in {"incTok", "incCost"} => use'[t] = use[t]
  PROVE  PendingInv'
<1>1. ASSUME NEW d \in Dims
      PROVE  Pending(d)' = Pending(d)
  <2> DEFINE T == {t \in Slots : pc[t] \in Stage(d)}
             T2 == {t \in Slots : pc'[t] \in Stage(d)}
  <2>1. T2 = T
    BY DEF Stage
  <2>2. \A t \in T : use'[t] = use[t]
    BY DEF Stage
  <2>3. \A t \in T : Units(t, d)' = Units(t, d)
    BY <2>2 DEF Units
  <2>4. Pending(d) = UNION {Units(t, d) : t \in T} /\ Pending(d)' = UNION {Units(t, d)' : t \in T2}
    BY DEF Pending, Units, Stage
  <2> HIDE DEF T, T2
  <2>5. QED
    BY <2>1, <2>3, <2>4
<1>2. QED
  BY <1>1 DEF PendingInv

\* The tickets shrink, and the total does not grow.
LEMMA TicketsKept ==
  ASSUME TypeOK, TicketInv, Tickets' \subseteq Tickets, db' \in [Dims -> Nat],
         db'["tok"] <= db["tok"], sound' = TRUE => sound = TRUE
  PROVE  TicketInv'
<1> SUFFICES ASSUME TokenQuota # NoQuota, sound' = TRUE
             PROVE  db'["tok"] + Cardinality(Tickets') * MaxUse
                      <= TokenQuota - 1 + Cardinality(Slots) * MaxUse
  BY DEF TicketInv, Tickets
<1>1. IsFiniteSet(Tickets)
  <2>1. Tickets \in SUBSET Slots
    BY DEF Tickets
  <2>2. QED
    BY <2>1, QuotaAssumption, FS_Subset
<1>2. db["tok"] \in Nat /\ db'["tok"] \in Nat
  BY DEF TypeOK, Dims
<1> DEFINE q == TokenQuota - 1 + Cardinality(Slots) * MaxUse
<1>3. q \in Int
  <2>1. Cardinality(Slots) \in Nat
    BY QuotaAssumption, FS_CardinalityType
  <2>2. Cardinality(Slots) * MaxUse \in Nat
    BY <2>1, Usage, Times
  <2>3. QED
    BY <2>2, QuotaAssumption DEF NoQuota
<1>4. db["tok"] + Cardinality(Tickets) * MaxUse <= q
  BY DEF TicketInv
<1> HIDE DEF q
<1>5. db'["tok"] + Cardinality(Tickets') * MaxUse <= q
  BY <1>1, <1>2, <1>3, <1>4, Keep, Usage
<1>6. QED
  BY <1>5 DEF q

\* A ticket is given out to a request that has read a total below the quota,
\* from the table or from a counter that lags by what is on its way.
LEMMA TicketGranted ==
  ASSUME TypeOK, PendingInv, TokenQuota # NoQuota,
         db["tok"] - unapplied["tok"] <= TokenQuota - 1,
         UNCHANGED db, \A t \in Slots : t \in Tickets' => pc[t] # "incTok"
  PROVE  TicketInv'
<1> DEFINE B == {t \in Slots : pc[t] = "incTok"}
<1>1. Tickets' \in SUBSET Slots /\ B \in SUBSET Slots /\ Tickets' \cap B = {}
  BY DEF Tickets
<1>2. IsFiniteSet(Slots) /\ IsFiniteSet(B)
  BY <1>1, QuotaAssumption, FS_Subset
<1>3. Pending("tok") \subseteq B \X (1 .. MaxUse)
  <2>1. \A t \in B : Units(t, "tok") \subseteq B \X (1 .. MaxUse)
    <3> SUFFICES ASSUME NEW t \in B
                 PROVE  Units(t, "tok") \subseteq B \X (1 .. MaxUse)
      OBVIOUS
    <3>1. use[t]["tok"] \in Nat /\ use[t]["tok"] <= MaxUse
      BY Usage DEF TypeOK
    <3>2. 1 .. use[t]["tok"] \subseteq 1 .. MaxUse
      BY <3>1, Usage
    <3>3. QED
      BY <3>2 DEF Units
  <2>2. Pending("tok") = UNION {Units(t, "tok") : t \in B}
    BY DEF Pending, Stage
  <2>3. QED
    BY <2>1, <2>2
<1> HIDE DEF B
<1>4. Cardinality(Pending("tok")) <= Cardinality(B) * MaxUse
  BY <1>2, <1>3, BoundUnits, Usage
<1>5. unapplied["tok"] = Cardinality(Pending("tok"))
  BY DEF PendingInv, Dims
<1>6. Cardinality(B) * MaxUse \in Nat /\ db["tok"] \in Nat /\ unapplied["tok"] \in Nat
  <2>1. Cardinality(B) \in Nat
    BY <1>2, FS_CardinalityType
  <2>2. QED
    BY <2>1, Usage, Times DEF TypeOK, Dims
<1>7. TokenQuota - 1 \in Int
  BY QuotaAssumption DEF NoQuota
<1>8. db["tok"] <= (TokenQuota - 1) + Cardinality(B) * MaxUse
  BY <1>4, <1>5, <1>6, <1>7
<1>9. db["tok"] + Cardinality(Tickets') * MaxUse
        <= (TokenQuota - 1) + Cardinality(Slots) * MaxUse
  BY <1>1, <1>2, <1>6, <1>7, <1>8, Grant, Usage
<1>10. QED
  BY <1>9 DEF TicketInv

-----------------------------------------------------------------------------
LEMMA InitIInv == Init => IInv
<1> SUFFICES ASSUME Init
             PROVE  IInv
  OBVIOUS
<1>1. TypeOK
  <2>1. db \in [Dims -> Nat] /\ unapplied \in [Dims -> Nat]
    BY Usage DEF Init
  <2>2. /\ val \in [Slots -> [Dims -> Nat]] /\ use \in [Slots -> Usages \cup {Zero}]
        /\ redis \in [Dims -> Nat \cup {Absent}] /\ pc \in [Slots -> Pcs]
        /\ resent \in [Slots -> Nat] /\ started \in Nat /\ adds \in Nat /\ drift \subseteq Dims
    BY Usage DEF Init, Pcs
  <2>3. /\ alive \in BOOLEAN /\ sound \in BOOLEAN /\ overrun \in BOOLEAN
        /\ overlap \in [Slots -> BOOLEAN] /\ quiet \in [Slots -> BOOLEAN]
    BY DEF Init
  <2>4. row \in BOOLEAN
    BY QuotaAssumption DEF Init
  <2>5. QED
    BY <2>1, <2>2, <2>3, <2>4 DEF TypeOK
<1>2. PendingInv
  <2>1. ASSUME NEW d \in Dims
        PROVE  Pending(d) = {}
    <3>1. {t \in Slots : pc[t] \in Stage(d)} = {}
      BY DEF Init, Stage
    <3>2. QED
      BY <3>1 DEF Pending
  <2>2. \A d \in Dims : unapplied[d] = 0
    BY DEF Init, Zero
  <2>3. QED
    BY <2>1, <2>2, FS_EmptySet DEF PendingInv
<1>3. CounterTracksTable
  BY DEF Init, CounterTracksTable
<1>4. FillInv /\ SoundInv /\ AdmitInv
  BY DEF Init, FillInv, SoundInv, AdmitInv, Filling
<1>5. TicketInv
  <2>1. Tickets = {}
    BY DEF Init, Tickets, Holding
  <2>2. Cardinality(Slots) \in Nat /\ Cardinality(Slots) # 0
    BY QuotaAssumption, FS_CardinalityType, FS_EmptySet
  <2>3. 1 <= Cardinality(Slots)
    BY <2>2
  <2>4. 1 * MaxUse <= Cardinality(Slots) * MaxUse /\ Cardinality(Slots) * MaxUse \in Nat
    BY <2>2, <2>3, Times, Usage
  <2>5. 0 * MaxUse = 0 /\ 1 * MaxUse = MaxUse
    BY Usage
  <2>6. Cardinality(Tickets) = 0
    BY <2>1, FS_EmptySet
  <2>7. db["tok"] = 0
    BY DEF Init, Zero, Dims
  <2>8. TokenQuota # NoQuota => TokenQuota \in Nat
    BY QuotaAssumption
  <2>9. QED
    BY <2>4, <2>5, <2>6, <2>7, <2>8, Usage DEF TicketInv
<1>6. QED
  BY <1>1, <1>2, <1>3, <1>4, <1>5 DEF IInv

-----------------------------------------------------------------------------
(* Types                                                                   *)

LEMMA GotoType ==
  ASSUME TypeOK, NEW s \in Slots, NEW l \in Pcs, Goto(s, l)
  PROVE  /\ pc' \in [Slots -> Pcs] /\ pc'[s] = l
         /\ \A t \in Slots \ {s} : pc'[t] = pc[t]
         /\ resent' \in [Slots -> Nat]
<1>1. pc \in [Slots -> Pcs] /\ resent \in [Slots -> Nat]
  BY DEF TypeOK
<1>2. pc' = [pc EXCEPT ![s] = l] /\ resent' = [resent EXCEPT ![s] = 0]
  BY DEF Goto
<1>3. resent' \in [Slots -> Nat]
  BY <1>1, <1>2
<1>4. QED
  BY <1>1, <1>2, <1>3

LEMMA CheckTypes ==
  ASSUME TypeOK, NEW s \in Slots,
         Begin(s) \/ GetTok(s) \/ GetCost(s) \/ Select(s) \/ SetTok(s) \/ SetCost(s) \/ Decide(s)
  PROVE  TypeOK'
<1> USE DEF TypeOK, Goto, ghosts
<1>0. resent' \in [Slots -> Nat] /\ adds' \in Nat
  <2>1. \/ resent' = [resent EXCEPT ![s] = 0]
        \/ resent' = [resent EXCEPT ![s] = resent[s] + 1]
    BY DEF Begin, GetTok, GetCost, Select, SetTok, SetCost, Decide, Resend
  <2>2. adds' = adds \/ adds' = 0
    BY DEF Begin, GetTok, GetCost, Select, SetTok, SetCost, Decide
  <2>3. QED
    BY <2>1, <2>2
<1>1. CASE Begin(s)
  <2>1. pc' \in [Slots -> Pcs] /\ started' \in Nat
    BY <1>1, QuotaAssumption DEF Begin, Pcs
  <2>2. quiet' \in [Slots -> BOOLEAN]
    BY <1>1 DEF Begin
  <2>3. UNCHANGED <<alive, row, db, redis, val, use, unapplied, overlap, drift, sound, overrun>>
    BY <1>1 DEF Begin
  <2>4. QED
    BY <1>0, <2>1, <2>2, <2>3
<1>2. CASE GetTok(s) \/ GetCost(s)
  <2>1. pc' \in [Slots -> Pcs]
    BY <1>2 DEF GetTok, GetCost, Pcs
  <2>2. val' \in [Slots -> [Dims -> Nat]]
    <3>1. \A d \in Dims : redis[d] # Absent => redis[d] \in Nat
      OBVIOUS
    <3>2. ASSUME NEW d \in Dims, redis[d] # Absent, Read(s, d, redis[d])
          PROVE  val' \in [Slots -> [Dims -> Nat]]
      BY <3>1, <3>2 DEF Read
    <3>3. QED
      BY <1>2, <3>2 DEF GetTok, GetCost, Dims
  <2>3. UNCHANGED <<alive, row, db, redis, use, started, unapplied, overlap, drift, sound,
                    quiet, overrun>>
    BY <1>2 DEF GetTok, GetCost
  <2>4. QED
    BY <1>0, <2>1, <2>2, <2>3
<1>3. CASE Select(s)
  <2>1. pc' \in [Slots -> Pcs] /\ val' \in [Slots -> [Dims -> Nat]]
    <3>1. pc' \in [Slots -> Pcs]
      BY <1>3 DEF Select, Pcs
    <3>2. val' = [val EXCEPT ![s] = db] \/ val' = val
      BY <1>3 DEF Select
    <3>3. QED
      BY <3>1, <3>2
  <2>2. overlap' \in [Slots -> BOOLEAN] /\ sound' \in BOOLEAN
    <3>1. overlap' = [overlap EXCEPT ![s] = Adding] \/ overlap' = overlap
      BY <1>3 DEF Select
    <3>2. Adding \in BOOLEAN
      BY DEF Adding
    <3>3. sound' = sound \/ sound' = FALSE
      BY <1>3 DEF Select
    <3>4. QED
      BY <3>1, <3>2, <3>3
  <2>3. UNCHANGED <<alive, row, db, redis, use, started, unapplied, drift, quiet, overrun>>
    BY <1>3 DEF Select
  <2>4. QED
    BY <1>0, <2>1, <2>2, <2>3
<1>4. CASE SetTok(s) \/ SetCost(s)
  <2>1. pc' \in [Slots -> Pcs]
    BY <1>4 DEF SetTok, SetCost, Pcs, Resend
  <2>2. redis' \in [Dims -> Nat \cup {Absent}]
    <3>1. val[s]["tok"] \in Nat /\ val[s]["cost"] \in Nat
      BY DEF Dims
    <3>2. \A c \in Nearest(val[s]["cost"], Grain) : c \in Nat
      BY <3>1, QuotaAssumption DEF Nearest
    <3>3. QED
      BY <1>4, <3>1, <3>2 DEF SetTok, SetCost
  <2>3. drift' \subseteq Dims /\ sound' \in BOOLEAN
    <3>1. ASSUME NEW d \in Dims, Refilled(s, d)
          PROVE  drift' \subseteq Dims /\ sound' \in BOOLEAN
      BY <3>1 DEF Refilled
    <3>2. QED
      BY <1>4, <3>1 DEF SetTok, SetCost, Dims
  <2>4. UNCHANGED <<alive, row, db, val, use, started, unapplied, overlap, quiet, overrun>>
    BY <1>4 DEF SetTok, SetCost
  <2>5. QED
    BY <1>0, <2>1, <2>2, <2>3, <2>4
<1>5. CASE Decide(s)
  <2>1. pc' \in [Slots -> Pcs]
    BY <1>5 DEF Decide, Pcs
  <2>2. overrun' \in BOOLEAN
    BY <1>5 DEF Decide
  <2>3. UNCHANGED <<alive, row, db, redis, val, use, started, unapplied, overlap, drift,
                    sound, quiet>>
    BY <1>5 DEF Decide
  <2>4. QED
    BY <1>0, <2>1, <2>2, <2>3
<1>6. QED
  BY <1>1, <1>2, <1>3, <1>4, <1>5

-----------------------------------------------------------------------------
(* Usage on its way                                                        *)

InStage(d) == {t \in Slots : pc[t] \in Stage(d)}

\* The units of one request, and those of the others.
LEMMA UnitsOf ==
  ASSUME TypeOK, NEW s \in Slots, NEW d \in Dims
  PROVE  /\ use[s][d] \in Nat
         /\ IsFiniteSet(Units(s, d)) /\ Cardinality(Units(s, d)) = use[s][d]
         /\ s \in InStage(d) => Units(s, d) \subseteq Pending(d)
         /\ s \notin InStage(d) => Pending(d) \cap Units(s, d) = {}
<1>1. use[s][d] \in Nat
  BY Usage DEF TypeOK
<1>2. IsFiniteSet(Units(s, d)) /\ Cardinality(Units(s, d)) = use[s][d]
  BY <1>1, UnitsSize DEF Units
<1>3. Pending(d) = UNION {Units(t, d) : t \in InStage(d)}
  BY DEF Pending, InStage
<1>4. s \in InStage(d) => Units(s, d) \subseteq Pending(d)
  BY <1>3
<1>5. s \notin InStage(d) => Pending(d) \cap Units(s, d) = {}
  <2>1. \A t \in InStage(d) : t # s => Units(t, d) \cap Units(s, d) = {}
    BY DEF Units
  <2>2. QED
    BY <1>3, <2>1
<1>6. QED
  BY <1>1, <1>2, <1>4, <1>5

\* A request enters the stage: Upsert.
LEMMA PendingEnters ==
  ASSUME TypeOK, PendingInv, NEW s \in Slots, NEW d \in Dims, s \notin InStage(d),
         InStage(d)' = InStage(d) \cup {s}, UNCHANGED use
  PROVE  /\ IsFiniteSet(Pending(d)')
         /\ Cardinality(Pending(d)') = unapplied[d] + use[s][d]
<1>1. Pending(d) = UNION {Units(t, d) : t \in InStage(d)}
  BY DEF Pending, InStage
<1>2. Pending(d)' = UNION {Units(t, d) : t \in InStage(d)'}
  BY DEF Pending, InStage, Units
<1>3. Pending(d)' = Pending(d) \cup Units(s, d)
  BY <1>1, <1>2
<1>4. IsFiniteSet(Pending(d)) /\ Cardinality(Pending(d)) = unapplied[d]
  BY DEF PendingInv
<1>5. /\ IsFiniteSet(Units(s, d)) /\ Cardinality(Units(s, d)) = use[s][d]
      /\ Pending(d) \cap Units(s, d) = {}
  BY UnitsOf
<1>6. QED
  BY <1>3, <1>4, <1>5, AddUnits

\* A request leaves the stage: its increment.
LEMMA PendingLeaves ==
  ASSUME TypeOK, PendingInv, NEW s \in Slots, NEW d \in Dims, s \in InStage(d),
         InStage(d)' = InStage(d) \ {s}, UNCHANGED use
  PROVE  /\ IsFiniteSet(Pending(d)')
         /\ Cardinality(Pending(d)') = unapplied[d] - use[s][d]
         /\ Cardinality(Pending(d)') \in Nat
<1>1. Pending(d) = UNION {Units(t, d) : t \in InStage(d)}
  BY DEF Pending, InStage
<1>2. Pending(d)' = UNION {Units(t, d) : t \in InStage(d)'}
  BY DEF Pending, InStage, Units
<1>3. \A t \in InStage(d) : t # s => Units(t, d) \cap Units(s, d) = {}
  BY DEF Units
<1>4. Pending(d)' = Pending(d) \ Units(s, d)
  BY <1>1, <1>2, <1>3
<1>5. IsFiniteSet(Pending(d)) /\ Cardinality(Pending(d)) = unapplied[d]
  BY DEF PendingInv
<1>6. /\ Cardinality(Units(s, d)) = use[s][d]
      /\ Units(s, d) \subseteq Pending(d)
  BY UnitsOf
<1>7. /\ IsFiniteSet(Pending(d)')
      /\ Cardinality(Pending(d)') = unapplied[d] - use[s][d]
  BY <1>4, <1>5, <1>6, RemoveUnits
<1>8. QED
  BY <1>7, FS_CardinalityType

LEMMA PendingSame ==
  ASSUME PendingInv, NEW d \in Dims, InStage(d)' = InStage(d), UNCHANGED use,
         unapplied'[d] = unapplied[d]
  PROVE  IsFiniteSet(Pending(d)') /\ unapplied'[d] = Cardinality(Pending(d)')
<1>1. Pending(d)' = Pending(d)
  BY DEF Pending, InStage, Units
<1>2. QED
  BY <1>1 DEF PendingInv

\* Nothing is on its way when no AddUsage is at work.
LEMMA NothingPending ==
  ASSUME PendingInv, \A t \in Slots : pc[t] \notin {"incTok", "incCost"}
  PROVE  \A d \in Dims : unapplied[d] = 0
<1> SUFFICES ASSUME NEW d \in Dims
             PROVE  unapplied[d] = 0
  OBVIOUS
<1>1. {t \in Slots : pc[t] \in Stage(d)} = {}
  BY DEF Stage
<1>2. Pending(d) = {}
  BY <1>1 DEF Pending
<1>3. QED
  BY <1>2, FS_EmptySet DEF PendingInv

-----------------------------------------------------------------------------
(* The check                                                               *)

\* What all the steps of AllowQuota have in common.
LEMMA CheckFrame ==
  ASSUME IInv, NEW s \in Slots,
         Begin(s) \/ GetTok(s) \/ GetCost(s) \/ Select(s) \/ SetTok(s) \/ SetCost(s) \/ Decide(s)
  PROVE  /\ TypeOK' /\ PendingInv' /\ UNCHANGED <<alive, db, use, unapplied>>
         /\ pc[s] \notin {"incTok", "incCost"} /\ pc'[s] \notin {"incTok", "incCost"}
         /\ \A t \in Slots \ {s} : pc'[t] = pc[t] /\ val'[t] = val[t] /\ overlap'[t] = overlap[t]
         /\ sound' = TRUE => sound = TRUE
<1>1. TypeOK'
  BY CheckTypes DEF IInv
<1>2. UNCHANGED <<alive, db, use, unapplied>>
  BY DEF Begin, GetTok, GetCost, Select, SetTok, SetCost, Decide, ghosts
<1>3. /\ pc[s] \notin {"incTok", "incCost"} /\ pc'[s] \notin {"incTok", "incCost"}
      /\ \A t \in Slots \ {s} : pc'[t] = pc[t]
  BY DEF Begin, GetTok, GetCost, Select, SetTok, SetCost, Decide, Goto, Resend, IInv, TypeOK
<1>4. \A t \in Slots \ {s} : val'[t] = val[t]
  BY DEF Begin, GetTok, GetCost, Select, SetTok, SetCost, Decide, Read, IInv, TypeOK
<1>5. \A t \in Slots \ {s} : overlap'[t] = overlap[t]
  <2>1. overlap' = overlap \/ overlap' = [overlap EXCEPT ![s] = Adding]
    BY DEF Begin, GetTok, GetCost, Select, SetTok, SetCost, Decide, ghosts
  <2>2. QED
    BY <2>1 DEF IInv, TypeOK
<1>6. sound' = TRUE => sound = TRUE
  BY DEF Begin, GetTok, GetCost, Select, SetTok, SetCost, Decide, ghosts, Refilled, IInv, TypeOK
<1>7. PendingInv'
  BY <1>2, <1>3, PendingFrame DEF IInv
<1>8. QED
  BY <1>1, <1>2, <1>3, <1>4, <1>5, <1>6, <1>7

\* Fills stay clean: a new one reads the table, and the others go on.
LEMMA CheckFills ==
  ASSUME IInv, NEW s \in Slots,
         Begin(s) \/ GetTok(s) \/ GetCost(s) \/ Select(s) \/ SetTok(s) \/ SetCost(s) \/ Decide(s)
  PROVE  FillInv'
<1>1. /\ UNCHANGED <<alive, db>> /\ pc'[s] \notin {"incTok", "incCost"}
      /\ \A t \in Slots \ {s} : pc'[t] = pc[t] /\ val'[t] = val[t] /\ overlap'[t] = overlap[t]
  BY CheckFrame
<1>2. FillInv
  BY DEF IInv
<1>3. ASSUME NEW t \in Slots \ {s}, alive', Filling(t)', overlap'[t] = FALSE
      PROVE  val'[t] = db' /\ \A u \in Slots : pc'[u] \notin {"incTok", "incCost"}
  <2>1. alive /\ Filling(t) /\ overlap[t] = FALSE
    BY <1>1, <1>3 DEF Filling
  <2>2. val[t] = db /\ \A u \in Slots : pc[u] \notin {"incTok", "incCost"}
    BY <1>2, <2>1 DEF FillInv
  <2>3. QED
    BY <1>1, <2>2
<1>4. ASSUME alive', Filling(s)', overlap'[s] = FALSE
      PROVE  val'[s] = db' /\ \A u \in Slots : pc'[u] \notin {"incTok", "incCost"}
  <2>1. Select(s) \/ SetTok(s) \/ SetCost(s)
    BY <1>4 DEF Begin, GetTok, GetCost, Decide, Goto, Filling, IInv, TypeOK
  <2>2. CASE Select(s)
    <3>1. val' = [val EXCEPT ![s] = db] /\ overlap' = [overlap EXCEPT ![s] = Adding]
      BY <1>4, <2>2 DEF Select, Filling, Goto, IInv, TypeOK
    <3>2. val'[s] = db /\ overlap'[s] = Adding
      BY <3>1 DEF IInv, TypeOK
    <3>3. ~Adding
      BY <1>4, <3>2
    <3>4. QED
      BY <1>1, <3>2, <3>3 DEF Adding
  <2>3. CASE SetTok(s) \/ SetCost(s)
    <3>1. pc[s] \in {"setTok", "setCost"} /\ UNCHANGED <<val, overlap>>
      BY <2>3 DEF SetTok, SetCost
    <3>2. val[s] = db /\ \A u \in Slots : pc[u] \notin {"incTok", "incCost"}
      BY <1>1, <1>2, <1>4, <3>1 DEF FillInv, Filling
    <3>3. QED
      BY <1>1, <3>1, <3>2
  <2>4. QED
    BY <2>1, <2>2, <2>3
<1>5. QED
  BY <1>3, <1>4 DEF FillInv

\* Whoever is let in has read a total below the quota.
LEMMA CheckAdmits ==
  ASSUME IInv, NEW s \in Slots,
         Begin(s) \/ GetTok(s) \/ GetCost(s) \/ Select(s) \/ SetTok(s) \/ SetCost(s) \/ Decide(s)
  PROVE  AdmitInv'
<1> SUFFICES ASSUME TokenQuota # NoQuota, sound' = TRUE,
                    NEW t \in Slots, pc'[t] \in {"upstream", "upsert"}
             PROVE  t \in Tickets'
  BY DEF AdmitInv
<1>1. /\ \A u \in Slots \ {s} : pc'[u] = pc[u] /\ val'[u] = val[u]
      /\ sound = TRUE
  BY CheckFrame
<1>2. CASE t # s
  BY <1>1, <1>2 DEF IInv, AdmitInv, Tickets
<1>3. CASE t = s
  <2>1. Decide(s)
    BY <1>3 DEF Begin, GetTok, GetCost, Select, SetTok, SetCost, Decide, Goto, Resend, IInv, TypeOK
  <2>2. Within(val[s]) /\ UNCHANGED val
    BY <1>3, <2>1 DEF Decide, Goto, IInv, TypeOK
  <2>3. QED
    BY <1>3, <2>2 DEF Tickets, Holding, Within
<1>4. QED
  BY <1>2, <1>3

LEMMA CheckTickets ==
  ASSUME IInv, NEW s \in Slots,
         Begin(s) \/ GetTok(s) \/ GetCost(s) \/ Select(s) \/ SetTok(s) \/ SetCost(s) \/ Decide(s)
  PROVE  TicketInv'
<1> SUFFICES ASSUME TokenQuota # NoQuota, sound' = TRUE
             PROVE  TicketInv'
  BY DEF TicketInv
<1>1. /\ UNCHANGED <<alive, db, unapplied>> /\ sound = TRUE
      /\ pc[s] \notin {"incTok", "incCost"}
      /\ \A t \in Slots \ {s} : pc'[t] = pc[t] /\ val'[t] = val[t]
  BY CheckFrame
<1>2. db["tok"] \in Nat /\ unapplied["tok"] \in Nat /\ db' \in [Dims -> Nat]
  BY <1>1 DEF IInv, TypeOK, Dims
<1>3. ASSUME s \in Tickets' => s \in Tickets
      PROVE  TicketInv'
  <2>1. Tickets' \subseteq Tickets
    BY <1>1, <1>3 DEF Tickets
  <2>2. QED
    BY <1>1, <1>2, <2>1, TicketsKept DEF IInv
<1>4. ASSUME db["tok"] - unapplied["tok"] <= TokenQuota - 1
      PROVE  TicketInv'
  <2>1. \A t \in Slots : t \in Tickets' => pc[t] # "incTok"
    BY <1>1 DEF Tickets, Holding
  <2>2. QED
    BY <1>1, <1>4, <2>1, TicketGranted DEF IInv
<1>5. CASE Begin(s)
  <2>1. pc'[s] = "getTok"
    BY <1>5 DEF Begin, Goto, IInv, TypeOK
  <2>2. QED
    BY <1>3, <2>1 DEF Tickets, Holding
<1>6. CASE GetTok(s)
  <2>1. CASE pc'[s] = "select"
    BY <1>3, <2>1 DEF Tickets, Holding
  <2>2. CASE pc'[s] # "select"
    <3>1. redis["tok"] # Absent /\ val' = [val EXCEPT ![s]["tok"] = redis["tok"]]
      BY <1>6, <2>2 DEF GetTok, Goto, Read, IInv, TypeOK
    <3>2. val'[s]["tok"] = redis["tok"]
      BY <3>1 DEF IInv, TypeOK, Dims
    <3>3. redis["tok"] \in Nat /\ redis["tok"] + unapplied["tok"] - db["tok"] = 0
      BY <1>1, <3>1 DEF IInv, SoundInv, CounterTracksTable, TypeOK, Dims
    <3>4. CASE redis["tok"] < TokenQuota
      BY <1>2, <1>4, <3>3, <3>4, QuotaAssumption
    <3>5. CASE ~(redis["tok"] < TokenQuota)
      BY <1>3, <3>2, <3>5 DEF Tickets
    <3>6. QED
      BY <3>4, <3>5
  <2>3. QED
    BY <2>1, <2>2
<1>7. CASE GetCost(s)
  <2>1. CASE pc'[s] = "select"
    BY <1>3, <2>1 DEF Tickets, Holding
  <2>2. CASE pc'[s] # "select"
    <3>1. pc[s] = "getCost" /\ val' = [val EXCEPT ![s]["cost"] = redis["cost"]]
      BY <1>7, <2>2 DEF GetCost, Goto, Read, IInv, TypeOK
    <3>2. val'[s]["tok"] = val[s]["tok"]
      BY <3>1 DEF IInv, TypeOK, Dims
    <3>3. QED
      BY <1>3, <3>1, <3>2 DEF Tickets, Holding
  <2>3. QED
    BY <2>1, <2>2
<1>8. CASE Select(s)
  <2>1. val' = [val EXCEPT ![s] = db]
    BY <1>1, <1>8 DEF Select
  <2>2. val'[s] = db
    BY <2>1 DEF IInv, TypeOK
  <2>3. CASE db["tok"] < TokenQuota
    BY <1>2, <1>4, <2>3, QuotaAssumption
  <2>4. CASE ~(db["tok"] < TokenQuota)
    BY <1>3, <2>2, <2>4 DEF Tickets
  <2>5. QED
    BY <2>3, <2>4
<1>9. CASE SetTok(s) \/ SetCost(s) \/ Decide(s)
  <2>1. UNCHANGED val /\ pc[s] \in {"setTok", "setCost", "decide"}
    BY <1>9 DEF SetTok, SetCost, Decide
  <2>2. QED
    BY <1>3, <2>1 DEF Tickets, Holding
<1>10. QED
  BY <1>5, <1>6, <1>7, <1>8, <1>9

\* A fill that nothing overlapped leaves the counter where the table is, a
\* cost to within half of what "%f" keeps.
LEMMA CheckCounters ==
  ASSUME IInv, NEW s \in Slots,
         Begin(s) \/ GetTok(s) \/ GetCost(s) \/ Select(s) \/ SetTok(s) \/ SetCost(s) \/ Decide(s)
  PROVE  CounterTracksTable' /\ SoundInv'
<1>1. UNCHANGED <<alive, db, unapplied>> /\ (sound' = TRUE => sound = TRUE)
  BY CheckFrame
<1>2. CASE UNCHANGED <<redis, drift, adds>>
  BY <1>1, <1>2 DEF IInv, CounterTracksTable, SoundInv
<1>3. CASE ~(UNCHANGED <<redis, drift, adds>>)
  <2>1. PICK d \in Dims : /\ Refilled(s, d) /\ Filling(s)
                          /\ \/ /\ d = "tok" /\ UNCHANGED adds
                                /\ redis' = [redis EXCEPT ![d] = val[s][d]]
                             \/ /\ d = "cost" /\ adds' = 0
                                /\ \E c \in Nearest(val[s][d], Grain) :
                                     redis' = [redis EXCEPT ![d] = c]
    BY <1>3 DEF Begin, GetTok, GetCost, Select, SetTok, SetCost, Decide, ghosts, Dims, Filling
  <2>2. /\ \A e \in Dims \ {d} : redis'[e] = redis[e] /\ (e \in drift' <=> e \in drift)
        /\ overlap[s] \in BOOLEAN
    BY <2>1 DEF Refilled, IInv, TypeOK
  <2>3. SoundInv'
    <3>1. sound' = TRUE => sound = TRUE /\ overlap[s] = FALSE
      BY <1>1, <2>1, <2>2 DEF Refilled
    <3>2. overlap[s] = FALSE => drift' = drift \ {d}
      BY <2>1 DEF Refilled
    <3>3. QED
      BY <1>1, <3>1, <3>2 DEF IInv, SoundInv
  <2>4. ASSUME alive', d \notin drift'
        PROVE  LET off == redis'[d] + unapplied'[d] - db'[d]
               IN  IF d = "tok" THEN off = 0
                   ELSE 2 * off <= Grain + adds' * Unit /\ -2 * off <= Grain + adds' * Unit
    <3>1. overlap[s] = FALSE
      BY <2>1, <2>2, <2>4 DEF Refilled
    <3>2. val[s] = db /\ \A t \in Slots : pc[t] \notin {"incTok", "incCost"}
      BY <1>1, <2>1, <2>4, <3>1 DEF IInv, FillInv
    <3>3. unapplied[d] = 0
      BY <3>2, NothingPending DEF IInv
    <3>4. db[d] \in Nat
      BY DEF IInv, TypeOK
    <3>5. CASE d = "tok"
      <4>1. redis'[d] = db[d]
        BY <2>1, <3>2, <3>5 DEF IInv, TypeOK
      <4>2. QED
        BY <1>1, <3>3, <3>4, <3>5, <4>1
    <3>6. CASE d # "tok"
      <4>1. PICK c \in Nearest(db[d], Grain) : redis' = [redis EXCEPT ![d] = c]
        BY <2>1, <3>2, <3>6
      <4>2. c \in Int /\ 2 * (c - db[d]) <= Grain /\ 2 * (db[d] - c) <= Grain
        BY <3>4, <4>1, QuotaAssumption DEF Nearest
      <4>3. redis'[d] = c /\ adds' * Unit = 0
        BY <2>1, <3>6, <4>1, QuotaAssumption DEF IInv, TypeOK
      <4>4. QED
        BY <1>1, <3>3, <3>4, <3>6, <4>2, <4>3, QuotaAssumption
    <3>7. QED
      BY <3>5, <3>6
  <2>5. CounterTracksTable'
    <3>1. d = "cost" \/ UNCHANGED adds
      BY <2>1
    <3>2. QED
      BY <1>1, <2>2, <2>4, <3>1 DEF IInv, CounterTracksTable, Dims
  <2>6. QED
    BY <2>3, <2>5
<1>4. QED
  BY <1>2, <1>3

LEMMA CheckStep ==
  ASSUME IInv, NEW s \in Slots,
         Begin(s) \/ GetTok(s) \/ GetCost(s) \/ Select(s) \/ SetTok(s) \/ SetCost(s) \/ Decide(s)
  PROVE  IInv'
  BY CheckFrame, CheckFills, CheckAdmits, CheckTickets, CheckCounters DEF IInv

-----------------------------------------------------------------------------
(* The upstream request and AddUsage                                       *)

LEMMA UpstreamStep ==
  ASSUME IInv, NEW s \in Slots, NEW u \in Usages \cup {Zero}, Upstream(s, u)
  PROVE  IInv'
<1>1. /\ UNCHANGED <<alive, row, db, redis, val, started, unapplied, adds, overlap, drift, sound,
                     quiet, overrun>>
      /\ pc[s] = "upstream" /\ use' = [use EXCEPT ![s] = u]
  BY DEF Upstream, ghosts
<1>2. /\ pc' \in [Slots -> Pcs] /\ pc'[s] \in {"idle", "upsert"} /\ resent' \in [Slots -> Nat]
      /\ \A t \in Slots \ {s} : pc'[t] = pc[t] /\ use'[t] = use[t]
  BY <1>1 DEF Upstream, Goto, IInv, TypeOK, Pcs
<1>3. TypeOK'
  BY <1>1, <1>2 DEF IInv, TypeOK
<1>4. PendingInv'
  BY <1>1, <1>2, PendingFrame DEF IInv
<1>5. CounterTracksTable' /\ SoundInv'
  BY <1>1 DEF IInv, CounterTracksTable, SoundInv
<1>6. FillInv'
  BY <1>1, <1>2 DEF IInv, FillInv, Filling
<1>7. AdmitInv'
  BY <1>1, <1>2 DEF IInv, AdmitInv, Tickets, Holding
<1>8. TicketInv'
  <2>1. Tickets' \subseteq Tickets
    BY <1>1, <1>2 DEF Tickets, Holding
  <2>2. db' \in [Dims -> Nat] /\ db'["tok"] <= db["tok"]
    BY <1>1 DEF IInv, TypeOK, Dims
  <2>3. QED
    BY <1>1, <2>1, <2>2, TicketsKept DEF IInv
<1>9. QED
  BY <1>3, <1>4, <1>5, <1>6, <1>7, <1>8 DEF IInv

LEMMA PlusType ==
  ASSUME NEW f \in [Dims -> Nat], NEW g \in [Dims -> Nat]
  PROVE  /\ Plus(f, g) \in [Dims -> Nat]
         /\ \A d \in Dims : Plus(f, g)[d] = f[d] + g[d]
  BY DEF Plus

\* The statement has no effect, because the key is gone or on an error.
LEMMA UpsertFails ==
  ASSUME IInv, NEW s \in Slots, pc[s] = "upsert", Goto(s, "idle"),
         UNCHANGED <<alive, row, db, redis, val, use, started, unapplied, adds, overlap, drift,
                     sound, quiet, overrun>>
  PROVE  IInv'
<1>1. /\ pc' \in [Slots -> Pcs] /\ pc'[s] = "idle" /\ resent' \in [Slots -> Nat]
      /\ \A t \in Slots \ {s} : pc'[t] = pc[t]
  BY DEF Goto, IInv, TypeOK, Pcs
<1>2. TypeOK'
  BY <1>1 DEF IInv, TypeOK
<1>3. PendingInv'
  BY <1>1, PendingFrame DEF IInv
<1>4. CounterTracksTable' /\ SoundInv'
  BY DEF IInv, CounterTracksTable, SoundInv
<1>5. FillInv'
  BY <1>1 DEF IInv, FillInv, Filling
<1>6. AdmitInv'
  BY <1>1 DEF IInv, AdmitInv, Tickets, Holding
<1>7. TicketInv'
  <2>1. Tickets' \subseteq Tickets
    BY <1>1 DEF Tickets, Holding
  <2>2. db' \in [Dims -> Nat] /\ db'["tok"] <= db["tok"]
    BY DEF IInv, TypeOK, Dims
  <2>3. QED
    BY <2>1, <2>2, TicketsKept DEF IInv
<1>8. QED
  BY <1>2, <1>3, <1>4, <1>5, <1>6, <1>7 DEF IInv

\* What the table keeps of a cost is half a unit off at most.
LEMMA StoredNear ==
  ASSUME NEW v \in [Dims -> Nat], NEW u \in Stored(v)
  PROVE  /\ u \in [Dims -> Nat] /\ u["tok"] = v["tok"]
         /\ 2 * (u["cost"] - v["cost"]) <= Unit /\ 2 * (v["cost"] - u["cost"]) <= Unit
<1>1. PICK c \in Nearest(v["cost"], Unit) : u = [v EXCEPT !["cost"] = c]
  BY DEF Stored
<1>2. v["cost"] \in Nat
  BY DEF Dims
<1>3. c \in Nat /\ 2 * (c - v["cost"]) <= Unit /\ 2 * (v["cost"] - c) <= Unit
  BY <1>1, <1>2, QuotaAssumption DEF Nearest
<1>4. QED
  BY <1>1, <1>3 DEF Dims

\* The statement takes effect.  Its answer arrives, or it is lost and the
\* counters have drifted.
LEMMA UpsertWorks ==
  ASSUME IInv, NEW s \in Slots, pc[s] = "upsert", alive,
         row' = TRUE, NEW u \in Stored(use[s]), db' = Plus(db, u), adds' = adds + 1,
         overlap' = [t \in Slots |-> overlap[t] \/ Filling(t)],
         \/ /\ Goto(s, "incTok")
            /\ unapplied' = Plus(unapplied, use[s])
            /\ UNCHANGED <<drift, sound>>
         \/ /\ Goto(s, "idle")
            /\ drift' = Dims /\ sound' = FALSE
            /\ UNCHANGED unapplied,
         UNCHANGED <<alive, redis, val, use, started, quiet, overrun>>
  PROVE  IInv'
<1>1. /\ pc' \in [Slots -> Pcs] /\ pc'[s] \in {"idle", "incTok"} /\ resent' \in [Slots -> Nat]
      /\ \A t \in Slots \ {s} : pc'[t] = pc[t]
  <2>1. PICK l \in {"idle", "incTok"} : Goto(s, l)
    OBVIOUS
  <2>2. QED
    BY <2>1, GotoType DEF IInv, Pcs
<1>2. /\ use[s] \in [Dims -> Nat] /\ db \in [Dims -> Nat] /\ unapplied \in [Dims -> Nat]
      /\ use[s]["tok"] \in Nat /\ use[s]["tok"] <= MaxUse
  BY Usage DEF IInv, TypeOK
<1>3. /\ db' \in [Dims -> Nat] /\ \A d \in Dims : db'[d] = db[d] + u[d] /\ u[d] \in Nat
      /\ u["tok"] = use[s]["tok"] /\ 2 * (u["cost"] - use[s]["cost"]) <= Unit
      /\ 2 * (use[s]["cost"] - u["cost"]) <= Unit
  <2>1. /\ u \in [Dims -> Nat] /\ u["tok"] = use[s]["tok"]
        /\ 2 * (u["cost"] - use[s]["cost"]) <= Unit /\ 2 * (use[s]["cost"] - u["cost"]) <= Unit
    BY <1>2, StoredNear
  <2>2. QED
    BY <1>2, <2>1, PlusType
<1>4. TypeOK'
  <2>1. unapplied' \in [Dims -> Nat] /\ drift' \subseteq Dims /\ sound' \in BOOLEAN
    BY <1>2, PlusType DEF IInv, TypeOK
  <2>2. overlap' \in [Slots -> BOOLEAN] /\ row' \in BOOLEAN /\ adds' \in Nat
    BY DEF IInv, TypeOK
  <2>3. QED
    BY <1>1, <1>3, <2>1, <2>2 DEF IInv, TypeOK
<1>5. PendingInv'
  <2>1. CASE Goto(s, "idle") /\ UNCHANGED unapplied
    <3>1. pc'[s] = "idle"
      BY <2>1 DEF Goto, IInv, TypeOK
    <3>2. QED
      BY <1>1, <2>1, <3>1, PendingFrame DEF IInv
  <2>2. CASE Goto(s, "incTok") /\ unapplied' = Plus(unapplied, use[s])
    <3>1. pc'[s] = "incTok"
      BY <2>2 DEF Goto, IInv, TypeOK
    <3>2. ASSUME NEW d \in Dims
          PROVE  IsFiniteSet(Pending(d)') /\ unapplied'[d] = Cardinality(Pending(d)')
      <4>1. s \notin InStage(d) /\ InStage(d)' = InStage(d) \cup {s}
        BY <1>1, <3>1 DEF InStage, Stage
      <4>2. /\ IsFiniteSet(Pending(d)')
            /\ Cardinality(Pending(d)') = unapplied[d] + use[s][d]
        BY <4>1, PendingEnters DEF IInv
      <4>3. unapplied'[d] = unapplied[d] + use[s][d]
        BY <1>2, <2>2, PlusType
      <4>4. QED
        BY <4>2, <4>3
    <3>3. QED
      BY <3>2 DEF PendingInv
  <2>3. QED
    BY <2>1, <2>2
<1>6. CounterTracksTable'
  <2>1. CASE drift' = Dims
    BY <2>1 DEF CounterTracksTable
  <2>2. CASE unapplied' = Plus(unapplied, use[s]) /\ UNCHANGED drift
    <3>1. \A d \in Dims : unapplied'[d] = unapplied[d] + use[s][d]
      BY <1>2, <2>2, PlusType
    <3>2. (adds + 1) * Unit = adds * Unit + Unit /\ adds * Unit \in Nat
      <4>1. adds \in Nat /\ 1 \in Nat /\ Unit \in Nat /\ 1 * Unit = Unit
        BY QuotaAssumption DEF IInv, TypeOK
      <4>2. QED
        BY <4>1, Times
    <3> SUFFICES ASSUME NEW d \in Dims, redis[d] # Absent, d \notin drift
                 PROVE  LET off == redis[d] + unapplied'[d] - db'[d]
                        IN  IF d = "tok" THEN off = 0
                            ELSE /\ 2 * off <= Grain + (adds + 1) * Unit
                                 /\ -2 * off <= Grain + (adds + 1) * Unit
      BY <2>2 DEF CounterTracksTable
    <3> DEFINE a == redis[d]
               b == unapplied[d]
               c == db[d]
               x == use[s][d]
               y == u[d]
               m == adds * Unit
    <3>3. a \in Nat /\ b \in Nat /\ c \in Nat /\ x \in Nat /\ y \in Nat /\ m \in Nat
      BY <1>2, <1>3, <3>2 DEF IInv, TypeOK
    <3>4. unapplied'[d] = b + x /\ db'[d] = c + y /\ (adds + 1) * Unit = m + Unit
      BY <1>3, <3>1, <3>2
    <3>5. IF d = "tok" THEN a + b - c = 0
          ELSE 2 * (a + b - c) <= Grain + m /\ -2 * (a + b - c) <= Grain + m
      BY DEF IInv, CounterTracksTable
    <3>6. IF d = "tok" THEN x = y ELSE 2 * (y - x) <= Unit /\ 2 * (x - y) <= Unit
      BY <1>3 DEF Dims
    <3> HIDE DEF a, b, c, x, y, m
    <3>7. IF d = "tok" THEN a + (b + x) - (c + y) = 0
          ELSE /\ 2 * (a + (b + x) - (c + y)) <= Grain + (m + Unit)
               /\ -2 * (a + (b + x) - (c + y)) <= Grain + (m + Unit)
      BY <3>3, <3>5, <3>6, QuotaAssumption
    <3>8. QED
      BY <3>4, <3>7 DEF a
  <2>3. QED
    BY <2>1, <2>2
<1>7. FillInv'
  <2>1. ASSUME NEW t \in Slots, Filling(t)', overlap'[t] = FALSE
        PROVE  FALSE
    <3>1. Filling(t)
      BY <1>1, <2>1 DEF Filling
    <3>2. overlap'[t] = TRUE
      BY <3>1
    <3>3. QED
      BY <2>1, <3>2
  <2>2. QED
    BY <2>1 DEF FillInv
<1>8. SoundInv'
  BY DEF IInv, SoundInv
<1>9. AdmitInv'
  BY <1>1 DEF IInv, AdmitInv, Tickets, Holding
<1>10. TicketInv'
  <2> SUFFICES ASSUME TokenQuota # NoQuota, sound' = TRUE
               PROVE  TicketInv'
    BY DEF TicketInv
  <2>1. sound = TRUE
    OBVIOUS
  <2>2. s \in Tickets
    BY <2>1 DEF IInv, AdmitInv
  <2>3. Tickets' = Tickets \ {s}
    BY <1>1 DEF Tickets, Holding
  <2>4. IsFiniteSet(Tickets)
    <3>1. Tickets \in SUBSET Slots
      BY DEF Tickets
    <3>2. QED
      BY <3>1, QuotaAssumption, FS_Subset
  <2>5. db["tok"] \in Nat /\ db'["tok"] \in Nat /\ db'["tok"] <= db["tok"] + MaxUse
    <3>1. db'["tok"] = db["tok"] + use[s]["tok"] /\ db["tok"] \in Nat
      BY <1>2, <1>3 DEF Dims
    <3>2. QED
      BY <1>2, <3>1, Usage
  <2> DEFINE q == TokenQuota - 1 + Cardinality(Slots) * MaxUse
  <2>6. q \in Int
    <3>1. Cardinality(Slots) \in Nat
      BY QuotaAssumption, FS_CardinalityType
    <3>2. Cardinality(Slots) * MaxUse \in Nat
      BY <3>1, Usage, Times
    <3>3. QED
      BY <3>2, QuotaAssumption DEF NoQuota
  <2>7. db["tok"] + Cardinality(Tickets) * MaxUse <= q
    BY <2>1 DEF IInv, TicketInv
  <2> HIDE DEF q
  <2>8. db'["tok"] + Cardinality(Tickets \ {s}) * MaxUse <= q
    BY <2>2, <2>4, <2>5, <2>6, <2>7, Spend, Usage
  <2>9. QED
    BY <2>3, <2>8 DEF q, TicketInv
<1>11. QED
  BY <1>4, <1>5, <1>6, <1>7, <1>8, <1>9, <1>10 DEF IInv

LEMMA UpsertStep ==
  ASSUME IInv, NEW s \in Slots, Upsert(s)
  PROVE  IInv'
<1>1. pc[s] = "upsert" /\ UNCHANGED <<alive, redis, val, use, started, quiet, overrun>>
  BY DEF Upsert
<1>2. CASE Goto(s, "idle") /\ UNCHANGED <<row, db, unapplied, adds, overlap, drift, sound>>
  BY <1>1, <1>2, UpsertFails
<1>3. CASE ~(Goto(s, "idle") /\ UNCHANGED <<row, db, unapplied, adds, overlap, drift, sound>>)
  <2>1. /\ alive /\ row' = TRUE /\ \E u \in Stored(use[s]) : db' = Plus(db, u)
        /\ adds' = adds + 1
        /\ overlap' = [t \in Slots |-> overlap[t] \/ Filling(t)]
        /\ \/ /\ Goto(s, "incTok")
              /\ unapplied' = Plus(unapplied, use[s])
              /\ UNCHANGED <<drift, sound>>
           \/ /\ Goto(s, "idle")
              /\ drift' = Dims /\ sound' = FALSE
              /\ UNCHANGED unapplied
    BY <1>3 DEF Upsert
  <2>2. QED
    BY <1>1, <2>1, UpsertWorks
<1>4. QED
  BY <1>2, <1>3

\* An increment that is sent again: the counter drifts.
LEMMA ResendStep ==
  ASSUME IInv, NEW s \in Slots, NEW d \in Dims, pc[s] \in {"incTok", "incCost"},
         redis' = Incremented(d, use[s][d]), Doubled(d), Resend(s),
         UNCHANGED <<alive, row, db, val, use, started, adds, overlap, quiet, overrun>>
  PROVE  IInv'
<1>1. /\ drift' = drift \cup {d} /\ sound' = FALSE /\ UNCHANGED <<unapplied, pc>>
      /\ resent' = [resent EXCEPT ![s] = resent[s] + 1]
  BY DEF Doubled, Resend
<1>2. use[s][d] \in Nat
  BY Usage DEF IInv, TypeOK
<1>3. /\ redis' \in [Dims -> Nat \cup {Absent}]
      /\ \A e \in Dims \ {d} : redis'[e] = redis[e]
  <2> DEFINE n == IF redis[d] = Absent THEN use[s][d] ELSE redis[d] + use[s][d]
  <2>1. redis' = [redis EXCEPT ![d] = n]
    BY DEF Incremented
  <2>2. n \in Nat
    BY <1>2 DEF IInv, TypeOK
  <2>3. QED
    BY <2>1, <2>2 DEF IInv, TypeOK
<1>4. TypeOK'
  <2>1. resent \in [Slots -> Nat] /\ drift \subseteq Dims
    BY DEF IInv, TypeOK
  <2>2. resent' \in [Slots -> Nat] /\ drift' \subseteq Dims /\ sound' \in BOOLEAN
    <3>1. resent[s] + 1 \in Nat
      BY <2>1
    <3>2. resent' \in [Slots -> Nat]
      BY <1>1, <2>1, <3>1
    <3>3. drift' \subseteq Dims /\ sound' \in BOOLEAN
      BY <1>1, <2>1
    <3>4. QED
      BY <3>2, <3>3
  <2>3. QED
    BY <1>1, <1>3, <2>2 DEF IInv, TypeOK
<1>5. PendingInv'
  BY <1>1, PendingFrame DEF IInv
<1>6. CounterTracksTable'
  BY <1>1, <1>3 DEF IInv, CounterTracksTable
<1>7. FillInv' /\ SoundInv' /\ AdmitInv' /\ TicketInv'
  BY <1>1 DEF IInv, FillInv, Filling, SoundInv, AdmitInv, TicketInv
<1>8. QED
  BY <1>4, <1>5, <1>6, <1>7 DEF IInv

\* An increment that is answered or lost: the counter gains what is no longer
\* on its way, or it drifts.
LEMMA AppliedStep ==
  ASSUME IInv, NEW s \in Slots, NEW d \in Dims, NEW ok \in BOOLEAN,
         \/ d = "tok" /\ pc[s] = "incTok" /\ Goto(s, "incCost")
         \/ d = "cost" /\ pc[s] = "incCost" /\ Goto(s, "idle"),
         Applied(s, d, ok),
         \/ redis' = Incremented(d, use[s][d]) /\ (ok <=> redis[d] # Absent)
         \/ UNCHANGED redis /\ ok = FALSE,
         UNCHANGED <<alive, row, db, val, use, started, adds, overlap, quiet, overrun>>
  PROVE  IInv'
<1>1. \/ d = "tok" /\ pc[s] = "incTok" /\ Goto(s, "incCost")
      \/ d = "cost" /\ pc[s] = "incCost" /\ Goto(s, "idle")
  OBVIOUS
<1>2. UNCHANGED <<alive, row, db, val, use, started, adds, overlap, quiet, overrun>>
  OBVIOUS
<1>3. /\ Applied(s, d, ok)
      /\ \/ redis' = Incremented(d, use[s][d]) /\ (ok <=> redis[d] # Absent)
         \/ UNCHANGED redis /\ ok = FALSE
  OBVIOUS
<1>4. /\ pc' \in [Slots -> Pcs] /\ pc'[s] \in {"incCost", "idle"} /\ resent' \in [Slots -> Nat]
      /\ pc[s] \in {"incTok", "incCost"}
      /\ \A t \in Slots \ {s} : pc'[t] = pc[t]
  <2>1. PICK l \in {"incCost", "idle"} : Goto(s, l) /\ pc[s] \in {"incTok", "incCost"}
    BY <1>1
  <2>2. QED
    BY <2>1, GotoType DEF IInv, Pcs
<1>5. /\ use[s][d] \in Nat /\ unapplied \in [Dims -> Nat] /\ db \in [Dims -> Nat]
      /\ redis \in [Dims -> Nat \cup {Absent}] /\ drift \subseteq Dims /\ sound \in BOOLEAN
  BY Usage DEF IInv, TypeOK
<1>6. /\ unapplied' = [unapplied EXCEPT ![d] = unapplied[d] - use[s][d]]
      /\ drift' = (IF ok THEN drift ELSE drift \cup {d})
      /\ sound' = (sound /\ ok)
  BY <1>3 DEF Applied
<1>7. s \in InStage(d) /\ InStage(d)' = InStage(d) \ {s}
  <2>1. pc[s] \in Stage(d) /\ pc'[s] \notin Stage(d)
    BY <1>1 DEF Goto, Stage, IInv, TypeOK
  <2>2. QED
    BY <1>4, <2>1 DEF InStage, Stage
<1>8. /\ IsFiniteSet(Pending(d)')
      /\ Cardinality(Pending(d)') = unapplied[d] - use[s][d]
      /\ unapplied[d] - use[s][d] \in Nat
  BY <1>2, <1>7, PendingLeaves DEF IInv
<1>9. /\ unapplied'[d] = unapplied[d] - use[s][d] /\ unapplied' \in [Dims -> Nat]
      /\ \A e \in Dims \ {d} : unapplied'[e] = unapplied[e]
  BY <1>5, <1>6, <1>8
<1>10. /\ redis' \in [Dims -> Nat \cup {Absent}]
       /\ \A e \in Dims \ {d} : redis'[e] = redis[e]
       /\ ok = TRUE => redis[d] # Absent /\ redis'[d] = redis[d] + use[s][d]
  <2>1. CASE UNCHANGED redis /\ ok = FALSE
    BY <1>5, <2>1
  <2>2. CASE redis' = Incremented(d, use[s][d]) /\ (ok <=> redis[d] # Absent)
    <3> DEFINE n == IF redis[d] = Absent THEN use[s][d] ELSE redis[d] + use[s][d]
    <3>1. redis' = [redis EXCEPT ![d] = n]
      BY <2>2 DEF Incremented
    <3>2. n \in Nat
      BY <1>5
    <3>3. QED
      BY <1>5, <2>2, <3>1, <3>2
  <2>3. QED
    BY <1>3, <2>1, <2>2
<1>11. TypeOK'
  <2>1. drift' \subseteq Dims /\ sound' \in BOOLEAN
    BY <1>5, <1>6
  <2>2. QED
    BY <1>2, <1>4, <1>9, <1>10, <2>1 DEF IInv, TypeOK
<1>12. PendingInv'
  <2>1. ASSUME NEW e \in Dims, e # d
        PROVE  IsFiniteSet(Pending(e)') /\ unapplied'[e] = Cardinality(Pending(e)')
    <3>1. InStage(e)' = InStage(e)
      <4>1. pc'[s] \in Stage(e) <=> pc[s] \in Stage(e)
        BY <1>1, <2>1 DEF Goto, Stage, IInv, TypeOK, Dims
      <4>2. QED
        BY <1>4, <4>1 DEF InStage, Stage
    <3>2. QED
      BY <1>2, <1>9, <2>1, <3>1, PendingSame DEF IInv
  <2>2. QED
    BY <1>8, <1>9, <2>1 DEF PendingInv
<1>13. CounterTracksTable'
  <2>1. ASSUME NEW e \in Dims \ {d}
        PROVE  redis'[e] = redis[e] /\ unapplied'[e] = unapplied[e] /\ (e \in drift' <=> e \in drift)
    BY <1>6, <1>9, <1>10
  <2>2. ASSUME d \notin drift'
        PROVE  /\ redis[d] # Absent /\ d \notin drift
               /\ redis'[d] + unapplied'[d] - db'[d] = redis[d] + unapplied[d] - db[d]
    <3>1. ok = TRUE
      BY <1>3, <1>6, <2>2
    <3>2. redis[d] # Absent /\ redis'[d] = redis[d] + use[s][d] /\ d \notin drift
      BY <1>6, <1>10, <2>2, <3>1
    <3>3. redis[d] \in Nat /\ unapplied[d] \in Nat /\ db[d] \in Nat
      BY <1>5, <3>2
    <3>4. QED
      BY <1>2, <1>5, <1>9, <3>2, <3>3
  <2>3. QED
    BY <1>2, <2>1, <2>2 DEF IInv, CounterTracksTable
<1>14. FillInv'
  <2>1. \A t \in Slots : ~(alive /\ Filling(t) /\ overlap[t] = FALSE)
    BY <1>4 DEF IInv, FillInv
  <2>2. \A t \in Slots : Filling(t)' => Filling(t)
    BY <1>4 DEF Filling
  <2>3. QED
    BY <1>2, <2>1, <2>2 DEF FillInv
<1>15. SoundInv'
  BY <1>2, <1>3, <1>5, <1>6 DEF IInv, SoundInv
<1>16. sound' = TRUE => sound = TRUE
  BY <1>5, <1>6
<1>17. Tickets' \subseteq Tickets
  BY <1>2, <1>4 DEF Tickets, Holding
<1>18. AdmitInv'
  BY <1>2, <1>4, <1>16 DEF IInv, AdmitInv, Tickets, Holding
<1>19. TicketInv'
  <2>1. db' \in [Dims -> Nat] /\ db'["tok"] <= db["tok"]
    BY <1>2, <1>5 DEF Dims
  <2>2. QED
    BY <1>16, <1>17, <2>1, TicketsKept DEF IInv
<1>20. QED
  BY <1>11, <1>12, <1>13, <1>14, <1>15, <1>18, <1>19 DEF IInv

LEMMA IncStep ==
  ASSUME IInv, NEW s \in Slots, IncTok(s) \/ IncCost(s)
  PROVE  IInv'
<1>1. PICK d \in Dims, l \in {"incCost", "idle"} :
        /\ Inc(s, d, l)
        /\ \/ d = "tok" /\ pc[s] = "incTok" /\ l = "incCost"
           \/ d = "cost" /\ pc[s] = "incCost" /\ l = "idle"
  BY DEF IncTok, IncCost, Dims
<1>2. UNCHANGED <<alive, row, db, val, use, started, adds, overlap, quiet, overrun>>
  BY DEF IncTok, IncCost
<1>3. CASE redis' = Incremented(d, use[s][d]) /\ Doubled(d) /\ Resend(s)
  BY <1>1, <1>2, <1>3, ResendStep
<1>4. CASE \E ok \in BOOLEAN :
             /\ Applied(s, d, ok) /\ Goto(s, l)
             /\ \/ redis' = Incremented(d, use[s][d]) /\ (ok <=> redis[d] # Absent)
                \/ UNCHANGED redis /\ ok = FALSE
  BY <1>1, <1>2, <1>4, AppliedStep
<1>5. QED
  BY <1>1, <1>3, <1>4 DEF Inc

-----------------------------------------------------------------------------
(* The environment                                                         *)

LEMMA DeleteStep ==
  ASSUME IInv, Delete
  PROVE  IInv'
<1>1. /\ alive' = FALSE /\ row' = FALSE /\ db' = Zero /\ sound' = FALSE
      /\ UNCHANGED <<redis, pc, val, use, resent, started, unapplied, adds, overlap, drift, quiet,
                     overrun>>
  BY DEF Delete
<1>2. TypeOK'
  BY <1>1, Usage DEF IInv, TypeOK
<1>3. PendingInv'
  BY <1>1, PendingFrame DEF IInv
<1>4. CounterTracksTable' /\ FillInv' /\ SoundInv' /\ AdmitInv' /\ TicketInv'
  BY <1>1 DEF CounterTracksTable, FillInv, SoundInv, AdmitInv, TicketInv
<1>5. QED
  BY <1>2, <1>3, <1>4 DEF IInv

LEMMA LossStep ==
  ASSUME IInv, NEW d \in Dims, RedisLoses(d)
  PROVE  IInv'
<1>1. /\ redis' = [redis EXCEPT ![d] = Absent] /\ drift' = drift \ {d}
      /\ UNCHANGED <<alive, row, db, pc, val, use, resent, started, unapplied, adds, overlap,
                     sound, quiet, overrun>>
  BY DEF RedisLoses
<1>2. TypeOK'
  BY <1>1 DEF IInv, TypeOK
<1>3. PendingInv'
  BY <1>1, PendingFrame DEF IInv
<1>4. CounterTracksTable'
  <2>1. redis'[d] = Absent
    BY <1>1 DEF IInv, TypeOK
  <2>2. \A e \in Dims \ {d} : redis'[e] = redis[e] /\ (e \in drift' <=> e \in drift)
    BY <1>1 DEF IInv, TypeOK
  <2>3. QED
    BY <1>1, <2>1, <2>2 DEF IInv, CounterTracksTable
<1>5. FillInv'
  BY <1>1 DEF IInv, FillInv, Filling
<1>6. SoundInv' /\ AdmitInv'
  BY <1>1 DEF IInv, SoundInv, AdmitInv, Tickets
<1>7. TicketInv'
  <2>1. Tickets' = Tickets
    BY <1>1 DEF Tickets
  <2>2. QED
    BY <1>1, <2>1 DEF IInv, TicketInv
<1>8. QED
  BY <1>2, <1>3, <1>4, <1>5, <1>6, <1>7 DEF IInv

-----------------------------------------------------------------------------
LEMMA StutterStep ==
  ASSUME IInv, UNCHANGED vars
  PROVE  IInv'
<1>1. UNCHANGED <<alive, row, db, redis, pc, val, use, resent, started, unapplied, adds, overlap,
                  drift, sound, quiet, overrun>>
  BY DEF vars
<1>2. TypeOK'
  BY <1>1 DEF IInv, TypeOK
<1>3. PendingInv'
  BY <1>1, PendingFrame DEF IInv
<1>4. CounterTracksTable' /\ SoundInv'
  BY <1>1 DEF IInv, CounterTracksTable, SoundInv
<1>5. FillInv' /\ AdmitInv'
  BY <1>1 DEF IInv, FillInv, Filling, AdmitInv, Tickets
<1>6. TicketInv'
  <2>1. Tickets' = Tickets
    BY <1>1 DEF Tickets
  <2>2. QED
    BY <1>1, <2>1 DEF IInv, TicketInv
<1>7. QED
  BY <1>2, <1>3, <1>4, <1>5, <1>6 DEF IInv

LEMMA NextIInv == IInv /\ [Next]_vars => IInv'
<1> SUFFICES ASSUME IInv, [Next]_vars
             PROVE  IInv'
  OBVIOUS
<1>1. CASE UNCHANGED vars
  BY <1>1, StutterStep
<1>2. ASSUME NEW s \in Slots,
             Begin(s) \/ GetTok(s) \/ GetCost(s) \/ Select(s) \/ SetTok(s) \/ SetCost(s) \/ Decide(s)
      PROVE  IInv'
  BY <1>2, CheckStep
<1>3. ASSUME NEW s \in Slots, NEW u \in Usages \cup {Zero}, Upstream(s, u)
      PROVE  IInv'
  BY <1>3, UpstreamStep
<1>4. ASSUME NEW s \in Slots, Upsert(s)
      PROVE  IInv'
  BY <1>4, UpsertStep
<1>5. ASSUME NEW s \in Slots, IncTok(s) \/ IncCost(s)
      PROVE  IInv'
  BY <1>5, IncStep
<1>6. CASE Delete
  BY <1>6, DeleteStep
<1>7. ASSUME NEW d \in Dims, RedisLoses(d)
      PROVE  IInv'
  BY <1>7, LossStep
<1>8. QED
  BY <1>1, <1>2, <1>3, <1>4, <1>5, <1>6, <1>7, Zenon DEF Next

(***************************************************************************)
(* The inductive invariant holds in every reachable state.                 *)
(***************************************************************************)
THEOREM Invariance == Spec => []IInv
  BY InitIInv, NextIInv, PTL DEF Spec

(***************************************************************************)
(* No total, no counter and no usage on its way is ever negative, and a    *)
(* counter is absent or a number.                                          *)
(***************************************************************************)
THEOREM TypeCorrect == Spec => []TypeOK
<1>1. IInv => TypeOK
  BY DEF IInv
<1>2. QED
  BY <1>1, Invariance, PTL

(***************************************************************************)
(* quotaTotals' read-through fill and AddUsage's increments: a counter     *)
(* that no overlapping fill, no start from zero, no lost and no repeated   *)
(* increment has touched is the table's total but for what is on its way   *)
(* to it and, for a cost, the rounding of the fill and of every request    *)
(* since.                                                                  *)
(***************************************************************************)
THEOREM CountersTrack == Spec => []CounterTracksTable
<1>1. IInv => CounterTracksTable
  BY DEF IInv
<1>2. QED
  BY <1>1, Invariance, PTL

(***************************************************************************)
(* AllowQuota checks before the request and AddUsage adds after it: with   *)
(* sound counters the token quota is overrun by at most one largest        *)
(* response for each goroutine, for any number of goroutines and requests. *)
(***************************************************************************)
THEOREM OverrunIsBounded == Spec => []OverrunBounded
<1>1. ASSUME IInv
      PROVE  OverrunBounded
  <2> SUFFICES ASSUME TokenQuota # NoQuota, sound
               PROVE  db["tok"] <= TokenQuota - 1 + Cardinality(Slots) * MaxUse
    BY DEF OverrunBounded
  <2>1. sound = TRUE
    BY <1>1 DEF IInv, TypeOK
  <2>2. db["tok"] + Cardinality(Tickets) * MaxUse
          <= TokenQuota - 1 + Cardinality(Slots) * MaxUse
    BY <1>1, <2>1 DEF IInv, TicketInv
  <2>3. Tickets \in SUBSET Slots
    BY DEF Tickets
  <2>4. Cardinality(Tickets) \in Nat /\ Cardinality(Slots) \in Nat
    BY <2>3, QuotaAssumption, FS_Subset, FS_CardinalityType
  <2>5. Cardinality(Tickets) * MaxUse \in Nat /\ Cardinality(Slots) * MaxUse \in Nat
    BY <2>4, Times, Usage
  <2>6. db["tok"] \in Nat /\ TokenQuota \in Nat
    BY <1>1, QuotaAssumption DEF IInv, TypeOK, Dims
  <2>7. QED
    BY <2>2, <2>5, <2>6
<1>2. QED
  BY <1>1, Invariance, PTL

==============================================================================
