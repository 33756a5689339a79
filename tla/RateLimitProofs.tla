-------------------------- MODULE RateLimitProofs --------------------------
(***************************************************************************)
(* Proofs about RateLimit, for any limit, minute, expiry, delay and skew.  *)
(* The invariant behind LimitHolds says when a counter may be gone: only   *)
(* when no request of its minute has been admitted, or when it is too late *)
(* for any request of that minute to reach Redis.                          *)
(***************************************************************************)
EXTENDS RateLimit, TLAPS

\* No request of minute b can be under way or start any more.
Over(b) == now + MaxSkew >= Start(b) + Expire

\* A waiting request read a clock that showed its minute.
StampsInv ==
  \A p \in pending :
    /\ Start(p.bucket) <= p.at + MaxSkew
    /\ p.at - MaxSkew < Start(p.bucket) + Minute

\* A live counter counts every admission and outlives its minute.
CountersInv ==
  \A b \in Buckets :
    /\ count[b] > 0 => expires[b] + MaxSkew >= Start(b) + Expire
    /\ b \notin lost =>
         /\ count[b] > 0 => admitted[b] <= count[b]
         /\ count[b] = 0 => admitted[b] = 0 \/ Over(b)

LimitInv == \A b \in Buckets \ lost : admitted[b] <= Limit

\* Until a request is refused, every increment admitted one or went lost.
SharesInv ==
  \A b \in Buckets :
    /\ rejected[b] = 0 => count[b] <= admitted[b] + unanswered[b]
    /\ rejected[b] > 0 => admitted[b] + unanswered[b] >= Limit

IInv == /\ TypeOK /\ StampsInv /\ SharesInv
        /\ MarginSuffices => CountersInv /\ LimitInv

----------------------------------------------------------------------------
\* Adding one to a counter.
LEMMA Increment ==
  ASSUME NEW f \in [Buckets -> Nat], NEW b \in Buckets
  PROVE  [f EXCEPT ![b] = @ + 1] \in [Buckets -> Nat]
  OBVIOUS

\* INCR and EXPIRE keep the counters' shape.
LEMMA IncrExpireType ==
  ASSUME count \in [Buckets -> Nat], expires \in [Buckets -> Nat], now \in Nat,
         NEW b \in Buckets, IncrExpire(b)
  PROVE  /\ count' \in [Buckets -> Nat] /\ expires' \in [Buckets -> Nat]
         /\ \A c \in Buckets : \/ count'[c] = count[c] /\ expires'[c] = expires[c]
                               \/ expires'[c] = now + Expire
<1>1. count' \in [Buckets -> Nat]
  BY Increment DEF IncrExpire
<1>2. expires' \in [Buckets -> Nat]
  BY RateAssumption DEF IncrExpire
<1>3. QED
  BY <1>1, <1>2 DEF IncrExpire

\* Every step keeps the shape of the state.
LEMMA TypeStep ==
  ASSUME TypeOK, [Next]_vars
  PROVE  TypeOK'
<1> USE RateAssumption
<1>1. ASSUME NEW r \in Requests, NEW b \in Buckets, NEW skew \in -MaxSkew .. MaxSkew,
             AllowRate(r, b, skew)
      PROVE  TypeOK'
  BY <1>1 DEF TypeOK, Pending, AllowRate
<1>2. ASSUME NEW p \in pending, Exec(p)
      PROVE  TypeOK'
  <2>1. p.bucket \in Buckets
    BY DEF TypeOK, Pending
  <2>2. /\ count' \in [Buckets -> Nat] /\ expires' \in [Buckets -> Nat]
        /\ \A b \in Buckets : \/ count'[b] = count[b] /\ expires'[b] = expires[b]
                              \/ expires'[b] = now + Expire
    BY <1>2, <2>1, IncrExpireType DEF TypeOK, Exec
  <2>3. admitted' \in [Buckets -> Nat] /\ rejected' \in [Buckets -> Nat]
    BY <1>2, <2>1, Increment DEF TypeOK, Exec
  <2>4. QED
    BY <1>2, <2>2, <2>3 DEF TypeOK, Exec
<1>3. ASSUME NEW p \in pending, ExecUnanswered(p)
      PROVE  TypeOK'
  <2>1. p.bucket \in Buckets
    BY DEF TypeOK, Pending
  <2>2. /\ count' \in [Buckets -> Nat] /\ expires' \in [Buckets -> Nat]
        /\ \A b \in Buckets : \/ count'[b] = count[b] /\ expires'[b] = expires[b]
                              \/ expires'[b] = now + Expire
    BY <1>3, <2>1, IncrExpireType DEF TypeOK, ExecUnanswered
  <2>3. unanswered' \in [Buckets -> Nat]
    BY <1>3, <2>1, Increment DEF TypeOK, ExecUnanswered
  <2>4. QED
    BY <1>3, <2>2, <2>3 DEF TypeOK, ExecUnanswered
<1>4. ASSUME NEW p \in pending, ExecFails(p)
      PROVE  TypeOK'
  BY <1>4 DEF TypeOK, Pending, ExecFails
<1>5. ASSUME NEW b \in Buckets, RedisLoses(b)
      PROVE  TypeOK'
  BY <1>5 DEF TypeOK, Pending, RedisLoses
<1>6. ASSUME Tick
      PROVE  TypeOK'
  BY <1>6 DEF TypeOK, Pending, Tick
<1>7. CASE UNCHANGED vars
  BY <1>7 DEF TypeOK, Pending, vars
<1>8. QED
  BY <1>1, <1>2, <1>3, <1>4, <1>5, <1>6, <1>7 DEF Next

\* The stamp of a waiting request does not change.
LEMMA StampsStep ==
  ASSUME TypeOK, StampsInv, [Next]_vars
  PROVE  StampsInv'
<1> USE RateAssumption
<1>1. ASSUME NEW r \in Requests, NEW b \in Buckets, NEW skew \in -MaxSkew .. MaxSkew,
             AllowRate(r, b, skew)
      PROVE  StampsInv'
  <2> DEFINE new == [req |-> r, bucket |-> b, at |-> now]
  <2>1. Start(b) <= now + MaxSkew /\ now - MaxSkew < Start(b) + Minute
    <3>1. Start(b) \in Nat
      BY DEF Start
    <3>2. QED
      BY <1>1, <3>1 DEF AllowRate, TypeOK
  <2>2. pending' = pending \cup {new} /\ new.bucket = b /\ new.at = now
    BY <1>1 DEF AllowRate
  <2> HIDE DEF new
  <2>3. QED
    BY <2>1, <2>2 DEF StampsInv, Start
<1>2. ASSUME NEW p \in pending, Exec(p)
      PROVE  StampsInv'
  BY <1>2 DEF StampsInv, Start, Exec
<1>3. ASSUME NEW p \in pending, ExecUnanswered(p)
      PROVE  StampsInv'
  BY <1>3 DEF StampsInv, Start, ExecUnanswered
<1>4. ASSUME NEW p \in pending, ExecFails(p)
      PROVE  StampsInv'
  BY <1>4 DEF StampsInv, Start, ExecFails
<1>5. ASSUME NEW b \in Buckets, RedisLoses(b)
      PROVE  StampsInv'
  BY <1>5 DEF StampsInv, Start, RedisLoses
<1>6. ASSUME Tick
      PROVE  StampsInv'
  BY <1>6 DEF StampsInv, Start, Tick
<1>7. CASE UNCHANGED vars
  BY <1>7 DEF StampsInv, Start, vars
<1>8. QED
  BY <1>1, <1>2, <1>3, <1>4, <1>5, <1>6, <1>7 DEF Next

\* A refusal follows Limit increments that were not refusals.
LEMMA SharesStep ==
  ASSUME TypeOK, SharesInv, [Next]_vars
  PROVE  SharesInv'
<1> USE RateAssumption
<1>1. ASSUME NEW r \in Requests, NEW b \in Buckets, NEW skew \in -MaxSkew .. MaxSkew,
             AllowRate(r, b, skew)
      PROVE  SharesInv'
  BY <1>1 DEF SharesInv, TypeOK, Pending, AllowRate
<1>2. ASSUME NEW p \in pending, Exec(p)
      PROVE  SharesInv'
  BY <1>2 DEF SharesInv, TypeOK, Pending, Exec, IncrExpire, Within
<1>3. ASSUME NEW p \in pending, ExecUnanswered(p)
      PROVE  SharesInv'
  BY <1>3 DEF SharesInv, TypeOK, Pending, ExecUnanswered, IncrExpire
<1>4. ASSUME NEW p \in pending, ExecFails(p)
      PROVE  SharesInv'
  BY <1>4 DEF SharesInv, TypeOK, Pending, ExecFails
<1>5. ASSUME NEW b \in Buckets, RedisLoses(b)
      PROVE  SharesInv'
  BY <1>5 DEF SharesInv, TypeOK, Pending, RedisLoses
<1>6. ASSUME Tick
      PROVE  SharesInv'
  BY <1>6 DEF SharesInv, TypeOK, Pending, Tick
<1>7. CASE UNCHANGED vars
  BY <1>7 DEF SharesInv, TypeOK, Pending, vars
<1>8. QED
  BY <1>1, <1>2, <1>3, <1>4, <1>5, <1>6, <1>7 DEF Next

\* A request that is waiting, or reads the clock now, is not too late.
LEMMA NotOver ==
  ASSUME TypeOK, StampsInv, MarginSuffices, NEW p \in pending
  PROVE  /\ p.bucket \in Buckets /\ Start(p.bucket) \in Nat
         /\ ~Over(p.bucket)
         /\ Start(p.bucket) <= now + MaxSkew
<1>1. p.bucket \in Buckets /\ p.bucket \in Nat /\ p.at \in Nat
  BY RateAssumption DEF TypeOK, Pending
<1>2. Start(p.bucket) \in Nat
  BY <1>1, RateAssumption DEF Start
<1>3. /\ Start(p.bucket) <= p.at + MaxSkew
      /\ p.at - MaxSkew < Start(p.bucket) + Minute
      /\ p.at <= now /\ now <= p.at + MaxDelay
  BY DEF StampsInv, TypeOK
<1>4. QED
  BY <1>1, <1>2, <1>3, RateAssumption DEF MarginSuffices, Over, TypeOK

\* An increment of a minute that is not over, whatever its answer.
LEMMA IncrementKeepsCounters ==
  ASSUME TypeOK, StampsInv, MarginSuffices, CountersInv,
         NEW p \in pending, IncrExpire(p.bucket), UNCHANGED <<now, lost>>,
         \A b \in Buckets : b # p.bucket => admitted'[b] = admitted[b],
         admitted'[p.bucket] \in {admitted[p.bucket], admitted[p.bucket] + 1}
  PROVE  CountersInv'
<1> USE RateAssumption
<1>1. p.bucket \in Buckets /\ Start(p.bucket) \in Nat /\ ~Over(p.bucket)
      /\ Start(p.bucket) <= now + MaxSkew
  BY NotOver
<1>2. /\ count'[p.bucket] = count[p.bucket] + 1
      /\ expires'[p.bucket] = now + Expire
      /\ \A b \in Buckets : b # p.bucket =>
           count'[b] = count[b] /\ expires'[b] = expires[b]
  BY <1>1 DEF IncrExpire, TypeOK
<1> DEFINE n == count[p.bucket]
           m == admitted[p.bucket]
<1>3. /\ n \in Nat /\ m \in Nat
      /\ p.bucket \notin lost => m <= n
  <2>1. n \in Nat /\ m \in Nat
    BY <1>1 DEF TypeOK
  <2>2. p.bucket \notin lost => (n > 0 => m <= n) /\ (n = 0 => m = 0)
    BY <1>1 DEF CountersInv
  <2> HIDE DEF n, m
  <2>3. QED
    BY <2>1, <2>2
<1>4. expires'[p.bucket] + MaxSkew >= Start(p.bucket) + Expire
  BY <1>1, <1>2 DEF TypeOK
<1>5. p.bucket \notin lost => admitted'[p.bucket] <= count'[p.bucket]
  <2>1. count'[p.bucket] = n + 1 /\ admitted'[p.bucket] \in {m, m + 1}
    BY <1>2
  <2> HIDE DEF n, m
  <2>2. QED
    BY <1>3, <2>1
<1>6. count'[p.bucket] > 0
  <2>1. count'[p.bucket] = n + 1
    BY <1>2
  <2> HIDE DEF n, m
  <2>2. QED
    BY <1>3, <2>1
<1>7. \A b \in Buckets : Over(b)' <=> Over(b)
  BY DEF Over, Start
<1>8. ASSUME NEW b \in Buckets
      PROVE  /\ count'[b] > 0 => expires'[b] + MaxSkew >= Start(b) + Expire
             /\ b \notin lost =>
                  /\ count'[b] > 0 => admitted'[b] <= count'[b]
                  /\ count'[b] = 0 => admitted'[b] = 0 \/ Over(b)'
  <2>1. CASE b = p.bucket
    BY <1>1, <1>2, <1>4, <1>5, <1>6, <2>1 DEF TypeOK
  <2>2. CASE b # p.bucket
    BY <1>2, <1>7, <2>2 DEF CountersInv
  <2>3. QED
    BY <2>1, <2>2
<1>9. QED
  BY <1>8 DEF CountersInv, Start

\* A counter goes only when its minute is over, or Redis loses it.
LEMMA CountersStep ==
  ASSUME TypeOK, StampsInv, MarginSuffices, CountersInv, [Next]_vars
  PROVE  CountersInv'
<1> USE RateAssumption
<1>1. ASSUME NEW r \in Requests, NEW b \in Buckets, NEW skew \in -MaxSkew .. MaxSkew,
             AllowRate(r, b, skew)
      PROVE  CountersInv'
  BY <1>1 DEF CountersInv, Over, Start, TypeOK, AllowRate
<1>2. ASSUME NEW p \in pending, Exec(p)
      PROVE  CountersInv'
  <2>1. p.bucket \in Buckets
    BY DEF TypeOK, Pending
  <2>2. /\ \A b \in Buckets : b # p.bucket => admitted'[b] = admitted[b]
        /\ admitted'[p.bucket] \in {admitted[p.bucket], admitted[p.bucket] + 1}
    BY <1>2, <2>1 DEF Exec, TypeOK
  <2>3. QED
    BY <1>2, <2>2, IncrementKeepsCounters DEF Exec
<1>3. ASSUME NEW p \in pending, ExecUnanswered(p)
      PROVE  CountersInv'
  BY <1>3, IncrementKeepsCounters DEF ExecUnanswered
<1>4. ASSUME NEW p \in pending, ExecFails(p)
      PROVE  CountersInv'
  BY <1>4 DEF CountersInv, Over, Start, TypeOK, ExecFails
<1>5. ASSUME NEW b \in Buckets, RedisLoses(b)
      PROVE  CountersInv'
  BY <1>5 DEF CountersInv, Over, Start, TypeOK, RedisLoses
<1>6. ASSUME Tick
      PROVE  CountersInv'
  <2>1. ASSUME NEW b \in Buckets
        PROVE  /\ count'[b] > 0 => expires[b] + MaxSkew >= Start(b) + Expire
               /\ b \notin lost =>
                    /\ count'[b] > 0 => admitted[b] <= count'[b]
                    /\ count'[b] = 0 => admitted[b] = 0 \/ Over(b)'
    <3>1. Start(b) \in Nat
      BY DEF Start
    <3>2. Over(b)' <=> now + 1 + MaxSkew >= Start(b) + Expire
      BY <1>6 DEF Tick, Over, Start
    <3>3. CASE count[b] = 0
      BY <1>6, <3>1, <3>2, <3>3 DEF Tick, CountersInv, Over, TypeOK
    <3>4. CASE count[b] > 0 /\ expires[b] <= now + 1
      BY <1>6, <3>1, <3>2, <3>4 DEF Tick, CountersInv, TypeOK
    <3>5. CASE count[b] > 0 /\ ~(expires[b] <= now + 1)
      BY <1>6, <3>5 DEF Tick, CountersInv, TypeOK
    <3>6. QED
      BY <3>3, <3>4, <3>5 DEF TypeOK
  <2>2. QED
    BY <1>6, <2>1 DEF Tick, CountersInv, Start
<1>7. CASE UNCHANGED vars
  BY <1>7 DEF CountersInv, Over, Start, TypeOK, vars
<1>8. QED
  BY <1>1, <1>2, <1>3, <1>4, <1>5, <1>6, <1>7 DEF Next

\* The counter's verdict keeps the admissions within the limit.
LEMMA LimitStep ==
  ASSUME TypeOK, StampsInv, MarginSuffices, CountersInv, LimitInv, [Next]_vars
  PROVE  LimitInv'
<1> USE RateAssumption
<1>1. ASSUME NEW r \in Requests, NEW b \in Buckets, NEW skew \in -MaxSkew .. MaxSkew,
             AllowRate(r, b, skew)
      PROVE  LimitInv'
  BY <1>1 DEF LimitInv, AllowRate
<1>2. ASSUME NEW p \in pending, Exec(p)
      PROVE  LimitInv'
  <2>1. p.bucket \in Buckets
    BY DEF TypeOK, Pending
  <2>2. p.bucket \notin lost => admitted[p.bucket] <= count[p.bucket]
    <3>1. count[p.bucket] \in Nat /\ admitted[p.bucket] \in Nat
      BY <2>1 DEF TypeOK
    <3>2. p.bucket \notin lost =>
            /\ count[p.bucket] > 0 => admitted[p.bucket] <= count[p.bucket]
            /\ count[p.bucket] = 0 => admitted[p.bucket] = 0
      BY <2>1, NotOver DEF CountersInv
    <3>3. QED
      BY <3>1, <3>2
  <2>3. QED
    BY <1>2, <2>1, <2>2 DEF LimitInv, Exec, Within, TypeOK
<1>3. ASSUME NEW p \in pending, ExecUnanswered(p)
      PROVE  LimitInv'
  BY <1>3 DEF LimitInv, ExecUnanswered
<1>4. ASSUME NEW p \in pending, ExecFails(p)
      PROVE  LimitInv'
  BY <1>4 DEF LimitInv, ExecFails
<1>5. ASSUME NEW b \in Buckets, RedisLoses(b)
      PROVE  LimitInv'
  BY <1>5 DEF LimitInv, RedisLoses
<1>6. ASSUME Tick
      PROVE  LimitInv'
  BY <1>6 DEF LimitInv, Tick
<1>7. CASE UNCHANGED vars
  BY <1>7 DEF LimitInv, vars
<1>8. QED
  BY <1>1, <1>2, <1>3, <1>4, <1>5, <1>6, <1>7 DEF Next

LEMMA InitIInv == Init => IInv
  BY RateAssumption
     DEF Init, IInv, TypeOK, StampsInv, SharesInv, CountersInv, LimitInv

LEMMA NextIInv == IInv /\ [Next]_vars => IInv'
<1> SUFFICES ASSUME IInv, [Next]_vars PROVE IInv'
  OBVIOUS
<1>1. TypeOK' /\ StampsInv' /\ SharesInv'
  BY TypeStep, StampsStep, SharesStep DEF IInv
<1>2. MarginSuffices => CountersInv' /\ LimitInv'
  BY CountersStep, LimitStep DEF IInv
<1>3. QED
  BY <1>1, <1>2 DEF IInv, MarginSuffices

(***************************************************************************)
(* The inductive invariant holds of every behaviour.                       *)
(***************************************************************************)
THEOREM Invariance == Spec => []IInv
  BY InitIInv, NextIInv, PTL DEF Spec

(***************************************************************************)
(* The state keeps its shape; no live counter is past its expiry.          *)
(***************************************************************************)
THEOREM TypeCorrect == Spec => []TypeOK
  BY Invariance, PTL DEF IInv

(***************************************************************************)
(* AllowRate admits at most Limit requests per minute whenever the margin  *)
(* of the counter's expiry covers the delay to Redis and the clock skew,   *)
(* for every length of minute, expiry, delay and skew.                     *)
(***************************************************************************)
THEOREM RateIsLimited == Spec => []LimitHolds
<1>1. IInv => LimitHolds
  BY DEF IInv, LimitInv, LimitHolds
<1>2. QED
  BY <1>1, Invariance, PTL

(***************************************************************************)
(* No request is refused before the limit of its minute is used up.        *)
(***************************************************************************)
THEOREM LimitIsGranted == Spec => []FullLimitGranted
<1>1. IInv => FullLimitGranted
  BY DEF IInv, SharesInv, FullLimitGranted
<1>2. QED
  BY <1>1, Invariance, PTL
============================================================================
