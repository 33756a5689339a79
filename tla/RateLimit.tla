----------------------------- MODULE RateLimit -----------------------------
(***************************************************************************)
(* The per-minute request limit of one key (AllowRate in                   *)
(* internal/keys/keys.go, called by checkLimits in internal/proxy).        *)
(*                                                                         *)
(* A request takes the number of the current minute from its replica's     *)
(* clock, then increments the Redis counter of that minute and extends its *)
(* expiry in one MULTI/EXEC.  Between the two the request may wait for a   *)
(* connection or for Redis, and replicas' clocks differ.  limit <= 0 is    *)
(* admitted without touching any state and is left out.                    *)
(***************************************************************************)
EXTENDS Integers

CONSTANTS
  Requests,   \* goroutines serving a request of the key, on any replica
  Limit,      \* the key's rpm_limit
  Minute,     \* length of a bucket: 60 s
  Expire,     \* expiry given to the counter: 70 s
  MaxDelay,   \* longest time from reading the clock to the EXEC
  MaxSkew,    \* how far a replica's clock may be off
  Buckets,    \* minutes observed
  MaxTime,    \* bound: clock
  MaxReq      \* bound: requests per bucket, and answers lost per bucket

ASSUME RateAssumption ==
  /\ Limit \in Nat \ {0}
  /\ Minute \in Nat /\ Expire \in Nat \ {0}
  /\ MaxDelay \in Nat /\ MaxSkew \in Nat
  /\ Buckets \subseteq Nat
  /\ MaxTime \in Nat /\ MaxReq \in Nat

\* The margin of the expiry (70 s - 60 s) covers the delay and both clocks.
MarginSuffices == MaxDelay + 2 * MaxSkew <= Expire - Minute

VARIABLES
  now,         \* true time
  count,       \* rl:<key>:<bucket>, 0 when the Redis key is absent
  expires,     \* when that Redis key expires
  pending,     \* requests between reading the clock and the EXEC
  stamped,     \* history: requests that took the bucket's number
  admitted,    \* history: AllowRate returned true
  rejected,    \* history: AllowRate returned false
  unanswered,  \* history: increments whose answer was lost
  lost         \* history: buckets whose counter Redis has lost

vars == <<now, count, expires, pending, stamped, admitted, rejected,
          unanswered, lost>>

Pending == [req : Requests, bucket : Buckets, at : Nat]

Start(b) == b * Minute

(***************************************************************************)
(* The shape of the state.  A counter that has not expired expires later;  *)
(* a request waits for Redis for at most MaxDelay.                         *)
(***************************************************************************)
TypeOK ==
  /\ now \in Nat
  /\ count \in [Buckets -> Nat]
  /\ expires \in [Buckets -> Nat]
  /\ pending \subseteq Pending
  /\ stamped \in [Buckets -> Nat]
  /\ admitted \in [Buckets -> Nat]
  /\ rejected \in [Buckets -> Nat]
  /\ unanswered \in [Buckets -> Nat]
  /\ lost \subseteq Buckets
  /\ \A b \in Buckets : count[b] > 0 => now < expires[b]
  /\ \A p \in pending : p.at <= now /\ now <= p.at + MaxDelay

Init ==
  /\ now = 0
  /\ count = [b \in Buckets |-> 0]
  /\ expires = [b \in Buckets |-> 0]
  /\ pending = {}
  /\ stamped = [b \in Buckets |-> 0]
  /\ admitted = [b \in Buckets |-> 0]
  /\ rejected = [b \in Buckets |-> 0]
  /\ unanswered = [b \in Buckets |-> 0]
  /\ lost = {}

\* bucket := time.Now().UTC().Unix() / 60, with a clock that is skew off.
AllowRate(r, b, skew) ==
  /\ \A p \in pending : p.req # r
  /\ Start(b) <= now + skew
  /\ now + skew < Start(b) + Minute
  /\ stamped[b] < MaxReq
  /\ stamped' = [stamped EXCEPT ![b] = @ + 1]
  /\ pending' = pending \cup {[req |-> r, bucket |-> b, at |-> now]}
  /\ UNCHANGED <<now, count, expires, admitted, rejected, unanswered, lost>>

\* Mutated form: the counter expires with the minute.
IncrExpireMinute(b) ==
  /\ count' = [count EXCEPT ![b] = @ + 1]
  /\ expires' = [expires EXCEPT ![b] = now + Minute]

\* Mutated form: INCR without EXPIRE.
IncrNoExpire(b) ==
  /\ count' = [count EXCEPT ![b] = @ + 1]
  /\ UNCHANGED expires

\* INCR and EXPIRE in one MULTI/EXEC.
IncrExpire(b) ==
  /\ count' = [count EXCEPT ![b] = @ + 1]
  /\ expires' = [expires EXCEPT ![b] = now + Expire]

\* Mutated form: the request that reaches the limit is refused.
WithinBelow(n) == n < Limit

Within(n) == n <= Limit

\* EXEC answers and the count decides.
Exec(p) ==
  /\ IncrExpire(p.bucket)
  /\ \/ /\ Within(count[p.bucket] + 1)
        /\ admitted' = [admitted EXCEPT ![p.bucket] = @ + 1]
        /\ UNCHANGED rejected
     \/ /\ ~Within(count[p.bucket] + 1)
        /\ rejected' = [rejected EXCEPT ![p.bucket] = @ + 1]
        /\ UNCHANGED admitted
  /\ pending' = pending \ {p}
  /\ UNCHANGED <<now, stamped, unanswered, lost>>

\* EXEC takes effect but its answer is lost.  The client library sends it
\* again, or AllowRate returns the error and checkLimits lets the request in.
ExecUnanswered(p) ==
  /\ unanswered[p.bucket] < MaxReq
  /\ IncrExpire(p.bucket)
  /\ unanswered' = [unanswered EXCEPT ![p.bucket] = @ + 1]
  /\ pending' \in {pending, pending \ {p}}
  /\ UNCHANGED <<now, stamped, admitted, rejected, lost>>

\* Redis is not reached: checkLimits logs the error and lets the request in;
\* or the client goes away.
ExecFails(p) ==
  /\ pending' = pending \ {p}
  /\ UNCHANGED <<now, count, expires, stamped, admitted, rejected, unanswered,
                 lost>>

\* Redis restarts empty or evicts the counter.
RedisLoses(b) ==
  /\ count[b] > 0
  /\ count' = [count EXCEPT ![b] = 0]
  /\ lost' = lost \cup {b}
  /\ UNCHANGED <<now, expires, pending, stamped, admitted, rejected,
                 unanswered>>

\* Time passes and Redis drops counters that have expired.
Tick ==
  /\ now < MaxTime
  /\ \A p \in pending : now < p.at + MaxDelay
  /\ now' = now + 1
  /\ count' = [b \in Buckets |-> IF expires[b] <= now + 1 THEN 0 ELSE count[b]]
  /\ UNCHANGED <<expires, pending, stamped, admitted, rejected, unanswered,
                 lost>>

Next ==
  \/ \E r \in Requests, b \in Buckets, skew \in -MaxSkew .. MaxSkew :
       AllowRate(r, b, skew)
  \/ \E p \in pending : Exec(p) \/ ExecUnanswered(p) \/ ExecFails(p)
  \/ \E b \in Buckets : RedisLoses(b)
  \/ Tick

Spec == Init /\ [][Next]_vars

----------------------------------------------------------------------------
(* Properties                                                              *)

(***************************************************************************)
(* AllowRate never says yes more than Limit times for one minute, however  *)
(* its requests are delayed and however the clocks of the replicas differ, *)
(* as long as the expiry's margin covers both and Redis keeps its counter: *)
(* no late request finds its counter already gone and starts a new one.    *)
(***************************************************************************)
LimitHolds ==
  MarginSuffices =>
    \A b \in Buckets \ lost : admitted[b] <= Limit

(***************************************************************************)
(* A request is refused only after the limit has been used up: Limit       *)
(* increments of its minute admitted a request or had their answer lost.   *)
(* Refused requests also increment the counter, which must not cost others *)
(* their share.                                                            *)
(***************************************************************************)
FullLimitGranted ==
  \A b \in Buckets :
    rejected[b] > 0 => admitted[b] + unanswered[b] >= Limit

============================================================================
