---------------------------- MODULE QuotaTotals ----------------------------
(***************************************************************************)
(* The token and dollar quotas of one key (AllowQuota, quotaTotals and     *)
(* AddUsage in internal/keys/keys.go, called by the proxy before and after *)
(* the upstream request): the key's quota_totals row in Postgres and the   *)
(* counters qt:tok and qt:cost in Redis, which have no expiry.             *)
(*                                                                         *)
(* Every Redis and Postgres call of the three functions is a step of its   *)
(* own.  The quotas do not change (Verify's cache, which may serve older   *)
(* ones for a while, is the subject of VerifyCache).  Costs are whole      *)
(* numbers of a unit finer than what the table keeps of them; the errors   *)
(* of float64 arithmetic itself are left out.                              *)
(***************************************************************************)
EXTENDS Integers, FiniteSets

CONSTANTS
  Slots,        \* goroutines serving a request of the key, on any replica
  Usages,       \* what a response may cost: records of tok and cost
  TokenQuota,   \* token_quota, NoQuota for NULL
  DollarQuota,  \* dollar_quota, NoQuota for NULL
  Unit,         \* what NUMERIC(14,8) keeps of a cost: a multiple of this
  Grain,        \* what "%f" keeps of a cost: a multiple of this
  Faults,       \* whether Redis and Postgres may fail
  MaxRetries,   \* how often go-redis sends a command again
  MaxRequests   \* bound: requests

NoQuota == -1
Absent  == -1

Dims == {"tok", "cost"}

\* There is a largest response, and it has tokens.
ASSUME QuotaAssumption ==
  /\ IsFiniteSet(Slots) /\ Slots # {}
  /\ Usages \subseteq [Dims -> Nat]
  /\ \E u \in Usages : u["tok"] > 0 /\ \A v \in Usages : v["tok"] <= u["tok"]
  /\ TokenQuota \in Nat \cup {NoQuota}
  /\ DollarQuota \in Nat \cup {NoQuota}
  /\ Unit \in Nat \ {0}
  /\ Grain \in Nat \ {0}
  /\ Faults \in BOOLEAN
  /\ MaxRetries \in Nat
  /\ MaxRequests \in Nat

Zero == [d \in Dims |-> 0]

VARIABLES
  alive,      \* the api_keys row exists
  row,        \* the quota_totals row exists
  db,         \* its totals, zero while there is no row
  redis,      \* the counters
  pc,         \* where each request is
  val,        \* the totals a check has read
  use,        \* what a finished request used
  resent,     \* how often the present Redis command was sent again
  started,    \* number of requests so far
  unapplied,  \* history: usage in the table, its increment not answered yet
  adds,       \* history: costs added to the table since qt:cost was SET
  overlap,    \* history: checks whose fill overlaps an AddUsage
  drift,      \* history: counters that may differ from the table
  sound,      \* history: no counter ever drifted, no check was skipped
  quiet,      \* history: checks during which nobody else was at work
  overrun     \* history: a quiet check admitted a key over its quota

vars == <<alive, row, db, redis, pc, val, use, resent, started, unapplied,
          adds, overlap, drift, sound, quiet, overrun>>

Pcs == {"idle", "getTok", "getCost", "select", "setTok", "setCost", "decide",
        "upstream", "upsert", "incTok", "incCost"}

(***************************************************************************)
(* The shape of the state; no counter and no total is ever negative.       *)
(***************************************************************************)
TypeOK ==
  /\ alive \in BOOLEAN /\ row \in BOOLEAN
  /\ db \in [Dims -> Nat]
  /\ redis \in [Dims -> Nat \cup {Absent}]
  /\ pc \in [Slots -> Pcs]
  /\ val \in [Slots -> [Dims -> Nat]]
  /\ use \in [Slots -> Usages \cup {Zero}]
  /\ resent \in [Slots -> Nat]
  /\ started \in Nat
  /\ unapplied \in [Dims -> Nat]
  /\ adds \in Nat
  /\ overlap \in [Slots -> BOOLEAN]
  /\ drift \subseteq Dims
  /\ sound \in BOOLEAN
  /\ quiet \in [Slots -> BOOLEAN]
  /\ overrun \in BOOLEAN

\* Issue's second INSERT may have failed: its error is ignored.
Init ==
  /\ alive = TRUE
  /\ row \in {TRUE, ~Faults}
  /\ db = Zero
  /\ redis = [d \in Dims |-> Absent]
  /\ pc = [s \in Slots |-> "idle"]
  /\ val = [s \in Slots |-> Zero]
  /\ use = [s \in Slots |-> Zero]
  /\ resent = [s \in Slots |-> 0]
  /\ started = 0
  /\ unapplied = Zero
  /\ adds = 0
  /\ overlap = [s \in Slots |-> FALSE]
  /\ drift = {}
  /\ sound = TRUE
  /\ quiet = [s \in Slots |-> FALSE]
  /\ overrun = FALSE

Goto(s, l) ==
  /\ pc' = [pc EXCEPT ![s] = l]
  /\ resent' = [resent EXCEPT ![s] = 0]

\* The command took effect and its answer was lost: go-redis (v9, MaxRetries
\* left at its default) sends it again.
Resend(s) ==
  /\ Faults
  /\ resent[s] < MaxRetries
  /\ resent' = [resent EXCEPT ![s] = @ + 1]
  /\ UNCHANGED pc

Read(s, d, n) == val' = [val EXCEPT ![s][d] = n]

ghosts == <<unapplied, adds, overlap, drift, sound, quiet, overrun>>

----------------------------------------------------------------------------
(* AllowQuota and quotaTotals                                              *)

\* Both quotas NULL: no check at all.
Begin(s) ==
  /\ pc[s] = "idle"
  /\ started < MaxRequests
  /\ started' = started + 1
  /\ Goto(s, IF TokenQuota = NoQuota /\ DollarQuota = NoQuota
             THEN "upstream" ELSE "getTok")
  /\ quiet' = [t \in Slots |-> t = s /\ \A u \in Slots \ {s} : pc[u] = "idle"]
  /\ UNCHANGED <<alive, row, db, redis, val, use, unapplied, adds, overlap,
                 drift, sound, overrun>>

\* Mutated form: the answer of GET is used although there is no counter.
GetTokUnchecked(s) ==
  /\ pc[s] = "getTok"
  /\ Read(s, "tok", redis["tok"])
  /\ Goto(s, "getCost")
  /\ UNCHANGED <<alive, row, db, redis, use, started, ghosts>>

GetTok(s) ==
  /\ pc[s] = "getTok"
  /\ \/ /\ redis["tok"] # Absent
        /\ Read(s, "tok", redis["tok"])
        /\ Goto(s, "getCost")
     \/ /\ redis["tok"] = Absent \/ Faults
        /\ Goto(s, "select")
        /\ UNCHANGED val
  /\ UNCHANGED <<alive, row, db, redis, use, started, ghosts>>

GetCost(s) ==
  /\ pc[s] = "getCost"
  /\ \/ /\ redis["cost"] # Absent
        /\ Read(s, "cost", redis["cost"])
        /\ Goto(s, "decide")
     \/ /\ redis["cost"] = Absent \/ Faults
        /\ Goto(s, "select")
        /\ UNCHANGED val
  /\ UNCHANGED <<alive, row, db, redis, use, started, ghosts>>

\* History: some AddUsage is between its upsert and its last increment.
Adding == \E t \in Slots : pc[t] \in {"incTok", "incCost"}

\* The SELECT; without a row, or when it fails, AllowQuota returns an error
\* and checkLimits lets the request in.
Select(s) ==
  /\ pc[s] = "select"
  /\ \/ /\ row
        /\ val' = [val EXCEPT ![s] = db]
        /\ overlap' = [overlap EXCEPT ![s] = Adding]
        /\ Goto(s, "setTok")
        /\ UNCHANGED sound
     \/ /\ ~row \/ Faults
        /\ Goto(s, "upstream")
        /\ sound' = FALSE
        /\ UNCHANGED <<val, overlap>>
  /\ UNCHANGED <<alive, row, db, redis, use, started, unapplied, adds, drift,
                 quiet, overrun>>

\* History: what a SET does to the trust in a counter.
Refilled(s, d) ==
  /\ drift' = IF overlap[s] THEN drift \cup {d} ELSE drift \ {d}
  /\ sound' = (sound /\ ~overlap[s])

SetTok(s) ==
  /\ pc[s] = "setTok"
  /\ \/ /\ redis' = [redis EXCEPT !["tok"] = val[s]["tok"]]
        /\ Refilled(s, "tok")
        /\ Goto(s, "setCost") \/ Resend(s)
     \/ /\ Faults
        /\ Goto(s, "setCost")
        /\ UNCHANGED <<redis, drift, sound>>
  /\ UNCHANGED <<alive, row, db, val, use, started, unapplied, adds, overlap,
                 quiet, overrun>>

\* The multiples of g that c may be rounded to.
Nearest(c, g) ==
  {m \in c - g .. c + g :
     m >= 0 /\ m % g = 0 /\ 2 * (m - c) <= g /\ 2 * (c - m) <= g}

\* fmt.Sprintf("%f", c) keeps six decimals.
SetCost(s) ==
  /\ pc[s] = "setCost"
  /\ \/ /\ \E c \in Nearest(val[s]["cost"], Grain) :
             redis' = [redis EXCEPT !["cost"] = c]
        /\ Refilled(s, "cost")
        /\ adds' = 0
        /\ Goto(s, "decide") \/ Resend(s)
     \/ /\ Faults
        /\ Goto(s, "decide")
        /\ UNCHANGED <<redis, drift, sound, adds>>
  /\ UNCHANGED <<alive, row, db, val, use, started, unapplied, overlap, quiet,
                 overrun>>

\* Mutated form: the quota may be used up and a little more.
WithinMore(v) ==
  /\ TokenQuota = NoQuota \/ v["tok"] <= TokenQuota
  /\ DollarQuota = NoQuota \/ v["cost"] <= DollarQuota

\* tokens >= *tokenQuota or cost >= *dollarQuota refuses.
Within(v) ==
  /\ TokenQuota = NoQuota \/ v["tok"] < TokenQuota
  /\ DollarQuota = NoQuota \/ v["cost"] < DollarQuota

Exceeded(v) ==
  \/ TokenQuota # NoQuota /\ v["tok"] > TokenQuota
  \/ DollarQuota # NoQuota /\ v["cost"] > DollarQuota

Decide(s) ==
  /\ pc[s] = "decide"
  /\ Goto(s, IF Within(val[s]) THEN "upstream" ELSE "idle")
  /\ overrun' = (overrun \/ (Within(val[s]) /\ quiet[s] /\ Exceeded(db)))
  /\ UNCHANGED <<alive, row, db, redis, val, use, started, unapplied, adds,
                 overlap, drift, sound, quiet>>

----------------------------------------------------------------------------
(* The upstream request and AddUsage                                       *)

\* The response is parsed.  Without usage (an error, a client that went
\* away, an unparsable body) AddUsage is not called.
Upstream(s, u) ==
  /\ pc[s] = "upstream"
  /\ use' = [use EXCEPT ![s] = u]
  /\ Goto(s, IF u = Zero THEN "idle" ELSE "upsert")
  /\ UNCHANGED <<alive, row, db, redis, val, started, ghosts>>

Plus(f, g) == [d \in Dims |-> f[d] + g[d]]

Filling(s) == pc[s] \in {"setTok", "setCost"}

\* What the row gains: NUMERIC(14,8) rounds the cost, a half upwards.
Stored(u) ==
  {[u EXCEPT !["cost"] = c] :
     c \in {m \in Nearest(u["cost"], Unit) : 2 * (u["cost"] - m) < Unit}}

\* INSERT ... ON CONFLICT DO UPDATE.  For a deleted key it fails on the
\* foreign key.  After an error, which may also mean that the answer to a
\* successful statement was lost, nothing is sent to Redis.
Upsert(s) ==
  /\ pc[s] = "upsert"
  /\ \/ /\ alive
        /\ row' = TRUE
        /\ \E u \in Stored(use[s]) : db' = Plus(db, u)
        /\ adds' = adds + 1
        /\ overlap' = [t \in Slots |-> overlap[t] \/ Filling(t)]
        /\ \/ /\ Goto(s, "incTok")
              /\ unapplied' = Plus(unapplied, use[s])
              /\ UNCHANGED <<drift, sound>>
           \/ /\ Faults
              /\ Goto(s, "idle")
              /\ drift' = Dims /\ sound' = FALSE
              /\ UNCHANGED unapplied
     \/ /\ ~alive \/ Faults
        /\ Goto(s, "idle")
        /\ UNCHANGED <<row, db, unapplied, adds, overlap, drift, sound>>
  /\ UNCHANGED <<alive, redis, val, use, started, quiet, overrun>>

\* INCRBY or INCRBYFLOAT; on an absent counter it starts from zero.
Incremented(d, n) == [redis EXCEPT ![d] = IF @ = Absent THEN n ELSE @ + n]

\* History: a counter started by AddUsage, or not incremented, drifts.
Applied(s, d, ok) ==
  /\ unapplied' = [unapplied EXCEPT ![d] = @ - use[s][d]]
  /\ drift' = IF ok THEN drift ELSE drift \cup {d}
  /\ sound' = (sound /\ ok)

\* History: a counter incremented and about to be incremented again drifts.
Doubled(d) ==
  /\ drift' = drift \cup {d}
  /\ sound' = FALSE
  /\ UNCHANGED unapplied

\* Answered, lost on its way (or Redis is away), or answered too late.
Inc(s, d, next) ==
  \/ /\ redis' = Incremented(d, use[s][d])
     /\ \/ Applied(s, d, redis[d] # Absent) /\ Goto(s, next)
        \/ Doubled(d) /\ Resend(s)
  \/ Faults /\ UNCHANGED redis /\ Applied(s, d, FALSE) /\ Goto(s, next)

\* Mutated form: SET to what the check has read plus the usage.
IncTokBySet(s) ==
  /\ pc[s] = "incTok"
  /\ redis' = [redis EXCEPT !["tok"] = val[s]["tok"] + use[s]["tok"]]
  /\ Applied(s, "tok", redis["tok"] # Absent)
  /\ Goto(s, "incCost")
  /\ UNCHANGED <<alive, row, db, val, use, started, adds, overlap, quiet,
                 overrun>>

IncTok(s) ==
  /\ pc[s] = "incTok"
  /\ Inc(s, "tok", "incCost")
  /\ UNCHANGED <<alive, row, db, val, use, started, adds, overlap, quiet,
                 overrun>>

IncCost(s) ==
  /\ pc[s] = "incCost"
  /\ Inc(s, "cost", "idle")
  /\ UNCHANGED <<alive, row, db, val, use, started, adds, overlap, quiet,
                 overrun>>

----------------------------------------------------------------------------
(* Environment                                                             *)

\* DELETE FROM api_keys cascades to quota_totals; the counters stay.
Delete ==
  /\ alive
  /\ alive' = FALSE
  /\ row' = FALSE
  /\ db' = Zero
  /\ sound' = FALSE
  /\ UNCHANGED <<redis, pc, val, use, resent, started, unapplied, adds, overlap,
                 drift, quiet, overrun>>

\* Redis restarts empty or evicts a counter.
RedisLoses(d) ==
  /\ Faults
  /\ redis[d] # Absent
  /\ redis' = [redis EXCEPT ![d] = Absent]
  /\ drift' = drift \ {d}
  /\ UNCHANGED <<alive, row, db, pc, val, use, resent, started, unapplied, adds,
                 overlap, sound, quiet, overrun>>

Next ==
  \/ \E s \in Slots :
       \/ Begin(s) \/ GetTok(s) \/ GetCost(s) \/ Select(s) \/ SetTok(s)
       \/ SetCost(s) \/ Decide(s) \/ Upsert(s) \/ IncTok(s) \/ IncCost(s)
       \/ \E u \in Usages \cup {Zero} : Upstream(s, u)
  \/ Delete
  \/ \E d \in Dims : RedisLoses(d)

Spec == Init /\ [][Next]_vars

----------------------------------------------------------------------------
(* Properties                                                              *)

(***************************************************************************)
(* A counter in Redis plus what is still to be added to it equals the      *)
(* table's total unless one of four things has happened since it was last  *)
(* filled cleanly or lost: its fill overlapped an AddUsage, an AddUsage    *)
(* found it absent and started it from zero, an increment failed or was    *)
(* never sent, or one was sent again after its answer was lost.  A cost is *)
(* off by half of what "%f" keeps, for the fill, and by half of what the   *)
(* table keeps for every request since: Redis adds the cost as it is, the  *)
(* table a rounded one.                                                    *)
(***************************************************************************)
CounterTracksTable ==
  \A d \in Dims :
    alive /\ redis[d] # Absent /\ d \notin drift =>
      LET off == redis[d] + unapplied[d] - db[d]
      IN  IF d = "tok" THEN off = 0
          ELSE /\ 2 * off <= Grain + adds * Unit
               /\ -2 * off <= Grain + adds * Unit

MaxUse == CHOOSE m \in {u["tok"] : u \in Usages} :
            \A u \in Usages : u["tok"] <= m

(***************************************************************************)
(* A token quota is overrun by no more than one response per concurrent    *)
(* request, however long a check or a response takes, as long as no        *)
(* counter has drifted and no check was skipped on an error.               *)
(***************************************************************************)
OverrunBounded ==
  TokenQuota # NoQuota /\ sound =>
    db["tok"] <= TokenQuota - 1 + Cardinality(Slots) * MaxUse

(***************************************************************************)
(* "AllowQuota returns false when cumulative tokens or cost exceed the     *)
(* quotas": a check made while no other request of the key is at work      *)
(* never admits a key whose total in the table exceeds its quota.          *)
(***************************************************************************)
QuotaEnforced == ~overrun

============================================================================
