---------------------------- MODULE VerifyCache ----------------------------
(***************************************************************************)
(* API keys: the api_keys table in Postgres, the "verify:<prefix>" entries *)
(* in Redis, the proxy's Verify calls and the admin calls SetActive,       *)
(* Update and Delete (internal/keys/keys.go).                              *)
(*                                                                         *)
(* A key is identified with its prefix: prefix is UNIQUE in the table and  *)
(* never rewritten, and a fresh key gets a fresh random prefix.  A row's   *)
(* owner, note and limits are abstracted to its version number: every      *)
(* committed UPDATE or DELETE of the row makes a new version.  A presented *)
(* secret that has the key's prefix is either the issued one or another    *)
(* one; a secret without the service's prefix is refused before any state  *)
(* is touched and is left out, and so are the admin calls that find no row *)
(* (ErrNotFound), which change nothing.                                    *)
(***************************************************************************)
EXTENDS Integers, FiniteSets

CONSTANTS
  Keys,       \* key prefixes
  Verifiers,  \* goroutines serving a proxied request, on any replica
  Admins,     \* goroutines serving an admin request, on any replica
  Deadlines,  \* expires_at values an administrator may choose
  CacheTTL,   \* VERIFY_CACHE_TTL
  MaxFill,    \* longest time between Verify's SELECT and its SET
  MaxVer,     \* bound: row versions per key
  MaxTime     \* bound: clock

ASSUME ConstantsAssumption ==
  /\ Deadlines \subseteq Nat
  /\ CacheTTL \in Nat
  /\ MaxFill \in Nat
  /\ MaxVer \in Nat
  /\ MaxTime \in Nat

NoExpiry == -1                      \* expires_at IS NULL; SET without EX

Secrets == {"issued", "other"}

Versions == 0 .. MaxVer

Row == [state  : {"unissued", "live", "deleted"},
        active : BOOLEAN,
        exp    : Deadlines \cup {NoExpiry},
        ver    : Versions]

(***************************************************************************)
(* cacheEntry as stored in Redis.  Marshalling keeps every field of Key.   *)
(* readAt, late and missed are history, read by no action: the time of the *)
(* SELECT behind the entry, whether the row had already changed when the   *)
(* entry was written, and whether an invalidation meant for it was lost.   *)
(***************************************************************************)
Entry == [key     : Keys,
          plain   : Secrets,
          row     : Row,
          expires : Nat \cup {NoExpiry},
          readAt  : Nat,
          late    : BOOLEAN,
          missed  : BOOLEAN]

VARIABLES
  now,        \* wall clock
  db,         \* api_keys, one row per key
  since,      \* history: since[k][n] is when version n of k was committed
  cache,      \* live Redis entries
  calls,      \* Verify calls before the row has been read
  fills,      \* Verify calls holding a row, about to SET it
  jobs,       \* admin calls that have committed and are invalidating
  returned    \* the verdict handed out by the latest step, if it was one

vars == <<now, db, since, cache, calls, fills, jobs, returned>>

(***************************************************************************)
(* The shape of the state.  Redis holds at most one entry per prefix.      *)
(***************************************************************************)
TypeOK ==
  /\ now \in Nat
  /\ db \in [Keys -> Row]
  /\ since \in [Keys -> [Versions -> Nat]]
  /\ cache \subseteq Entry
  /\ \A e, f \in cache : e.key = f.key => e = f
  /\ calls \subseteq [verifier : Verifiers, key : Keys, plain : Secrets,
                      pc : {"get", "select"}]
  /\ fills \subseteq [verifier : Verifiers, key : Keys, plain : Secrets,
                      row : Row, readAt : Nat]
  /\ jobs \subseteq [admin : Admins, key : Keys, pc : {"lookup", "del"}]
  /\ returned \subseteq [key : Keys, plain : Secrets, row : Row,
                         res : {"ok", "ErrInactive", "ErrExpired",
                                "ErrNotFound", "ErrInvalid"}]

Init ==
  /\ now = 0
  /\ db = [k \in Keys |-> [state |-> "unissued", active |-> FALSE,
                           exp |-> NoExpiry, ver |-> 0]]
  /\ since = [k \in Keys |-> [n \in Versions |-> 0]]
  /\ cache = {} /\ calls = {} /\ fills = {} /\ jobs = {} /\ returned = {}

----------------------------------------------------------------------------
(* Verify                                                                  *)

\* Mutated form: a nil error for every key that is active.
validateKeyNoExpiry(row) ==
  IF ~row.active THEN "ErrInactive" ELSE "ok"

\* k.ExpiresAt.Before(time.Now()): the deadline itself is still valid.
validateKey(row) ==
  IF ~row.active THEN "ErrInactive"
  ELSE IF row.exp # NoExpiry /\ row.exp < now THEN "ErrExpired"
  ELSE "ok"

Busy(v) == \E c \in calls \cup fills : c.verifier = v

Return(c, row, res) ==
  returned' = {[key |-> c.key, plain |-> c.plain, row |-> row, res |-> res]}

VerifyStart(v, k, plain) ==
  /\ ~Busy(v)
  /\ calls' = calls \cup {[verifier |-> v, key |-> k, plain |-> plain,
                           pc |-> "get"]}
  /\ returned' = {}
  /\ UNCHANGED <<now, db, since, cache, fills, jobs>>

\* Mutated form: a hit on the prefix alone.
VerifyHitPrefix(c) ==
  /\ c.pc = "get"
  /\ \E e \in cache :
       /\ e.key = c.key
       /\ Return(c, e.row, validateKey(e.row))
  /\ calls' = calls \ {c}
  /\ UNCHANGED <<now, db, since, cache, fills, jobs>>

\* Mutated form: a cached key is taken to be unexpired.
VerifyHitUnexpired(c) ==
  /\ c.pc = "get"
  /\ \E e \in cache :
       /\ e.key = c.key
       /\ e.plain = c.plain
       /\ Return(c, e.row, validateKeyNoExpiry(e.row))
  /\ calls' = calls \ {c}
  /\ UNCHANGED <<now, db, since, cache, fills, jobs>>

\* GET finds an entry whose plaintext equals the presented one.
VerifyHit(c) ==
  /\ c.pc = "get"
  /\ \E e \in cache :
       /\ e.key = c.key
       /\ e.plain = c.plain
       /\ Return(c, e.row, validateKey(e.row))
  /\ calls' = calls \ {c}
  /\ UNCHANGED <<now, db, since, cache, fills, jobs>>

\* GET finds nothing or another plaintext, or Redis fails: on to Postgres.
VerifyMiss(c) ==
  /\ c.pc = "get"
  /\ calls' = (calls \ {c}) \cup {[c EXCEPT !.pc = "select"]}
  /\ returned' = {}
  /\ UNCHANGED <<now, db, since, cache, fills, jobs>>

\* The SELECT and the hash comparison, which touches no shared state.
VerifySelect(c) ==
  /\ c.pc = "select"
  /\ calls' = calls \ {c}
  /\ \/ /\ db[c.key].state # "live"
        /\ Return(c, db[c.key], "ErrNotFound")
        /\ UNCHANGED fills
     \/ /\ db[c.key].state = "live" /\ c.plain # "issued"
        /\ Return(c, db[c.key], "ErrInvalid")
        /\ UNCHANGED fills
     \/ /\ db[c.key].state = "live" /\ c.plain = "issued"
        /\ fills' = fills \cup
             {[verifier |-> c.verifier, key |-> c.key, plain |-> c.plain,
               row |-> db[c.key], readAt |-> now]}
        /\ returned' = {}
  /\ UNCHANGED <<now, db, since, cache, jobs>>

\* Mutated form: SET without an expiration.
SetExpiryNone == NoExpiry

\* go-redis: an expiration of zero means no expiration at all.
SetExpiry == IF CacheTTL > 0 THEN now + CacheTTL ELSE NoExpiry

Without(k) == {e \in cache : e.key # k}

\* Mutated form: the new entry does not replace the one that was there.
VerifySetAdds(f) ==
  /\ cache' = cache \cup
       {[key |-> f.key, plain |-> f.plain, row |-> f.row,
         expires |-> SetExpiry, readAt |-> f.readAt,
         late |-> f.row.ver # db[f.key].ver, missed |-> FALSE]}
  /\ fills' = fills \ {f}
  /\ Return(f, f.row, validateKey(f.row))
  /\ UNCHANGED <<now, db, since, calls, jobs>>

VerifySet(f) ==
  /\ cache' = Without(f.key) \cup
       {[key |-> f.key, plain |-> f.plain, row |-> f.row,
         expires |-> SetExpiry, readAt |-> f.readAt,
         late |-> f.row.ver # db[f.key].ver, missed |-> FALSE]}
  /\ fills' = fills \ {f}
  /\ Return(f, f.row, validateKey(f.row))
  /\ UNCHANGED <<now, db, since, calls, jobs>>

\* The SET fails; its error is dropped and the verdict is the same.
VerifySetFails(f) ==
  /\ fills' = fills \ {f}
  /\ Return(f, f.row, validateKey(f.row))
  /\ UNCHANGED <<now, db, since, cache, calls, jobs>>

\* The client goes away, the database fails or the replica dies.
VerifyAbort(v) ==
  /\ Busy(v)
  /\ calls' = {c \in calls : c.verifier # v}
  /\ fills' = {f \in fills : f.verifier # v}
  /\ returned' = {}
  /\ UNCHANGED <<now, db, since, cache, jobs>>

----------------------------------------------------------------------------
(* Admin calls                                                             *)

\* The quota_totals row Issue also inserts is the concern of QuotaTotals.
Issue(k, exp) ==
  /\ db[k].state = "unissued"
  /\ db' = [db EXCEPT ![k] = [state |-> "live", active |-> TRUE,
                              exp |-> exp, ver |-> 0]]
  /\ since' = [since EXCEPT ![k][0] = now]
  /\ returned' = {}
  /\ UNCHANGED <<now, cache, calls, fills, jobs>>

Idle(a) == \A j \in jobs : j.admin # a

\* One committed statement that makes row the next version of k.
Commit(k, row) ==
  /\ db[k].state = "live"
  /\ db[k].ver < MaxVer
  /\ db' = [db EXCEPT ![k] = [row EXCEPT !.ver = db[k].ver + 1]]
  /\ since' = [since EXCEPT ![k][db[k].ver + 1] = now]

StartInvalidation(a, k) ==
  jobs' = jobs \cup {[admin |-> a, key |-> k, pc |-> "lookup"]}

\* Mutated form: SetActive returns without invalidating.
SetActiveOnly(a, k, active) ==
  /\ Idle(a)
  /\ Commit(k, [db[k] EXCEPT !.active = active])
  /\ returned' = {}
  /\ UNCHANGED <<now, cache, calls, fills, jobs>>

SetActive(a, k, active) ==
  /\ Idle(a)
  /\ Commit(k, [db[k] EXCEPT !.active = active])
  /\ StartInvalidation(a, k)
  /\ returned' = {}
  /\ UNCHANGED <<now, cache, calls, fills>>

Update(a, k, exp) ==
  /\ Idle(a)
  /\ Commit(k, [db[k] EXCEPT !.exp = exp])
  /\ StartInvalidation(a, k)
  /\ returned' = {}
  /\ UNCHANGED <<now, cache, calls, fills>>

Delete(a, k) ==
  /\ Idle(a)
  /\ Commit(k, [db[k] EXCEPT !.state = "deleted"])
  /\ StartInvalidation(a, k)
  /\ returned' = {}
  /\ UNCHANGED <<now, cache, calls, fills>>

\* History only: the entry of k keeps a mark that its invalidation was lost.
MarkMissed(k) ==
  {IF e.key = k THEN [e EXCEPT !.missed = TRUE] ELSE e : e \in cache}

\* SELECT prefix FROM api_keys WHERE id = $1: without a row there is no DEL.
InvalidateLookup(j) ==
  /\ j.pc = "lookup"
  /\ \/ /\ db[j.key].state = "live"
        /\ jobs' = (jobs \ {j}) \cup {[j EXCEPT !.pc = "del"]}
        /\ UNCHANGED cache
     \/ /\ db[j.key].state # "live"
        /\ jobs' = jobs \ {j}
        /\ cache' = MarkMissed(j.key)
  /\ returned' = {}
  /\ UNCHANGED <<now, db, since, calls, fills>>

InvalidateDel(j) ==
  /\ j.pc = "del"
  /\ jobs' = jobs \ {j}
  /\ cache' = Without(j.key)
  /\ returned' = {}
  /\ UNCHANGED <<now, db, since, calls, fills>>

\* The lookup or the DEL fails (the admin's request context is cancelled,
\* Redis is away, the replica dies); invalidateCache reports nothing.
InvalidateFails(j) ==
  /\ jobs' = jobs \ {j}
  /\ cache' = MarkMissed(j.key)
  /\ returned' = {}
  /\ UNCHANGED <<now, db, since, calls, fills>>

----------------------------------------------------------------------------
(* Environment                                                             *)

\* Redis may evict an entry at any time.
Evict(e) ==
  /\ cache' = cache \ {e}
  /\ returned' = {}
  /\ UNCHANGED <<now, db, since, calls, fills, jobs>>

\* Time passes and Redis drops what has expired.  A Verify call takes at
\* most MaxFill between its SELECT and its SET.
Tick ==
  /\ now < MaxTime
  /\ \A f \in fills : now < f.readAt + MaxFill
  /\ now' = now + 1
  /\ cache' = {e \in cache : e.expires = NoExpiry \/ now + 1 < e.expires}
  /\ returned' = {}
  /\ UNCHANGED <<db, since, calls, fills, jobs>>

Next ==
  \/ \E v \in Verifiers, k \in Keys, plain \in Secrets :
       VerifyStart(v, k, plain)
  \/ \E c \in calls : VerifyHit(c) \/ VerifyMiss(c) \/ VerifySelect(c)
  \/ \E f \in fills : VerifySet(f) \/ VerifySetFails(f)
  \/ \E v \in Verifiers : VerifyAbort(v)
  \/ \E k \in Keys, exp \in Deadlines \cup {NoExpiry} : Issue(k, exp)
  \/ \E a \in Admins, k \in Keys :
       \/ \E active \in BOOLEAN : SetActive(a, k, active)
       \/ \E exp \in Deadlines \cup {NoExpiry} : Update(a, k, exp)
       \/ Delete(a, k)
  \/ \E j \in jobs :
       InvalidateLookup(j) \/ InvalidateDel(j) \/ InvalidateFails(j)
  \/ \E e \in cache : Evict(e)
  \/ Tick

Spec == Init /\ [][Next]_vars

----------------------------------------------------------------------------
(* Properties                                                              *)

(***************************************************************************)
(* Every verdict of Verify, from the cache or not, rests on a version of   *)
(* the row that was current at most CacheTTL + MaxFill ago: a key that is  *)
(* revoked, deleted or given other limits at time t is treated as before   *)
(* no later than t + CacheTTL + MaxFill, whatever fill, invalidation,      *)
(* failure or delete got in between.                                       *)
(***************************************************************************)
BoundedStaleness ==
  \A r \in returned :
    r.row.ver < db[r.key].ver =>
      now <= since[r.key][r.row.ver + 1] + CacheTTL + MaxFill

(***************************************************************************)
(* A cached entry older than the row has one of three causes: the admin    *)
(* call that changed the row has not reached its DEL yet, the entry was    *)
(* written by a Verify call that had read the row before the change, or    *)
(* the invalidation was lost.  Nothing else leaves a stale entry behind.   *)
(***************************************************************************)
StaleEntryExplained ==
  \A e \in cache :
    e.row.ver < db[e.key].ver =>
      \/ \E j \in jobs : j.key = e.key
      \/ e.late
      \/ e.missed

(***************************************************************************)
(* Verify accepts only the secret that was issued for the key, although a  *)
(* cache entry is found by the prefix that other secrets share.            *)
(***************************************************************************)
IssuedSecretOnly ==
  \A r \in returned :
    r.res = "ok" => r.plain = "issued" /\ r.row.state = "live"

(***************************************************************************)
(* Once a row has been left alone for longer than CacheTTL + MaxFill,      *)
(* Verify says of the issued secret exactly what the table says now: it is *)
(* accepted if and only if the row is there, active and unexpired, even    *)
(* when the verdict comes from an entry cached before the expiry.          *)
(***************************************************************************)
SettledVerdict ==
  \A r \in returned :
    /\ r.plain = "issued"
    /\ now > since[r.key][db[r.key].ver] + CacheTTL + MaxFill
    => (r.res = "ok" <=> /\ db[r.key].state = "live"
                         /\ db[r.key].active
                         /\ \/ db[r.key].exp = NoExpiry
                            \/ now <= db[r.key].exp)

============================================================================
