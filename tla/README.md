# A TLA+ model of openai-proxy

openai-proxy is a Go service in front of the OpenAI API. It issues its own keys,
checks them, limits their use, forwards requests with the real key and keeps
account of what each key has used. State is in Postgres (authoritative) and in
Redis (caches and counters); any number of replicas share both. This directory
holds TLA+ modules of the parts where processes, caches and failures meet, TLC
configurations that check them on small instances, and TLAPS proofs of their
safety properties for all instances.

## The system

| Part | State | Operations | Module |
|---|---|---|---|
| API keys (`internal/keys/keys.go`, `hash.go`) | `api_keys`; `verify:<prefix>` in Redis | `Issue`, `Verify`, `SetActive`, `Update`, `Delete`, `invalidateCache` | `VerifyCache` |
| Rate limit (`keys.go`) | `rl:<id>:<minute>` in Redis | `AllowRate` | `RateLimit` |
| Quotas (`keys.go`) | `quota_totals`; `qt:tok`, `qt:cost` in Redis | `AllowQuota`, `quotaTotals`, `AddUsage` | `QuotaTotals` |
| Upstream key (`internal/keys/upstream.go`) | `upstream_keys`; an atomic pointer per replica | `Bootstrap`, `StartRefresher`, `Set`, `refresh`, `Current` | `UpstreamKeys`, which implements `KeyRotation` |
| Proxy handler (`internal/proxy/proxy.go`) | one handler per request; `usage_records`, `last_used_at` | `ServeHTTP` and its helpers | `RequestFlow`; `Billing` for the response |
| Pricing (`internal/pricing`) | a table read at start | `Cost`, `lookup` | `Billing` |
| Process (`cmd/openai-proxy/main.go`) | server, store, context | `run`, `gracefulShutdown` | `Startup` up to the listener, `RequestFlow` from SIGTERM on |
| Configuration (`internal/config`) | read once | `Load`, `durationEnv` | `Startup`; constants of the other modules |
| Migrations (`internal/store`) | `schema_migrations` and the tables | `Open`, `Migrate` | `Startup` |
| Admin tokens (`internal/admin/auth.go`) | none: signed expiry | `VerifyPassword`, `IssueToken`, `ValidateBearer`, `Middleware` | `AdminApi` |
| Admin API (`internal/admin/api.go`) | none of its own | one handler per route, `CORS` | `AdminApi`; the cache side of the calls in `VerifyCache`, `Set`'s transaction in `UpstreamKeys` |

How they interact. For a request to `/v1/`, `ServeHTTP` calls `Verify`, then
`AllowRate` and `AllowQuota` (an error of either lets the request through), reads
the body, sends it with the key from `Current`, copies the response to the client
and to a tail buffer, and then calls `TouchLastUsed`, `AddUsage` and
`RecordRequest` with a background context. Admin handlers call `Issue`, `Update`,
`SetActive`, `Delete` and the upstream `Set` with the context of their own
request. Nothing is locked across Redis and Postgres; the program retries nothing, the
Redis client sends a command again when its answer is lost, and most errors on the way
are logged or dropped. A replica gets there through `config.Load`,
`store.Open`, `Migrate` and `Bootstrap`; any error ends the process, and whoever runs
it starts it again.

What is hard. Cache fills race with invalidations and with increments; a step of
several may fail and nobody repairs the rest; expiry races with delayed calls and
differing clocks; rotations and first boots on several replicas meet in one table;
a client, the upstream, the store or the process may go away at any point of a
request; replicas that start together apply the same migrations, one of which wants
the locks of running requests in the opposite order; an error answer does not say
whether the change was made. The hazards, each with its line, are listed in `PROJECT.json`.

## Modules

**VerifyCache.** `calls`, `fills` and `jobs` are the Verify and admin calls in
progress, split at every Redis or Postgres call; `cache` is Redis, `db` the table.
A row's limits and texts are abstracted to a version number, so a property about
versions covers every column. A presented secret is the issued one or another with
the same prefix. `returned` holds the verdict of the latest step; `since`, `readAt`,
`late` and `missed` are history. `MaxFill` bounds the time from Verify's SELECT to
its SET: the code has no such bound, and the staleness bound is stated in terms of
it. A SET or DEL that go-redis sends again is what that of another call that has read at
the same time would be, and has no action of its own.

**RateLimit.** A request reads its replica's clock, at most `MaxSkew` off, and
reaches Redis at most `MaxDelay` later. `MarginSuffices` says that the ten seconds
between the minute and the counter's expiry cover both.

**QuotaTotals.** One action per call of `quotaTotals` and `AddUsage`. A SET, INCRBY or
INCRBYFLOAT may take effect and be sent again, up to `MaxRetries` times (`Resend`; go-redis
does so by default): the second increment counts the usage twice. Costs are integers of a
unit finer than the table's: what `NUMERIC(14,8)` keeps is a multiple of `Unit` (a half is
rounded up, `Stored`), what `"%f"` keeps a multiple of `Grain` (ties either way), and
INCRBYFLOAT adds the cost as it is. `unapplied`, `adds`, `overlap`, `drift`, `sound` and
`quiet` are history.

**UpstreamKeys.** `Set` is modelled statement by statement under READ COMMITTED:
the UPDATE works on the row that was active when it began and waits for its lock,
the partial unique index makes the INSERT wait or fail. A goroutine's `job` says
which of `Bootstrap`, the refresher or an administrator runs `refresh`.

**KeyRotation.** The abstract specification of the key store: keys are set one after
the other, a replica looks and later takes up what it saw. `ImplementsRotation` in
`UpstreamKeys` maps `newest` to the number of committed rows, `looked` to what the
`refresh` calls between SELECT and Store have read, and `served` to the snapshot of a
serving replica. The transaction, its waits and failures are stuttering but for the
commit. The specification allows a replica to take up keys out of order, since the
code does (run `upstream_sees`).

**RequestFlow.** One replica: `pc` follows each handler through `ServeHTTP`,
`server` follows the process from SIGTERM through the deferred `Close` to its exit.
A response is a number of units with the usage line in known ones; `Captured` is
the tail buffer. The proxy takes any path under `/v1/`: the answer to a request that is not
`metered` has no usage block that it knows. `key` is what the tables hold of the request's
key: an administrator may delete it at any point, after which the INSERTs fail on their
foreign key, and it may lack its `quota_totals` row, which makes the check of the quota an
error. The checks and writes of the other modules are single steps here,
with the outcomes `ServeHTTP` tells apart. A client's departure and the
cancellation of its context are separate steps, as net/http may notice late.

**Billing.** One response, in bytes: `Copy`, `WriteFails`, `Capture` and `Stop` are
`io.Copy` into the `MultiWriter`, where every read may end anywhere, `net/http` may fail on
a write having taken part of it, and the buffer gets only what was taken in full. Taken is
not delivered: the write is buffered and `Flush`'s error is dropped, so that a client may
be billed for a last chunk it did not get. No property speaks of delivery. `InTail` says which
lines are whole in the last `captureMax` bytes; `ParseSSEUsage`, `ParseJSONUsage` and
`extractUsage` work on those, `Cost` and `lookup` price the result. A model name is
the sequence of its parts between dashes. The reference in the properties sees the
whole response and prices token by token.

**Startup.** `pc` follows each replica through `run`. `Migrate` is one action per
statement: the EXISTS check, the statements of the migration, the INSERT into
`schema_migrations`, the commit. `Locked`, `Waits` and `queued` are Postgres' table
locks; a writer is a usage INSERT of a serving replica, which holds its table and then
needs `api_keys`. `done` is the schema, `recorded` what `schema_migrations` says of it.
`durationEnv` and `NewTicker` decide what `UPSTREAM_REFRESH` does.

**AdminApi.** Requests of administrators go through `CORS`, `Middleware` and one
handler, each statement of which may fail, or take effect although its answer is lost.
A token is an expiry in seconds and the secret that signed it; clocks count ticks,
`Second` to the second. `at`, `effect` and `failed` are history.

`MC*` modules hold constant values and symmetry sets; `*Proofs` modules the
theorems.

## Runs

| Run | Instance | Checks |
|---|---|---|
| `verify` | 1 key, 2 Verify calls and 1 admin call at a time, TTL 2, fill time 1, 3 versions, deadline 3, clock to 4 | `TypeOK`, `BoundedStaleness`, `StaleEntryExplained`, `IssuedSecretOnly`, `SettledVerdict` |
| `upstream` | 2 replicas that boot on an empty table, 1 administrator, up to 3 rows, fair refresher | `TypeOK`, `NewestIsActive`, `ServingHasKey`, `SetReadsOwnRow`, `NoLockCycle`, `RotationPropagates`, `ImplementsRotation` |
| `rate` | 3 request goroutines, limit 2, one observed minute of length 2, expiry 5, Redis delay 1, clocks off by 1, clock to 8 | `TypeOK`, `LimitHolds`, `FullLimitGranted` |
| `quota` | 2 requests at a time, 3 in all, costs of a quarter and of half of what the table keeps, every call may fail, one retry | `TypeOK`, `CounterTracksTable`, `OverrunBounded` |
| `flow` | 1 request of every kind, responses up to 5 units, buffer of 2; fair handlers, timer and clients | `TypeOK`, `LeavingSkipsNoCheck`, `DeliveredIsBilled`, `RowsNotAhead`, `MissingRowExplained`, `RequestEnds` |
| `boot` | 2 replicas of five configurations, an empty or older database, 1 writer, 1 outside failure; fair restarts | `TypeOK`, `SchemaMatchesRecord`, `MigratedMeansComplete`, `LosesOnlyToWinner`, `ServesIffConfigured` |
| `billing` | streams of up to 3 lines out of 7 and JSON documents, sizes 1 to 7, buffer of 5, 2 listed prices | `TypeOK`, `BilledAsReported`, `BilledWasWritten`, `CutBilledByLast` |
| `admin` | 2 replicas, clocks off by 1, TTL of 3 ticks and 2 ticks to the second, clock to 5, 1 token, 1 key, 1 redeployment, 1 administrator | `TypeOK`, `SessionBounded`, `SessionLasts`, `AnswerTellsEffect` |

Why the bounds are enough. In `verify` one fill may race an invalidation
while another has read after it, and a second change may follow before either is stored;
an admin call may give up at any point, so that a second one would add only a late DEL. An
entry survives a tick, so that one cached before the key's deadline is used after it, and
the clock passes the staleness bound. Keys do not interact, and the proofs cover any
number of calls. In `upstream` two transactions already meet
at each statement (two first boots, or a boot and a rotation); a third only queues
behind them, and the proofs cover any number. In `rate` the clock runs past the expiry of the first minute's counter. In
`quota` the third request runs after two that overlapped, and two costs that the table
rounds down to nothing add up in Redis. In `flow` requests share
nothing but `server`, and a response is longer than the buffer. In `boot` two replicas
meet at every statement of every version, and one failure can hit any of them; the
lost commit and the deadlock with the writer are among the counterexamples of the
mutated forms. In `billing` lines are smaller and larger than what is left of the
buffer, and a usage block may be followed by others. In `admin` the clock passes the
expiry on both replicas; handlers touch the database in one statement each, two at
most, so that a second administrator would add only interleavings of independent
statements. Symmetry is used in safety runs only.

Four runs are expected to fail: each states what a comment or the README says and
shows that the code does otherwise.

| Run | Property | What the counterexample shows |
|---|---|---|
| `upstream_sees` | `CallerSeesChange` | a slow `refresh` puts the retired key back after `Set` has returned |
| `upstream_env` | `FallbackOnlyWhenEmpty` | a booting replica's fallback retires an administrator's key |
| `quota_race` | `QuotaEnforced` | a check's SET overwrites another request's increment; the quota is then not enforced |
| `flow_exit` | `EveryRequestRecorded` | on SIGTERM the process exits under its handlers, as `run` does not wait for `Shutdown` |

Met on the way, and not runs of their own:

- `VERIFY_CACHE_TTL=0` means no expiry to Redis, so that `BoundedStaleness` holds for a
  positive TTL only.
- `STREAM_TIMEOUT` ends reads from the upstream; a client that stops reading holds its
  handler for good, since the server sets no `WriteTimeout`. `RequestEnds` assumes that
  clients go on.
- The README's example and table leave out `KEY_ENCRYPTION_KEY`, without which
  `config.Load` fails, and call `OPENAI_API_KEY` required, which it is only for a first
  start on a table without a key.
- A rotation whose refresh fails after the commit answers 400 (`AnswerTellsEffect` names
  the exception); the usage reports answer 200 with part of the rows when the connection
  breaks (`ReplyPart`).
- A key whose `quota_totals` row was not inserted by `Issue`, which drops the error, is let
  in by every check that asks the table, until `AddUsage` inserts the row. A key deleted
  while a request of it is in progress leaves nothing of that request in the tables.
- A cut stream is billed by the last usage block that was passed on; a stream with one
  block at its end, as OpenAI sends it, is then billed nothing (`CutBilledByLast`).
- `Update` sets every column from one request: of two administrators who edit a key at the
  same time the later one undoes the other's change, and nobody is told.
- A changed `ADMIN_PASSWORD` ends no session; a changed `SESSION_SECRET` ends all.

`CHECK_DEADLOCK FALSE` is set where a behaviour ends because a bound is used up or
the process has exited, and in `boot`, where replicas with a bad configuration stay down.

## Fairness

`RotationPropagates` assumes that the ticker fires (weak fairness) and that a
refresh tried again and again succeeds in the end (strong fairness of its SELECT and
Store); nothing about rotations, restarts or crashes. `RequestEnds` assumes that
handlers run and their statements return, that the HTTP client's timer fires, that
`run` goes on to its end once it returns, and that a client goes on sending and
reading or its connection breaks. The upstream may stall for ever. `ServesIffConfigured`
assumes that a replica that has exited is started again (the repository has no restart
policy of its own: this is the operator's or the orchestrator's), that statements which
are not blocked end, that Postgres resolves deadlocks, and that outside failures, a
deadlock resolved against the migration among them, happen finitely often.

## Proofs

For each of the eight modules of the system the `*Proofs` module proves `Spec => []IInv`
for an inductive invariant and derives the run's invariants from it, for any constants
that satisfy the module's ASSUME. Every conjunct was model-checked first. All invariants
of all passing runs are proved, and with them the action property `LosesOnlyToWinner` and
the refinement `ImplementsRotation`.

- *VerifyCacheProofs.* An entry or a fill holds a row no newer than the table and read
  no later than now; every version has a time, in order; a fill is at most `MaxFill`
  old and an entry expires `CacheTTL` after its SET. From this the bound follows: what
  a verdict rests on was read at most `CacheTTL + MaxFill` ago, and a newer version
  was committed after that. `BoundedStaleness` and `SettledVerdict` are proved for
  `CacheTTL > 0`; for 0 an entry never expires and they fail.
- *RateLimitProofs.* A counter may be gone only if its minute has admitted nobody or if
  no request of that minute can still arrive; a live counter is at least the number
  admitted.
- *UpstreamKeysProofs.* At most one transaction holds the lock on the active row, at most
  one is past its INSERT, and the one past its INSERT has retired whatever was active.
  `RotationImplemented` shows with it that the store implements `KeyRotation`: the commit
  of `Set` or `Bootstrap` is `SetKey`, the SELECT of a refresh is `Look`, its end (with or
  without a key) is `TakeUp`, a crash is `Stop`, and every other step stutters.
- *RequestFlowProofs.* Before `client.Do` nothing is forwarded or stored; a check is
  skipped for the context only when that is cancelled, and a cancelled context stays
  cancelled; the writes after the response come in order while the key is there, and a
  deleted key has no row; a success is an answer to the request as `PrepareBody` left it.
  `UsageInTail` shows that its usage, if the endpoint reports any, is in the buffer.
- *StartupProofs.* A replica is at a version only when the versions before it are recorded
  (`OrderInv`), and what is committed are the first versions, each with all its statements
  (`SchemaInv`). `MigratedMeansComplete` follows for a replica that skipped versions, too,
  and `LosesOnlyToWinner` since Postgres reports an existing object or a primary key only
  of what was committed. Nothing is assumed of the number of replicas.
- *QuotaTotalsProofs.* What AddUsage has added to the table and not yet to Redis is counted
  in units, a unit being a pair of a goroutine and a number, so that the sum over all
  goroutines is the cardinality of a set (`PendingInv`). A fill that no AddUsage has
  overlapped holds the table's totals while nothing is on its way (`FillInv`); this is
  what `CounterTracksTable` needs at the SETs. Every `Upsert` then moves table and counter
  apart by half a `Unit` at most, which `adds` counts. For `OverrunBounded` a goroutine whose
  check has seen a total below the quota holds a ticket, worth one largest response: total
  and tickets together never exceed the quota by more than one response per goroutine
  (`TicketInv`), since a new ticket is given out only below the quota and a response uses
  its own up. The ASSUME asks for finitely many goroutines and for a largest response that
  has tokens; without one there is nothing to bound.
- *AdminApiProofs.* A token's expiry is the time of issue plus `TTL`, rounded down to a
  second and off by at most `MaxSkew`; a handler works for a token that was not past its
  expiry at the check, and a refused token of the right secret was. Handlers leave the
  token, the replica and the time of the check alone, and a redeployment, which changes
  the secret, ends its requests. `SessionBounded` and `SessionLasts` follow by arithmetic.
  `AnswersInv` says for each route what has been done and what has failed by the time it
  is between its statements or has answered; `TableInv` that a key has at most one row;
  `BoundsInv` that a request is not ahead of the time.
- *BillingProofs.* `FlowInv` relates what is read, written and captured at each point of
  `io.Copy`, `BillInv` says that the bill is the one of what was captured; the rest is
  about the operators, and the argument for a response cut short is that for a whole one,
  made about what was captured. `End` and the parser's loop are recursive functions; `Recursion`
  shows that such a function exists and has the values its definition gives, by induction
  over a set of numbers (`Induct`, from the library's `WFMin`), so that no operator has to
  be instantiated. From it: the ends of lines increase (`Increasing`), a field that is
  overwritten by some lines is what the last of them says (`LastWins`), and every line
  from the last usage block on is whole in the buffer when it fits (`TailHolds`). `lookup`
  is shown to find the longest listed prefix (`Lookup`), and `Cost` to be the sum over
  single tokens that the reference `Charge` takes (`CostIsCharge`). The ASSUME types the
  constants: token counts and prices are not negative, a line has a byte at least (its
  line break), and a JSON response is one document.

Only model-checked: `RotationPropagates`, `RequestEnds` and `ServesIffConfigured`, which
need fairness and ENABLED. The four runs that fail are counterexamples, and need no proof.

## Not modelled

Hashing, AES-GCM and HMAC (assumed to do their job), JSON and header details, the sums in
the SQL of the reports, the list of CORS origins, logging, the errors of float64 arithmetic
on costs, what the client's connection does with bytes that `net/http` has taken.
Malformed request bodies to the proxy, which are passed on as they are.
`buildUpstreamRequest`'s error, which a request parsed by net/http does not cause.
Replicas with different `KEY_ENCRYPTION_KEY`s: to `UpstreamKeys` a key that cannot be
decrypted is a failed refresh. The down migrations, which the program never runs.

## Plan

1. Done: every part of the system has a module; every invariant of a passing run is a
   theorem, and the key store's refinement of `KeyRotation` is one.
2. An abstract key service (a key is accepted iff the row allows it, up to a delay) that
   `VerifyCache` implements, and an abstract account that `QuotaTotals` implements while
   its counters have not drifted; each as a run first and then as a theorem.
3. Step properties that the invariants already give: a revoked key that was invalidated
   in time is not accepted again; a total in the table never decreases.
