------------------------------ MODULE Startup ------------------------------
(***************************************************************************)
(* How a replica starts (run in cmd/openai-proxy/main.go): config.Load,    *)
(* store.Open, Migrate, the upstream key, the refresher and the listener,  *)
(* while other replicas start too and requests that are already served     *)
(* write usage.                                                            *)
(*                                                                         *)
(* A failed step ends the process.  Whoever runs the replicas starts them  *)
(* again; that, crashes and failures of Postgres or Redis are external.    *)
(*                                                                         *)
(* Postgres: CREATE TABLE IF NOT EXISTS of a table another transaction is  *)
(* creating waits for it and fails if it commits; ALTER TABLE locks the    *)
(* table against everybody; INSERT locks its table and then, to check the  *)
(* foreign key, api_keys, but not against other writers.                   *)
(***************************************************************************)
EXTENDS Integers, Sequences, FiniteSets

CONSTANTS
  Replicas,   \* replicas of this release
  Writers,    \* handlers of serving replicas, of this release or an earlier one
  Envs,       \* environments a replica may be started with
  MaxFaults   \* bound on failures and crashes

\* A duration variable: not set, a number of seconds or a Go duration, or
\* something that is neither.
RawDurations == [form : {"unset", "number", "other"}, n : Int]

\* "malformed" stands for an UPSTREAM_URL or KEY_ENCRYPTION_KEY that does not
\* parse; fallback says that OPENAI_API_KEY is set and starts with "sk-", as
\* Set refuses any other before it touches the table.
ASSUME EnvsAssumption ==
  /\ Envs \subseteq [config : {"ok", "missing", "malformed"},
                     fallback : BOOLEAN, refresh : RawDurations]
  /\ MaxFaults \in Nat

\* Mutated form: a value that cannot be parsed counts as zero.
durationEnvZero(v, def) ==
  IF v.form = "unset" THEN def ELSE IF v.form = "number" THEN v.n ELSE 0

durationEnv(v, def) == IF v.form = "number" THEN v.n ELSE def

DefaultRefresh == 30

Create(t) == [op |-> "create", table |-> t]
Alter(t) == [op |-> "alter", table |-> t]

\* The migrations in order; 0 is the statement that creates schema_migrations.
Body ==
  [v \in 0 .. 3 |->
     << <<Create("schema_migrations")>>,
        <<Create("api_keys"), Create("usage_records"), Create("quota_totals")>>,
        <<Alter("api_keys"), Alter("usage_records"), Alter("quota_totals")>>,
        <<Create("upstream_keys")>> >>[v + 1]]

Versions == 1 .. 3
StatementsOf(v) == {v} \X (1 .. Len(Body[v]))
Statements == UNION {StatementsOf(v) : v \in 0 .. 3}

VARIABLES
  env,       \* the environment of each replica
  pc,        \* where each replica is in run
  ver,       \* the version Migrate is at
  stmt,      \* the next statement of that version
  queued,    \* the replica's statement is waiting for a lock
  ticker,    \* its refresher: "none", "starting" or "running"
  held,      \* the table a writer has locked, "none" between statements
  recorded,  \* versions in schema_migrations
  done,      \* statements whose effect is committed
  hasKey,    \* upstream_keys has an active row
  faults     \* failures and crashes so far

vars == <<env, pc, ver, stmt, queued, ticker, held, recorded, done, hasKey, faults>>

Pcs == {"down", "open", "check", "body", "insert", "commit",
        "keystore", "bootstrap", "bootset", "listen", "serving"}

(***************************************************************************)
(* The shape of the state: Migrate never leaves the list of migrations.    *)
(***************************************************************************)
TypeOK ==
  /\ env \in [Replicas -> Envs]
  /\ pc \in [Replicas -> Pcs]
  /\ ver \in [Replicas -> 0 .. 3]
  /\ stmt \in [Replicas -> 1 .. 4]
  /\ queued \in [Replicas -> BOOLEAN]
  /\ ticker \in [Replicas -> {"none", "starting", "running"}]
  /\ held \in [Writers -> {"none", "usage_records", "quota_totals"}]
  /\ recorded \subseteq Versions
  /\ done \subseteq Statements
  /\ hasKey \in BOOLEAN
  /\ faults \in 0 .. MaxFaults

\* An empty database, or one an earlier release has left.
Init ==
  /\ env \in [Replicas -> Envs]
  /\ pc = [r \in Replicas |-> "down"]
  /\ ver = [r \in Replicas |-> 0]
  /\ stmt = [r \in Replicas |-> 1]
  /\ queued = [r \in Replicas |-> FALSE]
  /\ ticker = [r \in Replicas |-> "none"]
  /\ held = [w \in Writers |-> "none"]
  /\ \/ recorded = {} /\ done = {} /\ hasKey = FALSE
     \/ \E last \in Versions :
          /\ recorded = 1 .. last
          /\ done = UNION {StatementsOf(v) : v \in 0 .. last}
          /\ hasKey \in (IF last = 3 THEN BOOLEAN ELSE {FALSE})
  /\ faults = 0

schema == <<recorded, done>>
outside == <<env, held>>

Goto(r, l) == pc' = [pc EXCEPT ![r] = l]

\* run returns an error, or the process dies: its transaction is rolled back.
Exit(r) ==
  /\ Goto(r, "down")
  /\ queued' = [queued EXCEPT ![r] = FALSE]
  /\ ticker' = [ticker EXCEPT ![r] = "none"]
  /\ UNCHANGED <<ver, stmt>>

----------------------------------------------------------------------------
(* Up to Migrate                                                           *)

\* A process is started.  If a required variable is missing or SESSION_SECRET
\* is too short it exits at once, that is, it stays down.
Load(r) ==
  /\ pc[r] = "down"
  /\ env[r].config # "missing"
  /\ Goto(r, "open")
  /\ UNCHANGED <<outside, ver, stmt, queued, ticker, schema, hasKey, faults>>

Open(r) ==
  /\ pc[r] = "open"
  /\ Goto(r, "body")
  /\ ver' = [ver EXCEPT ![r] = 0]
  /\ stmt' = [stmt EXCEPT ![r] = 1]
  /\ UNCHANGED <<outside, queued, ticker, schema, hasKey, faults>>

----------------------------------------------------------------------------
(* Migrate                                                                 *)

\* Mutated form: the loop runs once too often.
NextVersionPast(r) ==
  /\ Goto(r, IF ver[r] > 3 THEN "keystore" ELSE "check")
  /\ ver' = [ver EXCEPT ![r] = @ + 1]

NextVersion(r) ==
  IF ver[r] = 3
  THEN Goto(r, "keystore") /\ UNCHANGED ver
  ELSE Goto(r, "check") /\ ver' = [ver EXCEPT ![r] = @ + 1]

\* Mutated form: a version that exists ends Migrate instead of this round.
CheckReturns(r) ==
  /\ pc[r] = "check"
  /\ Goto(r, IF ver[r] \in recorded THEN "keystore" ELSE "body")
  /\ stmt' = [stmt EXCEPT ![r] = 1]
  /\ UNCHANGED <<outside, ver, queued, ticker, schema, hasKey, faults>>

\* SELECT EXISTS(...), and Begin if the version is missing.
Check(r) ==
  /\ pc[r] = "check"
  /\ IF ver[r] \in recorded
     THEN NextVersion(r) /\ UNCHANGED stmt
     ELSE Goto(r, "body") /\ stmt' = [stmt EXCEPT ![r] = 1] /\ UNCHANGED ver
  /\ UNCHANGED <<outside, queued, ticker, schema, hasKey, faults>>

Statement(r) == Body[ver[r]][stmt[r]]

\* Tables r's open transaction has created or locked.
Locked(r) ==
  {Body[ver[r]][i].table : i \in
     {j \in 1 .. stmt[r] - 1 : /\ pc[r] \in {"body", "insert", "commit"}
                               /\ \/ Body[ver[r]][j].op = "alter"
                                  \/ <<ver[r], j>> \notin done}}

WaitsForReplica(r) == \E q \in Replicas \ {r} : Statement(r).table \in Locked(q)
WaitsForWriter(r) ==
  Statement(r).op = "alter" /\ \E w \in Writers : held[w] = Statement(r).table
Waits(r) == WaitsForReplica(r) \/ WaitsForWriter(r)

AfterStatement(r) ==
  IF stmt[r] < Len(Body[ver[r]]) THEN "body"
  ELSE IF ver[r] = 0 THEN "commit" ELSE "insert"

\* Mutated form: the migration runs on the pool instead of the transaction.
ExecOnPool(r) ==
  /\ pc[r] = "body" /\ ~Waits(r)
  /\ done' = done \cup {<<ver[r], stmt[r]>>}
  /\ Goto(r, AfterStatement(r))
  /\ stmt' = [stmt EXCEPT ![r] = @ + 1]
  /\ UNCHANGED <<outside, ver, queued, ticker, recorded, hasKey, faults>>

\* One statement of tx.Exec(body), or the first Exec of Migrate.
Exec(r) ==
  /\ pc[r] = "body" /\ ~Waits(r)
  /\ IF Statement(r).op = "create" /\ queued[r] /\ <<ver[r], stmt[r]>> \in done
     THEN Exit(r)
     ELSE /\ Goto(r, AfterStatement(r))
          /\ stmt' = [stmt EXCEPT ![r] = @ + 1]
          /\ queued' = [queued EXCEPT ![r] = FALSE]
          /\ UNCHANGED <<ver, ticker>>
  /\ UNCHANGED <<outside, schema, hasKey, faults>>

\* Mutated form: the statement gives up instead of waiting.
ExecGivesUp(r) ==
  /\ pc[r] = "body" /\ Waits(r)
  /\ Exit(r)
  /\ UNCHANGED <<outside, schema, hasKey, faults>>

ExecQueues(r) ==
  /\ pc[r] = "body" /\ Waits(r) /\ ~queued[r]
  /\ queued' = [queued EXCEPT ![r] = TRUE]
  /\ UNCHANGED <<outside, pc, ver, stmt, ticker, schema, hasKey, faults>>

\* INSERT INTO schema_migrations: the primary key refuses a second row, and
\* makes the INSERT wait for one that is not committed.
InsertVersion(r) ==
  /\ pc[r] = "insert"
  /\ ~ \E q \in Replicas \ {r} : pc[q] = "commit" /\ ver[q] = ver[r]
  /\ IF ver[r] \in recorded
     THEN Exit(r)
     ELSE Goto(r, "commit") /\ UNCHANGED <<ver, stmt, queued, ticker>>
  /\ UNCHANGED <<outside, schema, hasKey, faults>>

CommitVersion(r) ==
  /\ done' = done \cup StatementsOf(ver[r])
  /\ recorded' = recorded \cup ({ver[r]} \ {0})

Commit(r) ==
  /\ pc[r] = "commit"
  /\ CommitVersion(r)
  /\ NextVersion(r)
  /\ UNCHANGED <<outside, stmt, queued, ticker, hasKey, faults>>

----------------------------------------------------------------------------
(* From Migrate to serving                                                 *)

\* url.Parse, pricing.Load, whose failure only leaves the table empty, and
\* NewUpstreamStore, which needs a KEY_ENCRYPTION_KEY of 32 hex bytes.
KeyStore(r) ==
  /\ pc[r] = "keystore"
  /\ IF env[r].config = "malformed"
     THEN Exit(r)
     ELSE Goto(r, "bootstrap") /\ UNCHANGED <<ver, stmt, queued, ticker>>
  /\ UNCHANGED <<outside, schema, hasKey, faults>>

\* Bootstrap has returned nil; StartRefresher starts a goroutine.
StartRefresher(r) ==
  /\ Goto(r, "listen")
  /\ ticker' = [ticker EXCEPT ![r] = "starting"]
  /\ UNCHANGED <<ver, stmt, queued>>

\* Bootstrap's first refresh.
Bootstrap(r) ==
  /\ pc[r] = "bootstrap"
  /\ CASE hasKey -> StartRefresher(r)
       [] ~hasKey /\ env[r].fallback ->
            Goto(r, "bootset") /\ UNCHANGED <<ver, stmt, queued, ticker>>
       [] OTHER -> Exit(r)
  /\ UNCHANGED <<outside, schema, hasKey, faults>>

\* Bootstrap's Set: it may lose to a key set in the meantime (UpstreamKeys).
BootstrapSet(r) ==
  /\ pc[r] = "bootset"
  /\ \/ StartRefresher(r)
     \/ hasKey /\ Exit(r)
  /\ hasKey' = TRUE
  /\ UNCHANGED <<outside, schema, faults>>

Listen(r) ==
  /\ pc[r] = "listen"
  /\ Goto(r, "serving")
  /\ UNCHANGED <<outside, ver, stmt, queued, ticker, schema, hasKey, faults>>

Interval(r) == durationEnv(env[r].refresh, DefaultRefresh)

\* time.NewTicker, in the refresher's goroutine: it panics, and takes the
\* process along, unless the interval is positive.
NewTicker(r) ==
  /\ ticker[r] = "starting"
  /\ IF Interval(r) <= 0
     THEN Exit(r)
     ELSE /\ ticker' = [ticker EXCEPT ![r] = "running"]
          /\ UNCHANGED <<pc, ver, stmt, queued>>
  /\ UNCHANGED <<outside, schema, hasKey, faults>>

----------------------------------------------------------------------------
(* Failures, and the requests of other replicas                            *)

\* A call to Postgres or Redis fails, the address is taken, or the process
\* is killed.
Fault(r) ==
  /\ pc[r] # "down"
  /\ faults < MaxFaults /\ faults' = faults + 1
  /\ Exit(r)
  /\ UNCHANGED <<outside, schema, hasKey>>

\* The commit took effect but its answer was lost.
CommitLost(r) ==
  /\ pc[r] = "commit"
  /\ faults < MaxFaults /\ faults' = faults + 1
  /\ CommitVersion(r)
  /\ Exit(r)
  /\ UNCHANGED <<outside, hasKey>>

\* RecordRequest or AddUsage locks its table; it queues behind an ALTER.
WriterInserts(w, t) ==
  /\ held[w] = "none"
  /\ 1 \in recorded
  /\ \A r \in Replicas : t \notin Locked(r)
  /\ ~ \E r \in Replicas : queued[r] /\ Statement(r).table = t
  /\ held' = [held EXCEPT ![w] = t]
  /\ UNCHANGED <<env, pc, ver, stmt, queued, ticker, schema, hasKey, faults>>

WriterBlocked(w) == \E r \in Replicas : "api_keys" \in Locked(r)

\* The foreign key check, and the end of the statement.
WriterEnds(w) ==
  /\ held[w] # "none" /\ ~WriterBlocked(w)
  /\ held' = [held EXCEPT ![w] = "none"]
  /\ UNCHANGED <<env, pc, ver, stmt, queued, ticker, schema, hasKey, faults>>

\* r waits for w's table and w for r's api_keys: Postgres aborts one of them.
Deadlocked(r, w) ==
  /\ pc[r] = "body" /\ queued[r] /\ Statement(r).table = held[w]
  /\ "api_keys" \in Locked(r)

AbortWriter(w) ==
  /\ \E r \in Replicas : Deadlocked(r, w)
  /\ held' = [held EXCEPT ![w] = "none"]
  /\ UNCHANGED <<env, pc, ver, stmt, queued, ticker, schema, hasKey, faults>>

AbortMigration(r) ==
  /\ \E w \in Writers : Deadlocked(r, w)
  /\ faults < MaxFaults /\ faults' = faults + 1
  /\ Exit(r)
  /\ UNCHANGED <<outside, schema, hasKey>>

----------------------------------------------------------------------------
Step(r) ==
  \/ Load(r) \/ Open(r) \/ Check(r) \/ Exec(r) \/ ExecQueues(r)
  \/ InsertVersion(r) \/ Commit(r) \/ KeyStore(r) \/ Bootstrap(r)
  \/ BootstrapSet(r) \/ Listen(r)

Next ==
  \/ \E r \in Replicas : Step(r) \/ NewTicker(r)
  \/ \E r \in Replicas : Fault(r) \/ CommitLost(r) \/ AbortMigration(r)
  \/ \E w \in Writers :
       \/ WriterEnds(w) \/ AbortWriter(w)
       \/ \E t \in {"usage_records", "quota_totals"} : WriterInserts(w, t)

Spec == Init /\ [][Next]_vars

(***************************************************************************)
(* Replicas are started again and go on, statements that are not blocked   *)
(* end, and Postgres resolves deadlocks.  Failures, among them a deadlock  *)
(* resolved against the migration, happen finitely often.                  *)
(***************************************************************************)
Fairness ==
  /\ \A r \in Replicas : WF_vars(Step(r)) /\ WF_vars(NewTicker(r))
  /\ \A w \in Writers : WF_vars(WriterEnds(w)) /\ WF_vars(AbortWriter(w))

FairSpec == Spec /\ Fairness

----------------------------------------------------------------------------
(* Properties                                                              *)

(***************************************************************************)
(* schema_migrations tells the truth: the versions in it are the first     *)
(* ones in order, and exactly their statements have taken effect, whoever  *)
(* raced, failed or died in the middle of a migration.                     *)
(***************************************************************************)
SchemaMatchesRecord ==
  /\ recorded = 1 .. Cardinality(recorded)
  /\ done \ StatementsOf(0) = UNION {StatementsOf(v) : v \in recorded}

Migrated == {"keystore", "bootstrap", "bootset", "listen", "serving"}

(***************************************************************************)
(* A replica whose Migrate has returned nil works on the full schema, also *)
(* when it found versions missing that others were applying.               *)
(***************************************************************************)
MigratedMeansComplete ==
  \A r \in Replicas : pc[r] \in Migrated => recorded = Versions

(***************************************************************************)
(* Migrate only loses a race that somebody has won: when it fails for no   *)
(* outside reason, what it was applying has been applied, so that the next *)
(* start gets past it.                                                     *)
(***************************************************************************)
LosesOnlyToWinner ==
  [][\A r \in Replicas :
       pc[r] \in {"body", "insert"} /\ pc'[r] = "down" /\ faults' = faults
         => StatementsOf(ver[r]) \subseteq done]_vars

Configured(r) ==
  /\ env[r].config = "ok"
  /\ env[r].refresh.form = "number" => env[r].refresh.n > 0

(***************************************************************************)
(* Once the outside failures are over, exactly those replicas serve for    *)
(* good that have a complete configuration, an UPSTREAM_REFRESH that is    *)
(* not a number below one, and a key to start from (their own or one in    *)
(* the table): lost races end, and no other replica holds one up.          *)
(***************************************************************************)
ServesIffConfigured ==
  \A r \in Replicas :
    /\ <>(Configured(r) /\ (env[r].fallback \/ hasKey)) => <>[](pc[r] = "serving")
    /\ <>[](pc[r] = "serving") => <>(Configured(r) /\ hasKey)

============================================================================
