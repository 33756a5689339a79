---------------------------- MODULE UpstreamKeys ----------------------------
(***************************************************************************)
(* The upstream OpenAI key (internal/keys/upstream.go): the upstream_keys  *)
(* table, the snapshot each replica serves from, the refresher that polls  *)
(* the table, rotation by an administrator (Set) and Bootstrap.            *)
(*                                                                         *)
(* A key is identified with its row.  AES-GCM and the display prefix are   *)
(* left out: decrypt undoes encrypt for a fixed KEY_ENCRYPTION_KEY, and a  *)
(* blob that does not decrypt makes refresh fail like any other error.     *)
(* Input that Set refuses before its transaction changes nothing and is    *)
(* left out.                                                               *)
(*                                                                         *)
(* Postgres runs Set's transaction at READ COMMITTED: the UPDATE works on  *)
(* the rows active when the statement began and waits for a row another    *)
(* transaction is retiring, and the partial unique index                   *)
(* upstream_keys_one_active makes the INSERT wait for, or fail on, another *)
(* active row.                                                             *)
(***************************************************************************)
EXTENDS Naturals, Sequences, FiniteSets

CONSTANTS
  Replicas,   \* proxy processes
  Admins,     \* goroutines serving POST /admin/api/upstream
  Fallback,   \* replicas started with OPENAI_API_KEY
  MaxRows     \* bound: no rotation starts that could make more rows

ASSUME ReplicasAssumption ==
  /\ Replicas \cap Admins = {}
  /\ Fallback \subseteq Replicas
  /\ MaxRows \in Nat

\* A replica's own goroutine first boots, then is the refresher.
Procs == Replicas \cup Admins

TxPcs == {"update", "wait", "insert", "commit"}

VARIABLES
  rows,      \* committed upstream_keys, oldest first
  status,    \* of each replica: "down", "boot" or "serving"
  cache,     \* the row in each replica's snapshot, 0 for a nil pointer
  pc,        \* where each goroutine is
  job,       \* what a goroutine is running refresh or Set for
  on,        \* the replica a goroutine runs on
  retired,   \* the row an open transaction has retired and locked, 0 for none
  seen,      \* the row an UPDATE waits for, or a SELECT has read
  mine,      \* the row a Set has committed
  acked      \* history: newest row whose Set returned nil on this process

vars == <<rows, status, cache, pc, job, on, retired, seen, mine, acked>>

Active == {i \in DOMAIN rows : rows[i].active}

\* SELECT ... WHERE active LIMIT 1; 0 for pgx.ErrNoRows.
ActiveRow == IF Active = {} THEN 0 ELSE CHOOSE i \in Active : TRUE

RowRefs == 0 .. Len(rows)

(***************************************************************************)
(* The shape of the state: whatever a goroutine or a snapshot refers to is *)
(* a committed row.                                                        *)
(***************************************************************************)
TypeOK ==
  /\ rows \in Seq([active : BOOLEAN, origin : {"env", "admin"}])
  /\ status \in [Replicas -> {"down", "boot", "serving"}]
  /\ cache \in [Replicas -> RowRefs]
  /\ pc \in [Procs -> {"idle", "select", "store"} \cup TxPcs]
  /\ job \in [Procs -> {"boot", "bootSet", "booted", "tick", "rotate"}]
  /\ on \in [Procs -> Replicas]
  /\ retired \in [Procs -> RowRefs]
  /\ seen \in [Procs -> RowRefs]
  /\ mine \in [Procs -> RowRefs]
  /\ acked \in [Replicas -> RowRefs]

Init ==
  /\ rows = << >>
  /\ status = [r \in Replicas |-> "down"]
  /\ cache = [r \in Replicas |-> 0]
  /\ pc = [p \in Procs |-> "idle"]
  /\ job = [p \in Procs |-> IF p \in Replicas THEN "boot" ELSE "rotate"]
  /\ on \in [Procs -> Replicas] /\ \A r \in Replicas : on[r] = r
  /\ retired = [p \in Procs |-> 0]
  /\ seen = [p \in Procs |-> 0]
  /\ mine = [p \in Procs |-> 0]
  /\ acked = [r \in Replicas |-> 0]

Goto(p, l) == pc' = [pc EXCEPT ![p] = l]

----------------------------------------------------------------------------
(* Set: the transaction                                                    *)

LockedByOther(p, i) == \E q \in Procs \ {p} : retired[q] = i /\ i # 0

\* Mutated form: no deferred Rollback, the connection keeps its locks.
FailNoRollback(p) ==
  /\ Goto(p, "idle")
  /\ UNCHANGED retired
  /\ status' = IF p \in Replicas /\ status[p] = "boot"
               THEN [status EXCEPT ![p] = "down"]
               ELSE status

\* p's call ends with an error; its transaction is rolled back.  A replica
\* whose Bootstrap fails exits.
Fail(p) ==
  /\ Goto(p, "idle")
  /\ retired' = [retired EXCEPT ![p] = 0]
  /\ status' = IF p \in Replicas /\ status[p] = "boot"
               THEN [status EXCEPT ![p] = "down"]
               ELSE status

Retire(p, i) ==
  /\ retired' = [retired EXCEPT ![p] = i]
  /\ Goto(p, "insert")

\* UPDATE upstream_keys SET active = FALSE ... WHERE active
TxUpdate(p) ==
  /\ pc[p] = "update"
  /\ \/ /\ ~LockedByOther(p, ActiveRow)
        /\ Retire(p, ActiveRow)
        /\ UNCHANGED seen
     \/ /\ LockedByOther(p, ActiveRow)
        /\ seen' = [seen EXCEPT ![p] = ActiveRow]
        /\ Goto(p, "wait")
        /\ UNCHANGED retired
  /\ UNCHANGED <<rows, status, cache, job, on, mine, acked>>

\* The other transaction has ended.  If it committed, the row is no longer
\* active and the UPDATE skips it; a row inserted since is not looked at.
TxUpdateResume(p) ==
  /\ pc[p] = "wait"
  /\ ~LockedByOther(p, seen[p])
  /\ Retire(p, IF rows[seen[p]].active THEN seen[p] ELSE 0)
  /\ UNCHANGED <<rows, status, cache, job, on, seen, mine, acked>>

InsertWaits(p) ==
  \/ \E q \in Procs \ {p} : pc[q] = "commit"
  \/ LockedByOther(p, ActiveRow)

\* Mutated form: the new key is taken up before it is committed.
TxInsertAndStore(p) ==
  /\ pc[p] = "insert"
  /\ ~InsertWaits(p)
  /\ Active \subseteq {retired[p]}
  /\ Goto(p, "commit")
  /\ cache' = [cache EXCEPT ![on[p]] = Len(rows) + 1]
  /\ UNCHANGED <<rows, status, job, on, retired, seen, mine, acked>>

TxInsert(p) ==
  /\ pc[p] = "insert"
  /\ ~InsertWaits(p)
  /\ Active \subseteq {retired[p]}
  /\ Goto(p, "commit")
  /\ UNCHANGED <<rows, status, cache, job, on, retired, seen, mine, acked>>

\* The index already holds an active row: duplicate key.
TxInsertDuplicate(p) ==
  /\ pc[p] = "insert"
  /\ ~InsertWaits(p)
  /\ ~(Active \subseteq {retired[p]})
  /\ Fail(p)
  /\ UNCHANGED <<rows, cache, job, on, seen, mine, acked>>

NewRow(p) == [active |-> TRUE, origin |-> IF p \in Admins THEN "admin" ELSE "env"]

\* Mutated form: the UPDATE runs outside the transaction and is lost.
RetiredRowsNone(p) == rows

\* The table as p's UPDATE leaves it.
RetiredRows(p) ==
  [i \in DOMAIN rows |-> IF i = retired[p]
                         THEN [rows[i] EXCEPT !.active = FALSE]
                         ELSE rows[i]]

CommitRows(p) == rows' = Append(RetiredRows(p), NewRow(p))

\* Mutated form: the snapshot is filled from what was read before.
TxCommitNoSelect(p) ==
  /\ pc[p] = "commit"
  /\ CommitRows(p)
  /\ mine' = [mine EXCEPT ![p] = Len(rows) + 1]
  /\ retired' = [retired EXCEPT ![p] = 0]
  /\ Goto(p, "store")
  /\ UNCHANGED <<status, cache, job, on, seen, acked>>

TxCommit(p) ==
  /\ pc[p] = "commit"
  /\ CommitRows(p)
  /\ mine' = [mine EXCEPT ![p] = Len(rows) + 1]
  /\ retired' = [retired EXCEPT ![p] = 0]
  /\ Goto(p, "select")
  /\ UNCHANGED <<status, cache, job, on, seen, acked>>

\* The commit took effect but its answer was lost: Set returns an error.
TxCommitLost(p) ==
  /\ pc[p] = "commit"
  /\ CommitRows(p)
  /\ Fail(p)
  /\ UNCHANGED <<cache, job, on, seen, mine, acked>>

\* A statement fails or the request context is cancelled.
TxFail(p) ==
  /\ pc[p] \in TxPcs
  /\ Fail(p)
  /\ UNCHANGED <<rows, cache, job, on, seen, mine, acked>>

----------------------------------------------------------------------------
(* refresh, and what its three callers do with its result                  *)

RefreshSelect(p) ==
  /\ pc[p] = "select"
  /\ \/ /\ ActiveRow # 0
        /\ seen' = [seen EXCEPT ![p] = ActiveRow]
        /\ Goto(p, "store")
        /\ UNCHANGED <<status, job, retired>>
     \/ \* Bootstrap, no active row: try the fallback.
        /\ ActiveRow = 0 /\ job[p] = "boot" /\ p \in Fallback
        /\ job' = [job EXCEPT ![p] = "bootSet"]
        /\ Goto(p, "update")
        /\ UNCHANGED <<status, retired, seen>>
     \/ \* No fallback, or the refresher: the snapshot stays as it is.
        /\ ActiveRow = 0 /\ ~(job[p] = "boot" /\ p \in Fallback)
        /\ Fail(p)
        /\ UNCHANGED <<job, seen>>
  /\ UNCHANGED <<rows, cache, on, mine, acked>>

\* s.cache.Store, then return: Set's refresh inside Bootstrap is followed by
\* Bootstrap's own, which ends the boot; an administrator gets a 200.
RefreshStore(p) ==
  /\ pc[p] = "store"
  /\ cache' = [cache EXCEPT ![on[p]] = seen[p]]
  /\ \/ /\ job[p] = "bootSet"
        /\ job' = [job EXCEPT ![p] = "booted"]
        /\ Goto(p, "select")
        /\ UNCHANGED <<status, acked>>
     \/ /\ job[p] \in {"boot", "booted"}
        /\ status' = [status EXCEPT ![p] = "serving"]
        /\ job' = [job EXCEPT ![p] = "tick"]
        /\ Goto(p, "idle")
        /\ UNCHANGED acked
     \/ /\ job[p] = "tick"
        /\ Goto(p, "idle")
        /\ UNCHANGED <<status, job, acked>>
     \/ /\ job[p] = "rotate"
        /\ acked' = [acked EXCEPT ![on[p]] =
                       IF mine[p] > @ THEN mine[p] ELSE @]
        /\ Goto(p, "idle")
        /\ UNCHANGED <<status, job>>
  /\ UNCHANGED <<rows, on, retired, seen, mine>>

\* Mutated form: Bootstrap carries on when the table cannot be read.
RefreshFailServes(p) ==
  /\ pc[p] \in {"select", "store"}
  /\ Goto(p, "idle")
  /\ status' = IF p \in Replicas THEN [status EXCEPT ![p] = "serving"]
               ELSE status
  /\ job' = IF p \in Replicas THEN [job EXCEPT ![p] = "tick"] ELSE job
  /\ UNCHANGED <<rows, cache, on, retired, seen, mine, acked>>

\* The SELECT fails or the row does not decrypt.
RefreshFail(p) ==
  /\ pc[p] \in {"select", "store"}
  /\ Fail(p)
  /\ UNCHANGED <<rows, cache, job, on, seen, mine, acked>>

\* Mutated form: the refresher only fills an empty snapshot.
RefreshTickIfNil(r) ==
  /\ status[r] = "serving"
  /\ cache[r] = 0
  /\ pc[r] = "idle"
  /\ Goto(r, "select")
  /\ UNCHANGED <<rows, status, cache, job, on, retired, seen, mine, acked>>

\* The ticker fires.
RefreshTick(r) ==
  /\ status[r] = "serving"
  /\ pc[r] = "idle"
  /\ Goto(r, "select")
  /\ UNCHANGED <<rows, status, cache, job, on, retired, seen, mine, acked>>

----------------------------------------------------------------------------
(* Processes                                                               *)

\* A new process, with a nil snapshot, calls Bootstrap.
Boot(r) ==
  /\ status[r] = "down"
  /\ status' = [status EXCEPT ![r] = "boot"]
  /\ cache' = [cache EXCEPT ![r] = 0]
  /\ job' = [job EXCEPT ![r] = "boot"]
  /\ Goto(r, "select")
  /\ UNCHANGED <<rows, on, retired, seen, mine, acked>>

Setting == {p \in Procs : pc[p] \in TxPcs}

\* rotateUpstreamKey calls Set.
Rotate(a, r) ==
  /\ pc[a] = "idle"
  /\ status[r] = "serving"
  /\ Len(rows) + Cardinality(Setting) < MaxRows
  /\ on' = [on EXCEPT ![a] = r]
  /\ Goto(a, "update")
  /\ UNCHANGED <<rows, status, cache, job, retired, seen, mine, acked>>

\* The process dies: its calls are gone, its transactions are rolled back.
Crash(r) ==
  /\ status[r] # "down"
  /\ status' = [status EXCEPT ![r] = "down"]
  /\ cache' = [cache EXCEPT ![r] = 0]
  /\ acked' = [acked EXCEPT ![r] = 0]
  /\ pc' = [p \in Procs |-> IF on[p] = r THEN "idle" ELSE pc[p]]
  /\ retired' = [p \in Procs |-> IF on[p] = r THEN 0 ELSE retired[p]]
  /\ UNCHANGED <<rows, job, on, seen, mine>>

Next ==
  \/ \E p \in Procs :
       \/ TxUpdate(p) \/ TxUpdateResume(p) \/ TxInsert(p)
       \/ TxInsertDuplicate(p) \/ TxCommit(p) \/ TxCommitLost(p) \/ TxFail(p)
       \/ RefreshSelect(p) \/ RefreshStore(p) \/ RefreshFail(p)
  \/ \E r \in Replicas : RefreshTick(r) \/ Boot(r) \/ Crash(r)
  \/ \E a \in Admins, r \in Replicas : Rotate(a, r)

Spec == Init /\ [][Next]_vars

(***************************************************************************)
(* The ticker keeps firing, and a database that can be reached again and   *)
(* again eventually answers the refresher.  Nothing is assumed of          *)
(* administrators, transactions, crashes or restarts.                      *)
(***************************************************************************)
Fairness ==
  \A r \in Replicas :
    /\ WF_vars(RefreshTick(r))
    /\ SF_vars(RefreshSelect(r))
    /\ SF_vars(RefreshStore(r))

FairSpec == Spec /\ Fairness

----------------------------------------------------------------------------
(* Properties                                                              *)

(***************************************************************************)
(* Once a key has been committed there is always exactly one active row,   *)
(* and it is the newest: concurrent rotations, concurrent first boots,     *)
(* rollbacks and crashes in the middle of Set neither leave the table      *)
(* without a key nor bring a retired one back.                             *)
(***************************************************************************)
NewestIsActive == rows # << >> => Active = {Len(rows)}

(***************************************************************************)
(* A replica that accepts traffic always has a key to put into the         *)
(* Authorization header: Current never returns the empty string there.     *)
(***************************************************************************)
ServingHasKey == \A r \in Replicas : status[r] = "serving" => cache[r] # 0

(***************************************************************************)
(* The refresh at the end of Set reads the row Set committed or a newer    *)
(* one, so when Set returns nil the replica has taken up the change.       *)
(***************************************************************************)
SetReadsOwnRow ==
  \A a \in Admins : pc[a] = "store" => seen[a] >= mine[a]

\* p's statement is waiting for another transaction.
Blocked(p) ==
  \/ pc[p] = "wait" /\ LockedByOther(p, seen[p])
  \/ pc[p] = "insert" /\ InsertWaits(p)

(***************************************************************************)
(* Rotations never wait for each other in a circle: whenever a statement   *)
(* of one is blocked, another open transaction can go on.                  *)
(***************************************************************************)
NoLockCycle ==
  \A p \in Procs : Blocked(p) =>
    \E q \in Procs \ {p} : pc[q] \in {"insert", "commit"} /\ ~Blocked(q)

(***************************************************************************)
(* StartRefresher: once rotations have stopped, a replica that stays up    *)
(* ends up with the active key and keeps it, even if the last refresh of a *)
(* rotation on it stored an older one.                                     *)
(***************************************************************************)
RotationPropagates ==
  \A r \in Replicas :
    <>[](status[r] = "serving") => <>[](cache[r] = ActiveRow)

(***************************************************************************)
(* Set, refresh, Bootstrap and the refresher implement KeyRotation: though *)
(* a rotation is a transaction of several statements, and refresh reads    *)
(* and stores in separate steps of several goroutines, keys are set one    *)
(* after the other, and what a serving replica sends was the newest key at *)
(* some moment of the refresh that stored it.                              *)
(***************************************************************************)
Rotation == INSTANCE KeyRotation WITH
  newest <- Len(rows),
  looked <- [r \in Replicas |->
               {seen[p] : p \in {q \in Procs : on[q] = r /\ pc[q] = "store"}}],
  served <- [r \in Replicas |-> IF status[r] = "serving" THEN cache[r] ELSE 0]

ImplementsRotation == Rotation!Spec

(***************************************************************************)
(* "Refreshes the in-memory cache before returning so the caller sees the  *)
(* change immediately": after Set has returned nil, the replica that       *)
(* served it never goes back to an older key.                              *)
(***************************************************************************)
CallerSeesChange == \A r \in Replicas : cache[r] >= acked[r]

(***************************************************************************)
(* "If the table is empty ... inserted as the first active row": Bootstrap *)
(* never replaces a key an administrator has set by the one from the       *)
(* environment.                                                            *)
(***************************************************************************)
FallbackOnlyWhenEmpty ==
  \A i \in DOMAIN rows : rows[i].origin = "env" =>
    \A j \in 1 .. i - 1 : rows[j].origin = "env"

============================================================================
