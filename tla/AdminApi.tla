------------------------------ MODULE AdminApi ------------------------------
(***************************************************************************)
(* The admin API (internal/admin/api.go, auth.go): login, the signed       *)
(* tokens, the middleware that checks them and the handlers behind it, on  *)
(* replicas whose clocks differ and whose password or SESSION_SECRET       *)
(* changes when they are deployed again.                                   *)
(*                                                                         *)
(* A token is its expiry and the secret it is signed with: HMAC is taken   *)
(* to be unforgeable, and a token of no known secret stands for anything   *)
(* else a client may send.  Of a key's columns rpm_limit, token_quota (set *)
(* or null) and active are kept.  The handlers' calls into keys.Service    *)
(* are single statements here; their cache side is in VerifyCache, Set's   *)
(* transaction in UpstreamKeys.                                            *)
(***************************************************************************)
EXTENDS Integers, FiniteSets

CONSTANTS
  Replicas,
  Clients,      \* administrators' browsers, one request at a time each
  Keys,         \* ids: each is issued at most once
  Passwords, Secrets,
  TTL,          \* SESSION_TTL in ticks
  Second,       \* ticks per second: expiry is in whole seconds
  MaxSkew,      \* how far a replica's clock may be ahead
  MaxTime,      \* bound on the clock
  MaxTokens,    \* bound on tokens issued
  MaxDeploys    \* bound on redeployments

ASSUME AdminAssumption ==
  /\ Replicas # {} /\ Passwords # {} /\ Secrets # {} /\ "none" \notin Secrets
  /\ TTL \in Nat /\ Second \in Nat \ {0} /\ MaxSkew \in Nat
  /\ MaxTime \in Nat /\ MaxTokens \in Nat /\ MaxDeploys \in Nat

Reports == {"usageSummary", "usageByModel", "usageRecentAll"}

\* What a request with a token asks for.  "bad" is an id, a body or a field
\* that is refused.
Ops ==
  ({"createKey", "updateKey"} \X {"limit", "quota", "bad"})
  \cup ({"toggleActive"} \X {"on", "off", "bad"})
  \cup ({"getKey", "deleteKey", "usageRecent", "rotateUpstreamKey"} \X {"ok", "bad"})
  \cup ({"me", "listKeys", "stats", "upstreamKeys"} \cup Reports) \X {"ok"}

VARIABLES
  now,      \* time
  skew,     \* how far each replica's clock is ahead
  conf,     \* each replica's ADMIN_PASSWORD and SESSION_SECRET
  tokens,   \* tokens issued; "at" (history) is when
  table,    \* api_keys: "free", "gone" or a row, as a set of at most one row
  req,      \* the request of each client
  deploys

vars == <<now, skew, conf, tokens, table, req, deploys>>

Rows == [limit : BOOLEAN, quota : BOOLEAN, active : BOOLEAN]
Tokens == [exp : Nat, secret : Secrets, at : Nat]
NoToken == [exp |-> 0, secret |-> "none", at |-> 0]

Idle == [pc |-> "idle", on |-> CHOOSE r \in Replicas : TRUE, op |-> <<"me", "ok">>,
         token |-> NoToken, at |-> 0, status |-> 0, effect |-> FALSE,
         failed |-> 0]

(***************************************************************************)
(* The shape of the state; a key has at most one row.                      *)
(***************************************************************************)
TypeOK ==
  /\ now \in 0 .. MaxTime
  /\ skew \in [Replicas -> 0 .. MaxSkew]
  /\ conf \in [Replicas -> [password : Passwords, secret : Secrets]]
  /\ tokens \subseteq Tokens /\ Cardinality(tokens) <= MaxTokens
  /\ table \in [Keys -> [used : BOOLEAN, rows : SUBSET Rows]]
  /\ \A k \in Keys : Cardinality(table[k].rows) <= 1
  /\ \A c \in Clients :
       /\ req[c].pc \in {"idle", "handle", "second", "answered"}
       /\ req[c].on \in Replicas
       /\ req[c].token \in tokens \cup {NoToken}
       /\ req[c].at \in 0 .. now
       /\ req[c].status \in {0, 200, 201, 204, 400, 401, 404, 500}
       /\ req[c].effect \in BOOLEAN
       /\ req[c].failed \in 0 .. 2
  /\ deploys \in 0 .. MaxDeploys

Init ==
  /\ now = 0
  /\ skew \in [Replicas -> 0 .. MaxSkew]
  /\ conf = [r \in Replicas |-> [password |-> CHOOSE p \in Passwords : TRUE,
                                 secret |-> CHOOSE s \in Secrets : TRUE]]
  /\ tokens = {}
  /\ table = [k \in Keys |-> [used |-> FALSE, rows |-> {}]]
  /\ req = [c \in Clients |-> Idle]
  /\ deploys = 0

Kind(c) == req[c].op[1]
Arg(c) == req[c].op[2]
On(c) == conf[req[c].on]
Clock(r) == now + skew[r]

\* effect: the request has changed the database; failed: the number of the
\* call that returned an error, 0 for none.
Answer(c, status, effect, failed) ==
  req' = [req EXCEPT ![c].pc = "answered", ![c].status = status,
                     ![c].effect = effect, ![c].failed = failed]

\* An answer that leaves the database alone.
Reply(c, status) == Answer(c, status, FALSE, 0) /\ UNCHANGED table

----------------------------------------------------------------------------
(* Tokens                                                                  *)

\* Mutated form: the expiry is rounded up.
ExpiryCeil(r) == (Clock(r) + TTL + Second) \div Second

\* time.Now().Add(a.ttl).Unix()
Expiry(r) == (Clock(r) + TTL) \div Second

\* Mutated form: now is compared in whole seconds, and the last one is out.
ValidateBearerStrict(r, t) ==
  t.secret = conf[r].secret /\ t.exp > Clock(r) \div Second

ValidateBearer(r, t) ==
  t.secret = conf[r].secret /\ ~(t.exp * Second < Clock(r))

----------------------------------------------------------------------------
(* Requests                                                                *)

\* A request of c arrives at r.
Arrived(c, r, op, t) ==
  [Idle EXCEPT !.on = r, !.op = op, !.token = t, !.at = now]

\* CORS: an OPTIONS request goes no further.
Preflight(c, r) ==
  /\ req[c].pc = "idle"
  /\ req' = [req EXCEPT ![c] = [Arrived(c, r, <<"OPTIONS", "ok">>, NoToken)
                                EXCEPT !.pc = "answered", !.status = 204]]
  /\ UNCHANGED <<now, skew, conf, tokens, table, deploys>>

\* "bad" is a body that is not JSON.
Login(c, r, password) ==
  /\ req[c].pc = "idle"
  /\ Cardinality(tokens) < MaxTokens
  /\ tokens' = IF password = conf[r].password
               THEN tokens \cup {[exp |-> Expiry(r), secret |-> conf[r].secret,
                                  at |-> now]}
               ELSE tokens
  /\ req' = [req EXCEPT ![c] = [Arrived(c, r, <<"login", password>>, NoToken)
       EXCEPT !.pc = "answered",
              !.status = CASE password = "bad" -> 400
                           [] password = conf[r].password -> 200
                           [] OTHER -> 401]]
  /\ UNCHANGED <<now, skew, conf, table, deploys>>

\* Mutated form: deleteKey is mounted without authed.
AuthedButDelete(kind) == kind # "deleteKey"

\* Mount wraps every other route in the middleware; me does the same check.
Authed(kind) == TRUE

\* Middleware: the handler is called, or not.
Authorize(c, r, op, t) ==
  /\ req[c].pc = "idle"
  /\ req' = [req EXCEPT ![c] =
       IF Authed(op[1]) /\ ~ValidateBearer(r, t)
       THEN [Arrived(c, r, op, t) EXCEPT !.pc = "answered", !.status = 401]
       ELSE [Arrived(c, r, op, t) EXCEPT !.pc = "handle"]]
  /\ UNCHANGED <<now, skew, conf, tokens, table, deploys>>

Handling(c, kinds) == req[c].pc = "handle" /\ Kind(c) \in kinds
Others == UNCHANGED <<now, skew, conf, tokens, deploys>>

\* The request has done its first call and goes on to a second.
GoOn(c) == req' = [req EXCEPT ![c].pc = "second", ![c].effect = TRUE]

\* A statement fails, or takes effect although its answer is lost.
Fails(c, changed, status) ==
  \/ UNCHANGED table /\ Answer(c, status, FALSE, 1)
  \/ table' = changed /\ Answer(c, status, TRUE, 1)

Stored(row) == [used |-> TRUE, rows |-> {row}]
Exists(k) == table[k].rows # {}
RowOf(k) == CHOOSE row \in table[k].rows : TRUE

\* The parameters of a request: what it leaves out is null.
Limits(arg) == [limit |-> arg = "limit", quota |-> arg = "quota", active |-> TRUE]

\* createKey, up to Issue's INSERT INTO api_keys.
CreateKey(c) ==
  /\ Handling(c, {"createKey"})
  /\ \/ Arg(c) = "bad" /\ Reply(c, 400)
     \/ /\ Arg(c) # "bad"
        /\ \E k \in Keys :
             LET changed == [table EXCEPT ![k] = Stored(Limits(Arg(c)))] IN
               /\ ~table[k].used
               /\ \/ table' = changed /\ GoOn(c)
                  \/ Fails(c, changed, 500)
  /\ Others

\* Mutated form: the error of the second INSERT is returned.
InsertTotalsStrict(c) ==
  /\ req[c].pc = "second" /\ Kind(c) = "createKey"
  /\ Answer(c, 201, TRUE, 0) \/ Answer(c, 500, TRUE, 2)
  /\ UNCHANGED table
  /\ Others

\* Issue's INSERT INTO quota_totals, whose error is dropped.
InsertTotals(c) ==
  /\ req[c].pc = "second" /\ Kind(c) = "createKey"
  /\ \E failed \in {0, 2} : Answer(c, 201, TRUE, failed)
  /\ UNCHANGED table
  /\ Others

\* UPDATE ... SET of every editable column.
Updated(row, arg) ==
  [row EXCEPT !.limit = Limits(arg).limit, !.quota = Limits(arg).quota]

\* Mutated form: a change is stored beside the row it changes.
AfterBeside(c, k) ==
  [used |-> TRUE, rows |-> table[k].rows \cup
     {[RowOf(k) EXCEPT !.active = Kind(c) = "toggleActive" /\ Arg(c) = "on"]}]

\* What a change leaves of the row of k.
After(c, k) ==
  CASE Kind(c) = "updateKey" -> Stored(Updated(RowOf(k), Arg(c)))
    [] Kind(c) = "toggleActive" -> Stored([RowOf(k) EXCEPT !.active = Arg(c) = "on"])
    [] Kind(c) = "deleteKey" -> [used |-> TRUE, rows |-> {}]

\* updateKey, toggleActive and deleteKey.
ChangeKey(c, k) ==
  LET changed == [table EXCEPT ![k] = After(c, k)] IN
  /\ Handling(c, {"updateKey", "toggleActive", "deleteKey"})
  /\ \/ Arg(c) = "bad" /\ Reply(c, 400)
     \/ Arg(c) # "bad" /\ ~Exists(k) /\ (Reply(c, 404) \/ Reply(c, 500))
     \/ /\ Arg(c) # "bad" /\ Exists(k)
        /\ \/ table' = changed /\ Answer(c, 204, TRUE, 0)
           \/ Fails(c, changed, 500)
  /\ Others

\* rotateUpstreamKey, up to the commit in Set; every error becomes a 400.
RotateUpstreamKey(c) ==
  /\ Handling(c, {"rotateUpstreamKey"})
  /\ \/ Reply(c, 400)
     \/ Arg(c) # "bad" /\ UNCHANGED table /\ GoOn(c)
     \/ Arg(c) # "bad" /\ Fails(c, table, 400)
  /\ Others

\* Set's refresh after the commit.
RefreshAfterSet(c) ==
  /\ req[c].pc = "second" /\ Kind(c) = "rotateUpstreamKey"
  /\ Answer(c, 204, TRUE, 0) \/ Answer(c, 400, TRUE, 2)
  /\ UNCHANGED table
  /\ Others

GetKey(c, k) ==
  /\ Handling(c, {"getKey"})
  /\ \/ Arg(c) = "bad" /\ Reply(c, 400)
     \/ Arg(c) # "bad" /\ Reply(c, IF Exists(k) THEN 200 ELSE 404)
     \/ Arg(c) # "bad" /\ Reply(c, 500)
  /\ Others

Me(c) == Handling(c, {"me"}) /\ Reply(c, 200) /\ Others

Stats(c) == Handling(c, {"stats"}) /\ (Reply(c, 200) \/ Reply(c, 500)) /\ Others

\* The rows up to the point where the connection broke.
ReplyPart(c) == Answer(c, 200, FALSE, 1) /\ UNCHANGED table

\* List and History return rows.Err(), so a broken connection is a 500.
ListRows(c) == Reply(c, 200) \/ Reply(c, 500)

\* The reports take the rows that rows.Next delivers; they never ask for rows.Err().
ReportRows(c) == Reply(c, 200) \/ Reply(c, 500) \/ ReplyPart(c)

ListKeys(c) == Handling(c, {"listKeys"}) /\ ListRows(c) /\ Others
UpstreamHistory(c) == Handling(c, {"upstreamKeys"}) /\ ListRows(c) /\ Others
UsageSummary(c) == Handling(c, {"usageSummary"}) /\ ReportRows(c) /\ Others
UsageByModel(c) == Handling(c, {"usageByModel"}) /\ ReportRows(c) /\ Others
UsageRecentAll(c) == Handling(c, {"usageRecentAll"}) /\ ReportRows(c) /\ Others

UsageRecent(c) ==
  /\ Handling(c, {"usageRecent"})
  /\ IF Arg(c) = "bad" THEN Reply(c, 400) ELSE ReportRows(c)
  /\ Others

----------------------------------------------------------------------------
\* The client has the answer and may send the next request.
Receive(c) ==
  /\ req[c].pc = "answered"
  /\ req' = [req EXCEPT ![c] = Idle]
  /\ UNCHANGED <<now, skew, conf, tokens, table, deploys>>

Tick ==
  /\ now < MaxTime
  /\ now' = now + 1
  /\ UNCHANGED <<skew, conf, tokens, table, req, deploys>>

\* The replica is started again with another environment; its requests are cut.
Redeploy(r, p, s) ==
  /\ deploys < MaxDeploys
  /\ deploys' = deploys + 1
  /\ conf' = [conf EXCEPT ![r] = [password |-> p, secret |-> s]]
  /\ req' = [c \in Clients |-> IF req[c].on = r THEN Idle ELSE req[c]]
  /\ UNCHANGED <<now, skew, tokens, table>>

Next ==
  \/ \E c \in Clients :
       \/ \E r \in Replicas :
            \/ Preflight(c, r)
            \/ \E p \in Passwords \cup {"bad"} : Login(c, r, p)
            \/ \E op \in Ops, t \in tokens \cup {NoToken} : Authorize(c, r, op, t)
       \/ Receive(c)
       \/ CreateKey(c) \/ InsertTotals(c) \/ RotateUpstreamKey(c) \/ RefreshAfterSet(c)
       \/ Me(c) \/ Stats(c) \/ ListKeys(c) \/ UpstreamHistory(c)
       \/ UsageSummary(c) \/ UsageByModel(c) \/ UsageRecent(c) \/ UsageRecentAll(c)
       \/ \E k \in Keys : ChangeKey(c, k) \/ GetKey(c, k)
  \/ Tick
  \/ \E r \in Replicas, p \in Passwords, s \in Secrets : Redeploy(r, p, s)

Spec == Init /\ [][Next]_vars

----------------------------------------------------------------------------
(* Properties                                                              *)

Answered(c) == req[c].pc = "answered" /\ Kind(c) \notin {"OPTIONS", "login"}
Passed(c) ==
  req[c].pc \in {"handle", "second"} \/ (Answered(c) /\ req[c].status # 401)

(***************************************************************************)
(* Whatever a handler does or shows, it does for a token that a login has  *)
(* given out under the replica's present secret, and at most SESSION_TTL   *)
(* before the check as far as clocks agree: rounding, another replica's    *)
(* clock and a change of password or secret do not prolong a session.      *)
(***************************************************************************)
SessionBounded ==
  \A c \in Clients : Passed(c) =>
    /\ req[c].token \in tokens
    /\ req[c].token.secret = On(c).secret
    /\ req[c].at - req[c].token.at <= TTL + MaxSkew

(***************************************************************************)
(* A login lasts: a replica with the secret of the token refuses it less   *)
(* than a second early (the expiry is in whole seconds; expires_in         *)
(* promises the full time), as far as clocks agree.                        *)
(***************************************************************************)
SessionLasts ==
  \A c \in Clients :
    Answered(c) /\ req[c].status = 401 /\ req[c].token.secret = On(c).secret =>
      req[c].at - req[c].token.at > TTL - (Second - 1) - MaxSkew

Effects == {"createKey", "updateKey", "toggleActive", "deleteKey", "rotateUpstreamKey"}

(***************************************************************************)
(* The status tells what happened: a success has taken effect, and an      *)
(* error has not, unless the answer of the changing statement itself was   *)
(* lost.  A rotation is the exception: its 400 also stands for a key that  *)
(* is in the table and that the refresh after the commit did not read.     *)
(***************************************************************************)
AnswerTellsEffect ==
  \A c \in Clients : Answered(c) =>
    /\ Kind(c) \in Effects /\ req[c].status < 300 => req[c].effect
    /\ req[c].status >= 400 /\ req[c].effect =>
         \/ req[c].failed = 1 /\ req[c].status \notin {401, 404}
         \/ req[c].failed = 2 /\ Kind(c) = "rotateUpstreamKey"

============================================================================
