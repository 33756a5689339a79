--------------------------- MODULE AdminApiProofs ---------------------------
(***************************************************************************)
(* Proofs about AdminApi, for any number of replicas and administrators,   *)
(* any SESSION_TTL, any resolution of the clock and any difference of      *)
(* clocks.  Sessions: what a token says (TokensInv) and what the check     *)
(* compared it with (ChecksInv) meet in the two bounds.  Requests: what each *)
(* handler has done by the time it answers (AnswersInv).  The table: at most *)
(* one row for a key (TableInv).                                           *)
(***************************************************************************)
EXTENDS AdminApi, FiniteSetTheorems, TLAPS

AllOps == Ops \cup {<<"OPTIONS", "ok">>} \cup ({"login"} \X (Passwords \cup {"bad"}))

Statuses == {0, 200, 201, 204, 400, 401, 404, 500}

Requests ==
  [pc : {"idle", "handle", "second", "answered"}, on : Replicas, op : AllOps,
   token : Tokens \cup {NoToken}, at : Nat, status : Statuses,
   effect : BOOLEAN, failed : 0 .. 2]

ShapeInv ==
  /\ now \in Nat
  /\ skew \in [Replicas -> 0 .. MaxSkew]
  /\ conf \in [Replicas -> [password : Passwords, secret : Secrets]]
  /\ tokens \subseteq Tokens
  /\ req \in [Clients -> Requests]

\* The expiry is the time of issue, by the clock of the replica, plus the TTL,
\* in whole seconds.
TokensInv ==
  \A t \in tokens :
    /\ t.exp * Second <= t.at + MaxSkew + TTL
    /\ t.at + TTL < t.exp * Second + Second

\* What the check at req[c].at found.
ChecksInv ==
  \A c \in Clients :
    /\ Passed(c) => /\ req[c].token \in tokens
                    /\ req[c].token.secret = On(c).secret
                    /\ req[c].at <= req[c].token.exp * Second
    /\ Answered(c) /\ req[c].status = 401 /\ req[c].token.secret = On(c).secret =>
         /\ req[c].token \in tokens
         /\ req[c].token.exp * Second < req[c].at + MaxSkew

\* The status agrees with what has happened to the database.
Tells(kind, status, effect, failed) ==
  /\ kind \in Effects /\ status < 300 => effect = TRUE
  /\ status >= 400 /\ effect = TRUE =>
       \/ failed = 1 /\ status \notin {401, 404}
       \/ failed = 2 /\ kind = "rotateUpstreamKey"

\* What a request has been told.
Told(x) ==
  x.pc = "answered" /\ x.op[1] \notin {"OPTIONS", "login"} =>
    Tells(x.op[1], x.status, x.effect, x.failed)

AnswersInv == \A c \in Clients : Told(req[c])

IInv == ShapeInv /\ TokensInv /\ ChecksInv /\ AnswersInv

-----------------------------------------------------------------------------
\* A handler, or one of its two halves, goes on with the request it was given.
HandlerStep(c) ==
  /\ req[c].pc \in {"handle", "second"}
  /\ \E new \in Requests :
       /\ req' = [req EXCEPT ![c] = new]
       /\ new.on = req[c].on /\ new.op = req[c].op
       /\ new.token = req[c].token /\ new.at = req[c].at
       /\ new.pc \in {"second", "answered"}
       /\ new.pc = "answered" => new.status # 401
       /\ Told(new)
  /\ UNCHANGED <<now, skew, conf, tokens, deploys>>

\* However a handler answers, it is not a 401 and about the same request.
LEMMA Answering ==
  ASSUME ShapeInv, AnswersInv, NEW c \in Clients, req[c].pc \in {"handle", "second"},
         NEW status \in Statuses \ {401}, NEW effect \in BOOLEAN, NEW failed \in 0 .. 2,
         Tells(Kind(c), status, effect, failed),
         Answer(c, status, effect, failed), Others
  PROVE  HandlerStep(c)
<1> DEFINE new == [req[c] EXCEPT !.pc = "answered", !.status = status,
                                 !.effect = effect, !.failed = failed]
<1>1. req[c] \in Requests /\ req \in [Clients -> Requests]
  BY DEF ShapeInv
<1>2. new \in Requests
  BY <1>1 DEF Requests
<1>3. req' = [req EXCEPT ![c] = new]
  BY <1>1 DEF Answer, Requests
<1>4. /\ new.on = req[c].on /\ new.op = req[c].op
      /\ new.token = req[c].token /\ new.at = req[c].at
      /\ new.pc = "answered" /\ new.status # 401
  BY <1>1 DEF Requests
<1>5. new.status = status /\ new.effect = effect /\ new.failed = failed
  BY <1>1 DEF Requests
<1> HIDE DEF new
<1>6. Told(new)
  BY <1>4, <1>5 DEF AnswersInv, Told, Kind
<1>7. QED
  BY <1>2, <1>3, <1>4, <1>6 DEF HandlerStep, Others

\* So does one that has a second call to make.
LEMMA GoingOn ==
  ASSUME ShapeInv, AnswersInv, NEW c \in Clients, req[c].pc = "handle", GoOn(c), Others
  PROVE  HandlerStep(c)
<1> DEFINE new == [req[c] EXCEPT !.pc = "second", !.effect = TRUE]
<1>1. req[c] \in Requests /\ req \in [Clients -> Requests]
  BY DEF ShapeInv
<1>2. new \in Requests
  BY <1>1 DEF Requests
<1>3. req' = [req EXCEPT ![c] = new]
  BY <1>1 DEF GoOn, Requests
<1>4. /\ new.on = req[c].on /\ new.op = req[c].op
      /\ new.token = req[c].token /\ new.at = req[c].at
      /\ new.pc = "second"
  BY <1>1 DEF Requests
<1> HIDE DEF new
<1>5. Told(new)
  BY <1>4 DEF AnswersInv, Told
<1>6. QED
  BY <1>2, <1>3, <1>4, <1>5 DEF HandlerStep, Others

\* Every handler of the API.
Handlers(c) ==
  \/ CreateKey(c) \/ InsertTotals(c) \/ RotateUpstreamKey(c) \/ RefreshAfterSet(c)
  \/ Me(c) \/ Stats(c) \/ ListKeys(c) \/ UpstreamHistory(c)
  \/ UsageSummary(c) \/ UsageByModel(c) \/ UsageRecent(c) \/ UsageRecentAll(c)
  \/ \E k \in Keys : ChangeKey(c, k) \/ GetKey(c, k)

LEMMA HandlersStep ==
  ASSUME ShapeInv, AnswersInv, NEW c \in Clients, Handlers(c)
  PROVE  HandlerStep(c)
<1>1. Others /\ req[c].pc \in {"handle", "second"}
  BY DEF Handlers, CreateKey, InsertTotals, RotateUpstreamKey, RefreshAfterSet, Me,
         Stats, ListKeys, UpstreamHistory, UsageSummary, UsageByModel, UsageRecent,
         UsageRecentAll, ChangeKey, GetKey, Handling
<1> DEFINE Fine == Statuses \ {401}
<1>2. \A status \in Fine, effect \in BOOLEAN, failed \in {0, 1, 2} :
        Answer(c, status, effect, failed) =>
          (Tells(Kind(c), status, effect, failed) => HandlerStep(c))
  <2>1. {0, 1, 2} \subseteq 0 .. 2
    OBVIOUS
  <2>2. QED
    BY <1>1, <2>1, Answering
<1> HIDE DEF Fine
<1>3. /\ Answer(c, 500, FALSE, 1) => HandlerStep(c)
      /\ Answer(c, 500, TRUE, 1) => HandlerStep(c)
      /\ Answer(c, 400, FALSE, 1) => HandlerStep(c)
      /\ Answer(c, 400, TRUE, 1) => HandlerStep(c)
      /\ Answer(c, 204, TRUE, 0) => HandlerStep(c)
      /\ Answer(c, 201, TRUE, 0) => HandlerStep(c)
      /\ Answer(c, 201, TRUE, 2) => HandlerStep(c)
  <2>1. Answer(c, 500, FALSE, 1) => HandlerStep(c)
    <3>1. 500 \in Fine
      BY DEF Fine, Statuses
    <3>2. Tells(Kind(c), 500, FALSE, 1)
      BY DEF Tells
    <3>3. QED
      BY <1>2, <3>1, <3>2
  <2>2. Answer(c, 500, TRUE, 1) => HandlerStep(c)
    <3>1. 500 \in Fine
      BY DEF Fine, Statuses
    <3>2. Tells(Kind(c), 500, TRUE, 1)
      BY DEF Tells
    <3>3. QED
      BY <1>2, <3>1, <3>2
  <2>3. Answer(c, 400, FALSE, 1) => HandlerStep(c)
    <3>1. 400 \in Fine
      BY DEF Fine, Statuses
    <3>2. Tells(Kind(c), 400, FALSE, 1)
      BY DEF Tells
    <3>3. QED
      BY <1>2, <3>1, <3>2
  <2>4. Answer(c, 400, TRUE, 1) => HandlerStep(c)
    <3>1. 400 \in Fine
      BY DEF Fine, Statuses
    <3>2. Tells(Kind(c), 400, TRUE, 1)
      BY DEF Tells
    <3>3. QED
      BY <1>2, <3>1, <3>2
  <2>5. Answer(c, 204, TRUE, 0) => HandlerStep(c)
    <3>1. 204 \in Fine
      BY DEF Fine, Statuses
    <3>2. Tells(Kind(c), 204, TRUE, 0)
      BY DEF Tells
    <3>3. QED
      BY <1>2, <3>1, <3>2
  <2>6. Answer(c, 201, TRUE, 0) => HandlerStep(c)
    <3>1. 201 \in Fine
      BY DEF Fine, Statuses
    <3>2. Tells(Kind(c), 201, TRUE, 0)
      BY DEF Tells
    <3>3. QED
      BY <1>2, <3>1, <3>2
  <2>7. Answer(c, 201, TRUE, 2) => HandlerStep(c)
    <3>1. 201 \in Fine
      BY DEF Fine, Statuses
    <3>2. Tells(Kind(c), 201, TRUE, 2)
      BY DEF Tells
    <3>3. QED
      BY <1>2, <3>1, <3>2
  <2>8. QED
    BY <2>1, <2>2, <2>3, <2>4, <2>5, <2>6, <2>7
<1>4. /\ Reply(c, 400) => HandlerStep(c)
      /\ Reply(c, 404) => HandlerStep(c)
      /\ Reply(c, 500) => HandlerStep(c)
  <2>1. Reply(c, 400) => HandlerStep(c)
    <3>1. 400 \in Fine
      BY DEF Fine, Statuses
    <3>2. Tells(Kind(c), 400, FALSE, 0)
      BY DEF Tells
    <3>3. QED
      BY <1>2, <3>1, <3>2 DEF Reply
  <2>2. Reply(c, 404) => HandlerStep(c)
    <3>1. 404 \in Fine
      BY DEF Fine, Statuses
    <3>2. Tells(Kind(c), 404, FALSE, 0)
      BY DEF Tells
    <3>3. QED
      BY <1>2, <3>1, <3>2 DEF Reply
  <2>3. Reply(c, 500) => HandlerStep(c)
    <3>1. 500 \in Fine
      BY DEF Fine, Statuses
    <3>2. Tells(Kind(c), 500, FALSE, 0)
      BY DEF Tells
    <3>3. QED
      BY <1>2, <3>1, <3>2 DEF Reply
  <2>4. QED
    BY <2>1, <2>2, <2>3
<1>5. ASSUME Kind(c) \notin Effects, Reply(c, 200)
      PROVE  HandlerStep(c)
  <2>1. 200 \in Fine
    BY DEF Fine, Statuses
  <2>2. Tells(Kind(c), 200, FALSE, 0)
    BY <1>5 DEF Tells
  <2>3. QED
    BY <1>2, <1>5, <2>1, <2>2 DEF Reply
<1>6. ASSUME req[c].pc = "handle", GoOn(c)
      PROVE  HandlerStep(c)
  BY <1>1, <1>6, GoingOn
<1>7. CASE CreateKey(c)
  <2>1. req[c].pc = "handle"
    BY <1>7 DEF CreateKey, Handling
  <2>2. \/ Reply(c, 400) \/ GoOn(c)
        \/ Answer(c, 500, FALSE, 1) \/ Answer(c, 500, TRUE, 1)
    BY <1>7 DEF CreateKey, Fails
  <2>3. QED
    BY <1>3, <1>4, <1>6, <2>1, <2>2
<1>8. CASE InsertTotals(c)
  <2>1. PICK failed \in {0, 2} : Answer(c, 201, TRUE, failed)
    BY <1>8 DEF InsertTotals
  <2>2. CASE failed = 0
    BY <1>3, <2>1, <2>2
  <2>3. CASE failed = 2
    BY <1>3, <2>1, <2>3
  <2>4. QED
    BY <2>2, <2>3
<1>9. CASE RefreshAfterSet(c)
  <2>1. CASE Answer(c, 400, TRUE, 2)
    <3>1. 400 \in Fine
      BY DEF Fine, Statuses
    <3>2. Kind(c) = "rotateUpstreamKey"
      BY <1>9 DEF RefreshAfterSet
    <3>3. Tells(Kind(c), 400, TRUE, 2)
      BY <3>2 DEF Tells
    <3>4. QED
      BY <1>2, <2>1, <3>1, <3>3
  <2>2. Answer(c, 204, TRUE, 0) \/ Answer(c, 400, TRUE, 2)
    BY <1>9 DEF RefreshAfterSet
  <2>3. QED
    BY <1>3, <2>1, <2>2
<1>10. CASE RotateUpstreamKey(c)
  <2>1. req[c].pc = "handle"
    BY <1>10 DEF RotateUpstreamKey, Handling
  <2>2. \/ Reply(c, 400) \/ GoOn(c)
        \/ Answer(c, 400, FALSE, 1) \/ Answer(c, 400, TRUE, 1)
    BY <1>10 DEF RotateUpstreamKey, Fails
  <2>3. QED
    BY <1>3, <1>4, <1>6, <2>1, <2>2
<1>11. CASE Me(c) \/ Stats(c) \/ ListKeys(c) \/ UpstreamHistory(c)
  <2>1. Kind(c) \notin Effects
    BY <1>11 DEF Me, Stats, ListKeys, UpstreamHistory, Handling, Effects
  <2>2. Reply(c, 200) \/ Reply(c, 500)
    BY <1>11 DEF Me, Stats, ListKeys, UpstreamHistory, ListRows
  <2>3. QED
    BY <1>4, <1>5, <2>1, <2>2
<1>12. CASE UsageSummary(c) \/ UsageByModel(c) \/ UsageRecent(c) \/ UsageRecentAll(c)
  <2>1. Kind(c) \in Reports \cup {"usageRecent"}
    BY <1>12 DEF UsageSummary, UsageByModel, UsageRecent, UsageRecentAll, Handling, Reports
  <2>2. Reply(c, 400) \/ Reply(c, 200) \/ Reply(c, 500) \/ ReplyPart(c)
    BY <1>12 DEF UsageSummary, UsageByModel, UsageRecent, UsageRecentAll, ReportRows
  <2>3. Kind(c) \notin Effects
    BY <2>1 DEF Reports, Effects
  <2>4. ReplyPart(c) => HandlerStep(c)
    <3>1. 200 \in Fine
      BY DEF Fine, Statuses
    <3>2. Tells(Kind(c), 200, FALSE, 1)
      BY <2>3 DEF Tells
    <3>3. QED
      BY <1>2, <3>1, <3>2 DEF ReplyPart
  <2>5. QED
    BY <1>4, <1>5, <2>2, <2>3, <2>4
<1>13. CASE \E k \in Keys : ChangeKey(c, k)
  <2>1. PICK k \in Keys : ChangeKey(c, k)
    BY <1>13
  <2>2. \/ Reply(c, 400) \/ Reply(c, 404) \/ Reply(c, 500)
        \/ Answer(c, 204, TRUE, 0)
        \/ Answer(c, 500, FALSE, 1) \/ Answer(c, 500, TRUE, 1)
    BY <2>1 DEF ChangeKey, Fails
  <2>3. QED
    BY <1>3, <1>4, <2>2
<1>14. CASE \E k \in Keys : GetKey(c, k)
  <2>1. Kind(c) \notin Effects
    BY <1>14 DEF GetKey, Handling, Effects
  <2>2. Reply(c, 400) \/ Reply(c, 200) \/ Reply(c, 404) \/ Reply(c, 500)
    BY <1>14 DEF GetKey
  <2>3. QED
    BY <1>4, <1>5, <2>1, <2>2
<1>15. QED
  BY <1>7, <1>8, <1>9, <1>10, <1>11, <1>12, <1>13, <1>14 DEF Handlers

-----------------------------------------------------------------------------
\* Whole seconds.
LEMMA Seconds ==
  ASSUME NEW x \in Nat, NEW d \in Nat \ {0}
  PROVE  /\ x \div d \in Nat
         /\ (x \div d) * d <= x /\ x < (x \div d) * d + d
  BY Z3

-----------------------------------------------------------------------------
\* A client without a request.
LEMMA IdleShape == Idle \in Requests /\ Idle.pc = "idle" /\ Idle.effect = FALSE
<1>1. (CHOOSE r \in Replicas : TRUE) \in Replicas
  BY AdminAssumption
<1>2. <<"me", "ok">> \in AllOps
  BY DEF AllOps, Ops, Reports
<1>3. QED
  BY <1>1, <1>2 DEF Idle, Requests, Statuses

LEMMA InitIInv == Init => IInv
<1> SUFFICES ASSUME Init
             PROVE  IInv
  OBVIOUS
<1>1. Idle \in Requests /\ Idle.pc = "idle"
  BY IdleShape
<1>2. ShapeInv
  <2>1. /\ (CHOOSE p \in Passwords : TRUE) \in Passwords
        /\ (CHOOSE s \in Secrets : TRUE) \in Secrets
    BY AdminAssumption
  <2>2. QED
    BY <1>1, <2>1, AdminAssumption DEF Init, ShapeInv
<1>3. TokensInv
  BY DEF Init, TokensInv
<1>4. \A c \in Clients : req[c].pc = "idle"
  BY <1>1 DEF Init
<1>5. ChecksInv /\ AnswersInv
  BY <1>4 DEF ChecksInv, Passed, Answered, AnswersInv, Told
<1>6. QED
  BY <1>2, <1>3, <1>5 DEF IInv

\* The state of one client changes to one of the right shape.
LEMMA OneRequest ==
  ASSUME IInv, NEW c \in Clients, NEW new \in Requests, Told(new),
         req' = [req EXCEPT ![c] = new], conf' = conf, tokens \subseteq tokens',
         LET passed == \/ new.pc \in {"handle", "second"}
                       \/ /\ new.pc = "answered" /\ new.status # 401
                          /\ new.op[1] \notin {"OPTIONS", "login"}
             refused == /\ new.pc = "answered" /\ new.status = 401
                        /\ new.op[1] \notin {"OPTIONS", "login"}
                        /\ new.token.secret = conf[new.on].secret
         IN  /\ passed => /\ new.token \in tokens
                          /\ new.token.secret = conf[new.on].secret
                          /\ new.at <= new.token.exp * Second
             /\ refused => /\ new.token \in tokens
                           /\ new.token.exp * Second < new.at + MaxSkew
  PROVE  ChecksInv' /\ AnswersInv' /\ req' \in [Clients -> Requests]
<1>1. req \in [Clients -> Requests]
  BY DEF IInv, ShapeInv
<1>2. req'[c] = new /\ \A d \in Clients \ {c} : req'[d] = req[d]
  BY <1>1
<1>3. ASSUME NEW d \in Clients \ {c}
      PROVE  /\ Passed(d)' = Passed(d) /\ Answered(d)' = Answered(d)
             /\ On(d)' = On(d) /\ req'[d] = req[d]
  BY <1>2 DEF Passed, Answered, Kind, On
<1>4. AnswersInv'
  BY <1>2 DEF IInv, AnswersInv
<1>5. QED
  BY <1>1, <1>2, <1>3, <1>4 DEF IInv, ChecksInv, Passed, Answered, Kind, On

\* A token as Login makes it.
LEMMA NewToken ==
  ASSUME ShapeInv, NEW r \in Replicas
  PROVE  LET t == [exp |-> Expiry(r), secret |-> conf[r].secret, at |-> now] IN
           /\ t \in Tokens
           /\ t.exp * Second <= t.at + MaxSkew + TTL
           /\ t.at + TTL < t.exp * Second + Second
<1>1. /\ Clock(r) \in Nat /\ Clock(r) >= now /\ Clock(r) <= now + MaxSkew
      /\ Clock(r) + TTL \in Nat /\ now \in Nat
  BY AdminAssumption DEF ShapeInv, Clock
<1> DEFINE x == Clock(r) + TTL
<1>2. /\ Expiry(r) \in Nat
      /\ Expiry(r) * Second <= x /\ x < Expiry(r) * Second + Second
  <2>1. x \in Nat /\ Second \in Nat \ {0}
    BY <1>1, AdminAssumption
  <2>2. Expiry(r) = x \div Second
    BY DEF Expiry
  <2> HIDE DEF x
  <2>3. QED
    BY <2>1, <2>2, Seconds
<1>3. Expiry(r) * Second \in Nat
  BY <1>2, AdminAssumption
<1>4. conf[r].secret \in Secrets
  BY DEF ShapeInv
<1>5. QED
  BY <1>1, <1>2, <1>3, <1>4, AdminAssumption DEF Tokens

-----------------------------------------------------------------------------
(* The steps of Next                                                       *)

LEMMA PreflightStep ==
  ASSUME IInv, NEW c \in Clients, NEW r \in Replicas, Preflight(c, r)
  PROVE  IInv'
<1> DEFINE op == <<"OPTIONS", "ok">>
           new == [Arrived(c, r, op, NoToken) EXCEPT !.pc = "answered", !.status = 204]
<1>1. op \in AllOps /\ op[1] = "OPTIONS"
  BY DEF AllOps
<1>2. req' = [req EXCEPT ![c] = new]
  BY DEF Preflight
<1> HIDE DEF op
<1>3. new \in Requests /\ new.pc = "answered" /\ new.op = op
  <2>1. Idle \in Requests /\ now \in Nat /\ 204 \in Statuses
    BY IdleShape DEF IInv, ShapeInv, Statuses
  <2>2. QED
    BY <1>1, <2>1 DEF Arrived, Requests
<1> HIDE DEF new
<1> Told(new)
  BY <1>1, <1>3 DEF Told
<1>4. UNCHANGED <<now, skew, conf, tokens>>
  BY DEF Preflight
<1>5. ChecksInv' /\ AnswersInv' /\ req' \in [Clients -> Requests]
  BY <1>1, <1>2, <1>3, <1>4, OneRequest
<1>6. QED
  BY <1>4, <1>5 DEF IInv, ShapeInv, TokensInv

LEMMA LoginStep ==
  ASSUME IInv, NEW c \in Clients, NEW r \in Replicas,
         NEW p \in Passwords \cup {"bad"}, Login(c, r, p)
  PROVE  IInv'
<1> DEFINE op == <<"login", p>>
           status == CASE p = "bad" -> 400
                       [] p = conf[r].password -> 200
                       [] OTHER -> 401
           new == [Arrived(c, r, op, NoToken) EXCEPT !.pc = "answered", !.status = status]
           t == [exp |-> Expiry(r), secret |-> conf[r].secret, at |-> now]
<1>1. op \in AllOps /\ op[1] = "login"
  BY DEF AllOps
<1>2. status \in Statuses
  BY DEF Statuses
<1>3. req' = [req EXCEPT ![c] = new]
  BY DEF Login
<1>4. tokens' = tokens \/ tokens' = tokens \cup {t}
  BY DEF Login
<1>5. UNCHANGED <<now, skew, conf>>
  BY DEF Login
<1>6. /\ t \in Tokens
      /\ t.exp * Second <= t.at + MaxSkew + TTL
      /\ t.at + TTL < t.exp * Second + Second
  BY NewToken DEF IInv
<1> HIDE DEF op, status, t
<1>7. new \in Requests /\ new.pc = "answered" /\ new.op = op
  <2>1. Idle \in Requests /\ now \in Nat
    BY IdleShape DEF IInv, ShapeInv
  <2>2. QED
    BY <1>1, <1>2, <2>1 DEF Arrived, Requests
<1> HIDE DEF new
<1> Told(new)
  BY <1>1, <1>7 DEF Told
<1>8. ChecksInv' /\ AnswersInv' /\ req' \in [Clients -> Requests]
  BY <1>1, <1>3, <1>4, <1>5, <1>7, OneRequest
<1>9. TokensInv'
  BY <1>4, <1>6 DEF IInv, TokensInv
<1>10. tokens' \subseteq Tokens
  BY <1>4, <1>6 DEF IInv, ShapeInv
<1>11. QED
  BY <1>5, <1>8, <1>9, <1>10 DEF IInv, ShapeInv

LEMMA AuthorizeStep ==
  ASSUME IInv, NEW c \in Clients, NEW r \in Replicas, NEW op \in Ops,
         NEW t \in tokens \cup {NoToken}, Authorize(c, r, op, t)
  PROVE  IInv'
<1> DEFINE refused == [Arrived(c, r, op, t) EXCEPT !.pc = "answered", !.status = 401]
           accepted == [Arrived(c, r, op, t) EXCEPT !.pc = "handle"]
<1>1. UNCHANGED <<now, skew, conf, tokens>>
  BY DEF Authorize
<1>2. \/ ~ValidateBearer(r, t) /\ req' = [req EXCEPT ![c] = refused]
      \/ ValidateBearer(r, t) /\ req' = [req EXCEPT ![c] = accepted]
  <2>1. Authed(op[1]) = TRUE
    BY DEF Authed
  <2>2. req' = [req EXCEPT ![c] = IF Authed(op[1]) /\ ~ValidateBearer(r, t)
                                  THEN refused ELSE accepted]
    BY DEF Authorize
  <2> HIDE DEF refused, accepted
  <2>3. QED
    BY <2>1, <2>2
<1>3. /\ Idle \in Requests /\ now \in Nat /\ op \in AllOps
      /\ t \in Tokens \cup {NoToken}
  BY IdleShape DEF IInv, ShapeInv, AllOps
<1>4. /\ refused \in Requests /\ refused.pc = "answered" /\ refused.status = 401
      /\ refused.on = r /\ refused.token = t /\ refused.at = now
      /\ refused.effect = FALSE
  <2> DEFINE arrived == Arrived(c, r, op, t)
             unauthorized == 401
  <2>1. /\ arrived \in Requests
        /\ arrived.on = r /\ arrived.token = t /\ arrived.at = now
        /\ arrived.effect = FALSE
    BY <1>3, IdleShape DEF Arrived, Requests
  <2> HIDE DEF arrived
  <2> unauthorized \in Statuses
    BY DEF Statuses
  <2> HIDE DEF unauthorized
  <2> DEFINE new == [arrived EXCEPT !.pc = "answered", !.status = unauthorized]
  <2>2. new \in Requests
    BY <2>1 DEF Requests
  <2>3. /\ new.pc = "answered" /\ new.status = unauthorized
        /\ new.on = r /\ new.token = t /\ new.at = now
        /\ new.effect = FALSE
    BY <2>1 DEF Requests
  <2> HIDE DEF new
  <2>4. refused = new /\ unauthorized = 401
    BY DEF new, arrived, unauthorized
  <2> HIDE DEF refused
  <2>5. QED
    BY <2>2, <2>3, <2>4
<1>5. /\ accepted \in Requests /\ accepted.pc = "handle"
      /\ accepted.on = r /\ accepted.token = t /\ accepted.at = now
  BY <1>3, IdleShape DEF Arrived, Requests
<1> HIDE DEF refused, accepted
<1> Told(refused) /\ Told(accepted)
  <2>1. Told(refused)
    BY <1>4 DEF Told, Tells
  <2>2. Told(accepted)
    BY <1>5 DEF Told
  <2>3. QED
    BY <2>1, <2>2
<1>6. t.secret = conf[r].secret => t \in tokens
  BY AdminAssumption DEF IInv, ShapeInv, NoToken
<1>7. /\ Clock(r) \in Nat /\ now <= Clock(r) /\ Clock(r) <= now + MaxSkew
      /\ t.exp \in Nat /\ t.exp * Second \in Nat
  <2>1. t.exp \in Nat
    BY <1>3 DEF Tokens, NoToken
  <2>2. QED
    BY <2>1, AdminAssumption DEF IInv, ShapeInv, Clock
<1>8. ChecksInv' /\ AnswersInv' /\ req' \in [Clients -> Requests]
  <2>1. CASE ~ValidateBearer(r, t) /\ req' = [req EXCEPT ![c] = refused]
    <3>1. t.secret = conf[r].secret => t.exp * Second < now + MaxSkew
      BY <1>3, <1>7, <2>1, AdminAssumption DEF ValidateBearer
    <3>2. QED
      BY <1>1, <1>4, <1>6, <2>1, <3>1, OneRequest
  <2>2. CASE ValidateBearer(r, t) /\ req' = [req EXCEPT ![c] = accepted]
    <3>1. t.secret = conf[r].secret /\ now <= t.exp * Second
      BY <1>3, <1>7, <2>2 DEF ValidateBearer
    <3>2. QED
      BY <1>1, <1>5, <1>6, <2>2, <3>1, OneRequest
  <2>3. QED
    BY <1>2, <2>1, <2>2
<1>9. QED
  BY <1>1, <1>8 DEF IInv, ShapeInv, TokensInv

LEMMA HandledStep ==
  ASSUME IInv, NEW c \in Clients, Handlers(c)
  PROVE  IInv'
<1>1. HandlerStep(c)
  BY HandlersStep DEF IInv
<1>2. PICK new \in Requests :
        /\ req' = [req EXCEPT ![c] = new]
        /\ new.on = req[c].on /\ new.op = req[c].op
        /\ new.token = req[c].token /\ new.at = req[c].at
        /\ new.pc \in {"second", "answered"}
        /\ new.pc = "answered" => new.status # 401
        /\ Told(new)
  BY <1>1 DEF HandlerStep
<1>3. UNCHANGED <<now, skew, conf, tokens>> /\ req[c].pc \in {"handle", "second"}
  BY <1>1 DEF HandlerStep
<1>4. /\ new.token \in tokens /\ new.token.secret = conf[new.on].secret
      /\ new.at <= new.token.exp * Second
  BY <1>2, <1>3 DEF IInv, ChecksInv, Passed, On
<1>5. ChecksInv' /\ AnswersInv' /\ req' \in [Clients -> Requests]
  BY <1>2, <1>3, <1>4, OneRequest
<1>6. QED
  BY <1>3, <1>5 DEF IInv, ShapeInv, TokensInv

LEMMA ReceiveStep ==
  ASSUME IInv, NEW c \in Clients, Receive(c)
  PROVE  IInv'
<1>1. req' = [req EXCEPT ![c] = Idle] /\ UNCHANGED <<now, skew, conf, tokens>>
  BY DEF Receive
<1>2. ChecksInv' /\ AnswersInv' /\ req' \in [Clients -> Requests]
  <2>1. Told(Idle)
    BY IdleShape DEF Told
  <2>2. QED
    BY <1>1, <2>1, IdleShape, OneRequest
<1>3. QED
  BY <1>1, <1>2 DEF IInv, ShapeInv, TokensInv

\* The requests on the replica are gone; the others are on one that has kept
\* its secret.
LEMMA RedeployStep ==
  ASSUME IInv, NEW r \in Replicas, NEW p \in Passwords, NEW s \in Secrets,
         Redeploy(r, p, s)
  PROVE  IInv'
<1>1. UNCHANGED <<now, skew, tokens>>
  BY DEF Redeploy
<1>2. conf' = [conf EXCEPT ![r] = [password |-> p, secret |-> s]]
  BY DEF Redeploy
<1>3. req' = [c \in Clients |-> IF req[c].on = r THEN Idle ELSE req[c]]
  BY DEF Redeploy
<1>4. ShapeInv'
  BY <1>1, <1>2, <1>3, IdleShape DEF IInv, ShapeInv
<1>5. ASSUME NEW c \in Clients, req[c].on # r
      PROVE  req'[c] = req[c] /\ conf'[req[c].on] = conf[req[c].on]
  <2>1. req[c].on \in Replicas
    BY DEF IInv, ShapeInv, Requests
  <2>2. QED
    BY <1>2, <1>3, <1>5, <2>1 DEF IInv, ShapeInv
<1>6. ASSUME NEW c \in Clients, req[c].on = r
      PROVE  req'[c].pc = "idle"
  BY <1>3, <1>6, IdleShape
<1>7. ChecksInv'
  BY <1>1, <1>5, <1>6 DEF IInv, ChecksInv, Passed, Answered, Kind, On
<1>8. AnswersInv'
  BY <1>5, <1>6 DEF IInv, AnswersInv, Told
<1>9. QED
  BY <1>1, <1>4, <1>7, <1>8 DEF IInv, TokensInv

LEMMA NextIInv == IInv /\ [Next]_vars => IInv'
<1> SUFFICES ASSUME IInv, [Next]_vars
             PROVE  IInv'
  OBVIOUS
<1>1. ASSUME NEW c \in Clients, NEW r \in Replicas,
             \/ Preflight(c, r)
             \/ \E p \in Passwords \cup {"bad"} : Login(c, r, p)
             \/ \E op \in Ops, t \in tokens \cup {NoToken} : Authorize(c, r, op, t)
      PROVE  IInv'
  BY <1>1, PreflightStep, LoginStep, AuthorizeStep
<1>2. ASSUME NEW c \in Clients, Receive(c) \/ Handlers(c)
      PROVE  IInv'
  BY <1>2, ReceiveStep, HandledStep
<1>3. CASE Tick
  BY <1>3 DEF Tick, IInv, ShapeInv, TokensInv, ChecksInv, Passed, Answered, Kind, On,
              AnswersInv
<1>4. ASSUME NEW r \in Replicas, NEW p \in Passwords, NEW s \in Secrets,
             Redeploy(r, p, s)
      PROVE  IInv'
  BY <1>4, RedeployStep
<1>5. CASE UNCHANGED vars
  BY <1>5 DEF vars, IInv, ShapeInv, TokensInv, ChecksInv, Passed, Answered, Kind, On,
              AnswersInv
<1>6. QED
  BY <1>1, <1>2, <1>3, <1>4, <1>5 DEF Next, Handlers

\* The inductive invariant: what tokens say and what the checks found.
THEOREM Invariance == Spec => []IInv
<1>1. QED
  BY InitIInv, NextIInv, PTL DEF Spec

-----------------------------------------------------------------------------
\* The times of a request and its token are numbers to compute with.
LEMMA Times ==
  ASSUME IInv, NEW c \in Clients, req[c].token \in tokens
  PROVE  LET t == req[c].token
             e == t.exp * Second
         IN  /\ e \in Nat /\ t.at \in Nat /\ req[c].at \in Nat
             /\ e <= t.at + MaxSkew + TTL
             /\ t.at + TTL < e + Second
<1>1. req[c].at \in Nat
  BY DEF IInv, ShapeInv, Requests
<1>2. req[c].token \in Tokens
  BY DEF IInv, ShapeInv
<1>3. QED
  BY <1>1, <1>2, AdminAssumption DEF IInv, TokensInv, Tokens

(***************************************************************************)
(* What a handler does, it does for a token given out under the present    *)
(* secret at most SESSION_TTL, and the difference of clocks, ago: exp is   *)
(* rounded down in Login and compared with an unrounded now in             *)
(* ValidateBearer.                                                         *)
(***************************************************************************)
THEOREM SessionsBounded == Spec => []SessionBounded
<1>1. IInv => SessionBounded
  <2> SUFFICES ASSUME IInv, NEW c \in Clients, Passed(c)
               PROVE  /\ req[c].token \in tokens
                      /\ req[c].token.secret = On(c).secret
                      /\ req[c].at - req[c].token.at <= TTL + MaxSkew
    BY DEF SessionBounded
  <2>1. /\ req[c].token \in tokens /\ req[c].token.secret = On(c).secret
        /\ req[c].at <= req[c].token.exp * Second
    BY DEF IInv, ChecksInv
  <2>2. QED
    BY <2>1, Times, AdminAssumption
<1>2. QED
  BY <1>1, Invariance, PTL

(***************************************************************************)
(* A login lasts: a replica with the secret of the token refuses it less   *)
(* than a second, and the difference of clocks, before the SESSION_TTL     *)
(* that Login's expires_in promises.                                       *)
(***************************************************************************)
THEOREM SessionsLast == Spec => []SessionLasts
<1>1. IInv => SessionLasts
  <2> SUFFICES ASSUME IInv, NEW c \in Clients, Answered(c), req[c].status = 401,
                      req[c].token.secret = On(c).secret
               PROVE  req[c].at - req[c].token.at > TTL - (Second - 1) - MaxSkew
    BY DEF SessionLasts
  <2>1. /\ req[c].token \in tokens
        /\ req[c].token.exp * Second < req[c].at + MaxSkew
    BY DEF IInv, ChecksInv
  <2>2. QED
    BY <2>1, Times, AdminAssumption
<1>2. QED
  BY <1>1, Invariance, PTL

(***************************************************************************)
(* A success that a handler sends stands for a change that was made, an    *)
(* error for one that was not, with two exceptions: the answer of the      *)
(* changing statement itself was lost, and the 400 of a rotation whose     *)
(* refresh failed after the commit.                                        *)
(***************************************************************************)
THEOREM AnswersTell == Spec => []AnswerTellsEffect
<1>1. IInv => AnswerTellsEffect
  <2> SUFFICES ASSUME IInv, NEW c \in Clients, Answered(c)
               PROVE  /\ Kind(c) \in Effects /\ req[c].status < 300 => req[c].effect
                      /\ req[c].status >= 400 /\ req[c].effect =>
                           \/ req[c].failed = 1 /\ req[c].status \notin {401, 404}
                           \/ req[c].failed = 2 /\ Kind(c) = "rotateUpstreamKey"
    BY DEF AnswerTellsEffect
  <2>1. Tells(Kind(c), req[c].status, req[c].effect, req[c].failed)
    BY DEF IInv, AnswersInv, Told, Answered, Kind
  <2>2. req[c].effect \in BOOLEAN
    BY DEF IInv, ShapeInv, Requests
  <2>3. QED
    BY <2>1, <2>2 DEF Tells
<1>2. QED
  BY <1>1, Invariance, PTL

-----------------------------------------------------------------------------
(* The table                                                               *)

TableInv ==
  /\ table \in [Keys -> [used : BOOLEAN, rows : SUBSET Rows]]
  /\ \A k \in Keys : table[k].rows = {} \/ \E row \in Rows : table[k].rows = {row}

\* What a request sets.
LEMMA LimitsRow ==
  ASSUME NEW arg
  PROVE  Limits(arg) \in Rows /\ \A row \in Rows : Updated(row, arg) \in Rows
<1> DEFINE l == arg = "limit"
           q == arg = "quota"
<1>1. l \in BOOLEAN /\ q \in BOOLEAN
  OBVIOUS
<1>2. Limits(arg) = [limit |-> l, quota |-> q, active |-> TRUE]
  BY DEF Limits
<1> HIDE DEF l, q
<1>3. Limits(arg) \in Rows /\ Limits(arg).limit = l /\ Limits(arg).quota = q
  BY <1>1, <1>2 DEF Rows
<1>4. ASSUME NEW row \in Rows
      PROVE  Updated(row, arg) \in Rows
  <2>1. Updated(row, arg) = [row EXCEPT !.limit = l, !.quota = q]
    BY <1>3 DEF Updated
  <2>2. QED
    BY <1>1, <2>1 DEF Rows
<1>5. QED
  BY <1>3, <1>4

\* One entry of the table is replaced.
LEMMA TableSet ==
  ASSUME TableInv, NEW k \in Keys, NEW rows, rows = {} \/ \E row \in Rows : rows = {row},
         table' = [table EXCEPT ![k] = [used |-> TRUE, rows |-> rows]]
  PROVE  TableInv'
<1>1. rows \in SUBSET Rows
  OBVIOUS
<1> DEFINE e == [used |-> TRUE, rows |-> rows]
<1>2. e \in [used : BOOLEAN, rows : SUBSET Rows] /\ e.rows = rows
  BY <1>1
<1> HIDE DEF e
<1>3. table' = [table EXCEPT ![k] = e] /\ table \in [Keys -> [used : BOOLEAN, rows : SUBSET Rows]]
  BY DEF e, TableInv
<1>4. table' \in [Keys -> [used : BOOLEAN, rows : SUBSET Rows]]
  BY <1>2, <1>3
<1>5. table'[k].rows = rows /\ \A j \in Keys \ {k} : table'[j] = table[j]
  BY <1>2, <1>3
<1>6. QED
  BY <1>4, <1>5 DEF TableInv

LEMMA HandlersTable ==
  ASSUME IInv, TableInv, NEW c \in Clients, Handlers(c)
  PROVE  TableInv'
<1>1. UNCHANGED table => TableInv'
  BY DEF TableInv
<1>2. CASE CreateKey(c)
  <2>1. CASE UNCHANGED table
    BY <1>1, <2>1
  <2>2. CASE ~UNCHANGED table
    <3>1. PICK k \in Keys : table' = [table EXCEPT ![k] = Stored(Limits(Arg(c)))]
      BY <1>2, <2>2 DEF CreateKey, Reply, Fails
    <3>2. Limits(Arg(c)) \in Rows
      BY LimitsRow
    <3>3. QED
      BY <3>1, <3>2, TableSet DEF Stored
  <2>3. QED
    BY <2>1, <2>2
<1>3. ASSUME NEW k \in Keys, ChangeKey(c, k)
      PROVE  TableInv'
  <2>1. CASE UNCHANGED table
    BY <1>1, <2>1
  <2>2. CASE ~UNCHANGED table
    <3>1. Arg(c) # "bad" /\ Kind(c) \in {"updateKey", "toggleActive", "deleteKey"}
      BY <1>3, <2>2 DEF ChangeKey, Reply, Handling
    <3>2. Exists(k) /\ table' = [table EXCEPT ![k] = After(c, k)]
      BY <1>3, <2>2 DEF ChangeKey, Reply, Fails
    <3>3. RowOf(k) \in Rows
      <4>1. PICK row \in Rows : table[k].rows = {row}
        BY <3>2 DEF TableInv, Exists
      <4>2. RowOf(k) = row
        BY <4>1 DEF RowOf
      <4>3. QED
        BY <4>2
    <3>4. CASE Kind(c) = "updateKey"
      <4>1. After(c, k) = Stored(Updated(RowOf(k), Arg(c)))
        BY <3>4 DEF After
      <4>2. Updated(RowOf(k), Arg(c)) \in Rows
        BY <3>3, LimitsRow
      <4>3. QED
        BY <3>2, <4>1, <4>2, TableSet DEF Stored
    <3>5. CASE Kind(c) = "toggleActive"
      <4> DEFINE on == Arg(c) = "on"
                 new == [RowOf(k) EXCEPT !.active = on]
      <4>1. After(c, k) = Stored(new)
        BY <3>5 DEF After
      <4>2. on \in BOOLEAN
        OBVIOUS
      <4> HIDE DEF on
      <4>3. new \in Rows
        BY <3>3, <4>2 DEF Rows
      <4> HIDE DEF new
      <4>4. QED
        BY <3>2, <4>1, <4>3, TableSet DEF Stored
    <3>6. CASE Kind(c) = "deleteKey"
      <4>1. After(c, k) = [used |-> TRUE, rows |-> {}]
        BY <3>6 DEF After
      <4>2. QED
        BY <3>2, <4>1, TableSet
    <3>7. QED
      BY <3>1, <3>4, <3>5, <3>6
  <2>3. QED
    BY <2>1, <2>2
<1>4. ASSUME ~CreateKey(c), ~(\E k \in Keys : ChangeKey(c, k))
      PROVE  UNCHANGED table
  BY <1>4 DEF Handlers, InsertTotals, RotateUpstreamKey, Fails, RefreshAfterSet, Me,
         Stats, ListKeys, ListRows, UpstreamHistory, UsageSummary, UsageByModel,
         UsageRecent, UsageRecentAll, ReportRows, ReplyPart, GetKey, Reply
<1>5. QED
  BY <1>1, <1>2, <1>3, <1>4

LEMMA NextTable == IInv /\ TableInv /\ [Next]_vars => TableInv'
<1> SUFFICES ASSUME IInv, TableInv, [Next]_vars
             PROVE  TableInv'
  OBVIOUS
<1>1. UNCHANGED table => TableInv'
  BY DEF TableInv
<1>2. ASSUME NEW c \in Clients, Handlers(c)
      PROVE  TableInv'
  BY <1>2, HandlersTable
<1>3. ASSUME NEW c \in Clients, NEW r \in Replicas,
             \/ Preflight(c, r)
             \/ \E p \in Passwords \cup {"bad"} : Login(c, r, p)
             \/ \E op \in Ops, t \in tokens \cup {NoToken} : Authorize(c, r, op, t)
      PROVE  TableInv'
  BY <1>1, <1>3 DEF Preflight, Login, Authorize
<1>4. ASSUME NEW c \in Clients, Receive(c)
      PROVE  TableInv'
  BY <1>1, <1>4 DEF Receive
<1>5. CASE Tick \/ UNCHANGED vars
  BY <1>1, <1>5 DEF Tick, vars
<1>6. ASSUME NEW r \in Replicas, NEW p \in Passwords, NEW s \in Secrets, Redeploy(r, p, s)
      PROVE  TableInv'
  BY <1>1, <1>6 DEF Redeploy
<1>7. QED
  BY <1>2, <1>3, <1>4, <1>5, <1>6 DEF Next, Handlers

\* The table has at most one row for a key: what createKey, updateKey and
\* deleteKey leave to the next request.
THEOREM TableInvariance == Spec => []TableInv
<1>1. Init => TableInv
  BY DEF Init, TableInv
<1>2. QED
  BY <1>1, NextTable, Invariance, PTL DEF Spec

-----------------------------------------------------------------------------
(* The bounds                                                              *)

\* A request is not ahead of the time, and its token has been issued.
BoundsInv ==
  /\ now <= MaxTime /\ deploys \in 0 .. MaxDeploys
  /\ IsFiniteSet(tokens) /\ Cardinality(tokens) <= MaxTokens
  /\ \A c \in Clients : req[c].at <= now /\ req[c].token \in tokens \cup {NoToken}

LEMMA IdleBounds == Idle.at = 0 /\ Idle.token = NoToken
  BY DEF Idle

\* One request is replaced; tokens may be added.
LEMMA BoundsSet ==
  ASSUME IInv, BoundsInv, NEW c \in Clients, NEW new,
         req' = [req EXCEPT ![c] = new], UNCHANGED <<now, deploys>>,
         tokens \subseteq tokens', IsFiniteSet(tokens'), Cardinality(tokens') <= MaxTokens,
         new.at <= now, new.token \in tokens \cup {NoToken}
  PROVE  BoundsInv'
<1>1. req'[c] = new /\ \A d \in Clients \ {c} : req'[d] = req[d]
  BY DEF IInv, ShapeInv
<1>2. \A d \in Clients : req'[d].at <= now /\ req'[d].token \in tokens' \cup {NoToken}
  BY <1>1 DEF BoundsInv
<1>3. QED
  BY <1>2 DEF BoundsInv

LEMMA ArrivedBounds ==
  ASSUME NEW c, NEW r, NEW op, NEW t
  PROVE  Arrived(c, r, op, t).at = now /\ Arrived(c, r, op, t).token = t
  BY DEF Arrived, Idle

LEMMA NextBounds == IInv /\ BoundsInv /\ [Next]_vars => BoundsInv'
<1> SUFFICES ASSUME IInv, BoundsInv, [Next]_vars
             PROVE  BoundsInv'
  OBVIOUS
<1>1. now \in Nat /\ now <= now
  BY DEF IInv, ShapeInv
<1>2. ASSUME NEW c \in Clients, NEW new, req' = [req EXCEPT ![c] = new],
             UNCHANGED <<now, deploys, tokens>>,
             new.at <= now, new.token \in tokens \cup {NoToken}
      PROVE  BoundsInv'
  <2>1. IsFiniteSet(tokens') /\ Cardinality(tokens') <= MaxTokens /\ tokens \subseteq tokens'
    BY <1>2 DEF BoundsInv
  <2>2. QED
    BY <1>2, <2>1, BoundsSet
<1>3. ASSUME NEW c \in Clients, NEW r \in Replicas, Preflight(c, r)
      PROVE  BoundsInv'
  <2> DEFINE arrived == Arrived(c, r, <<"OPTIONS", "ok">>, NoToken)
             new == [arrived EXCEPT !.pc = "answered", !.status = 204]
  <2>1. req' = [req EXCEPT ![c] = new] /\ UNCHANGED <<now, deploys, tokens>>
    BY <1>3 DEF Preflight
  <2>2. new.at = now /\ new.token = NoToken
    BY DEF Arrived, Idle
  <2> HIDE DEF new
  <2>3. QED
    BY <1>1, <1>2, <2>1, <2>2
<1>4. ASSUME NEW c \in Clients, NEW r \in Replicas, NEW p \in Passwords \cup {"bad"},
             Login(c, r, p)
      PROVE  BoundsInv'
  <2> DEFINE status == CASE p = "bad" -> 400
                         [] p = conf[r].password -> 200
                         [] OTHER -> 401
             new == [Arrived(c, r, <<"login", p>>, NoToken)
                       EXCEPT !.pc = "answered", !.status = status]
             t == [exp |-> Expiry(r), secret |-> conf[r].secret, at |-> now]
  <2>1. req' = [req EXCEPT ![c] = new] /\ UNCHANGED <<now, deploys>>
    BY <1>4 DEF Login
  <2>2. new.at = now /\ new.token = NoToken
    BY DEF Arrived, Idle
  <2>3. tokens' = tokens \/ tokens' = tokens \cup {t}
    BY <1>4 DEF Login
  <2> HIDE DEF new, t
  <2>4. Cardinality(tokens) < MaxTokens /\ IsFiniteSet(tokens)
    BY <1>4 DEF Login, BoundsInv
  <2>5. /\ IsFiniteSet(tokens \cup {t}) /\ Cardinality(tokens) \in Nat
        /\ \/ Cardinality(tokens \cup {t}) = Cardinality(tokens)
           \/ Cardinality(tokens \cup {t}) = Cardinality(tokens) + 1
    BY <2>4, FS_AddElement, FS_CardinalityType
  <2>6. /\ tokens \subseteq tokens' /\ IsFiniteSet(tokens')
        /\ Cardinality(tokens') <= MaxTokens
    <3>1. /\ IsFiniteSet(tokens') /\ tokens \subseteq tokens'
          /\ \/ Cardinality(tokens') = Cardinality(tokens)
             \/ Cardinality(tokens') = Cardinality(tokens) + 1
      BY <2>3, <2>4, <2>5, Zenon
    <3> DEFINE n == Cardinality(tokens)
               m == Cardinality(tokens')
    <3>2. n \in Nat /\ n < MaxTokens /\ (m = n \/ m = n + 1)
      BY <2>4, <2>5, <3>1
    <3> HIDE DEF n, m
    <3>3. m <= MaxTokens
      BY <3>2, AdminAssumption
    <3>4. QED
      BY <3>1, <3>3 DEF m
  <2>7. QED
    BY <1>1, <2>1, <2>2, <2>6, BoundsSet
<1>5. ASSUME NEW c \in Clients, NEW r \in Replicas, NEW op \in Ops,
             NEW t \in tokens \cup {NoToken}, Authorize(c, r, op, t)
      PROVE  BoundsInv'
  <2> DEFINE arrived == Arrived(c, r, op, t)
             refused == [arrived EXCEPT !.pc = "answered", !.status = 401]
             accepted == [arrived EXCEPT !.pc = "handle"]
  <2>1. UNCHANGED <<now, deploys, tokens>>
    BY <1>5 DEF Authorize
  <2>2. req' = [req EXCEPT ![c] = refused] \/ req' = [req EXCEPT ![c] = accepted]
    BY <1>5 DEF Authorize
  <2>3. refused.at = now /\ refused.token = t /\ accepted.at = now /\ accepted.token = t
    <3>1. refused.at = now /\ refused.token = t
      BY DEF Arrived, Idle
    <3>2. accepted.at = now /\ accepted.token = t
      BY DEF Arrived, Idle
    <3>3. QED
      BY <3>1, <3>2
  <2> HIDE DEF refused, accepted
  <2>4. QED
    BY <1>1, <1>2, <2>1, <2>2, <2>3
<1>6. ASSUME NEW c \in Clients, Receive(c)
      PROVE  BoundsInv'
  <2>1. req' = [req EXCEPT ![c] = Idle] /\ UNCHANGED <<now, deploys, tokens>>
    BY <1>6 DEF Receive
  <2>2. Idle.at <= now /\ Idle.token = NoToken
    BY <1>1, IdleBounds
  <2>3. QED
    BY <1>2, <2>1, <2>2
<1>7. ASSUME NEW c \in Clients, Handlers(c)
      PROVE  BoundsInv'
  <2>1. HandlerStep(c)
    BY <1>7, HandlersStep DEF IInv
  <2>2. PICK new \in Requests : /\ req' = [req EXCEPT ![c] = new]
                                /\ new.token = req[c].token /\ new.at = req[c].at
    BY <2>1 DEF HandlerStep
  <2>3. UNCHANGED <<now, deploys, tokens>>
    BY <2>1 DEF HandlerStep
  <2>4. QED
    BY <1>2, <2>2, <2>3 DEF BoundsInv
<1>8. CASE Tick
  <2>1. now < MaxTime /\ now' = now + 1 /\ UNCHANGED <<tokens, req, deploys>>
    BY <1>8 DEF Tick
  <2>2. \A c \in Clients : req[c].at \in Nat
    BY DEF IInv, ShapeInv, Requests
  <2>3. QED
    BY <1>1, <2>1, <2>2, AdminAssumption DEF BoundsInv
<1>9. ASSUME NEW r \in Replicas, NEW p \in Passwords, NEW s \in Secrets, Redeploy(r, p, s)
      PROVE  BoundsInv'
  <2>1. deploys < MaxDeploys /\ deploys' = deploys + 1 /\ UNCHANGED <<now, tokens>>
    BY <1>9 DEF Redeploy
  <2>2. deploys' \in 0 .. MaxDeploys
    BY <2>1, AdminAssumption DEF BoundsInv
  <2>3. \A c \in Clients : req'[c] = Idle \/ req'[c] = req[c]
    BY <1>9 DEF Redeploy
  <2>4. Idle.at <= now /\ Idle.token = NoToken
    BY <1>1, IdleBounds
  <2>5. QED
    BY <2>1, <2>2, <2>3, <2>4 DEF BoundsInv
<1>10. CASE UNCHANGED vars
  BY <1>10 DEF vars, BoundsInv
<1>11. QED
  BY <1>3, <1>4, <1>5, <1>6, <1>7, <1>8, <1>9, <1>10 DEF Next, Handlers

(***************************************************************************)
(* Every state has its shape: no key has two rows, every status is one     *)
(* that the handlers send, and the token of a request has been issued.     *)
(***************************************************************************)
THEOREM TypeCorrect == Spec => []TypeOK
<1>1. Init => BoundsInv
  <2> SUFFICES ASSUME Init
               PROVE  BoundsInv
    OBVIOUS
  <2>1. IsFiniteSet({}) /\ Cardinality({}) = 0
    BY FS_EmptySet
  <2>2. QED
    BY <2>1, IdleBounds, AdminAssumption DEF Init, BoundsInv
<1>2. Spec => []BoundsInv
  BY <1>1, NextBounds, Invariance, PTL DEF Spec
<1>3. ASSUME IInv, TableInv, BoundsInv
      PROVE  TypeOK
  <2>1. /\ now \in 0 .. MaxTime /\ deploys \in 0 .. MaxDeploys
        /\ skew \in [Replicas -> 0 .. MaxSkew]
        /\ conf \in [Replicas -> [password : Passwords, secret : Secrets]]
        /\ tokens \subseteq Tokens /\ Cardinality(tokens) <= MaxTokens
    BY <1>3, AdminAssumption DEF IInv, ShapeInv, BoundsInv
  <2>2. table \in [Keys -> [used : BOOLEAN, rows : SUBSET Rows]]
    BY <1>3 DEF TableInv
  <2>3. ASSUME NEW k \in Keys
        PROVE  Cardinality(table[k].rows) <= 1
    <3>1. table[k].rows = {} \/ \E row \in Rows : table[k].rows = {row}
      BY <1>3 DEF TableInv
    <3>2. CASE table[k].rows = {}
      BY <3>2, FS_EmptySet
    <3>3. ASSUME NEW row, table[k].rows = {row}
          PROVE  Cardinality(table[k].rows) <= 1
      <4>1. Cardinality({row}) = 1
        BY FS_Singleton
      <4>2. QED
        BY <3>3, <4>1
    <3>4. QED
      BY <3>1, <3>2, <3>3
  <2>4. ASSUME NEW c \in Clients
        PROVE  /\ req[c].pc \in {"idle", "handle", "second", "answered"}
               /\ req[c].on \in Replicas
               /\ req[c].token \in tokens \cup {NoToken}
               /\ req[c].at \in 0 .. now
               /\ req[c].status \in {0, 200, 201, 204, 400, 401, 404, 500}
               /\ req[c].effect \in BOOLEAN
               /\ req[c].failed \in 0 .. 2
    <3>1. req[c] \in Requests
      BY <1>3 DEF IInv, ShapeInv
    <3>2. /\ req[c].pc \in {"idle", "handle", "second", "answered"} /\ req[c].on \in Replicas
          /\ req[c].at \in Nat /\ req[c].failed \in 0 .. 2
          /\ req[c].effect \in BOOLEAN
      BY <3>1 DEF Requests
    <3>3. req[c].status \in Statuses
      BY <3>1 DEF Requests
    <3>4. req[c].at <= now /\ req[c].token \in tokens \cup {NoToken}
      BY <1>3 DEF BoundsInv
    <3>5. req[c].at \in 0 .. now
      BY <2>1, <3>2, <3>4, AdminAssumption
    <3>6. req[c].status \in {0, 200, 201, 204, 400, 401, 404, 500}
      BY <3>3 DEF Statuses
    <3>7. req[c].effect \in BOOLEAN
      BY <3>2
    <3>8. QED
      BY <3>2, <3>4, <3>5, <3>6, <3>7
  <2>5. QED
    BY <2>1, <2>2, <2>3, <2>4 DEF TypeOK
<1>4. QED
  BY <1>2, <1>3, Invariance, TableInvariance, PTL
=============================================================================
