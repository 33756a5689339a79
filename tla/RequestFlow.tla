---------------------------- MODULE RequestFlow ----------------------------
(***************************************************************************)
(* One replica serving proxied requests (ServeHTTP in internal/proxy and   *)
(* run and gracefulShutdown in cmd/openai-proxy): from the check of the    *)
(* key to the row in usage_records, with clients that leave or stall, an   *)
(* upstream that stalls or breaks off, a database and a Redis that fail,   *)
(* a process that is told to stop or dies, and an administrator who        *)
(* deletes the key meanwhile.                                              *)
(*                                                                         *)
(* What Verify, AllowRate, AllowQuota and AddUsage do inside is the        *)
(* subject of VerifyCache, RateLimit and QuotaTotals: here each is one     *)
(* step with the outcomes its caller tells apart.  A response is a number  *)
(* of units (bytes, to the code) with the line that carries the usage      *)
(* somewhere in it.  Headers, paths, models and prices are left out, and   *)
(* so is the error of buildUpstreamRequest, which a request that came      *)
(* through net/http's parser cannot cause.                                 *)
(***************************************************************************)
EXTENDS Integers

CONSTANTS
  Requests,   \* requests to /v1/
  Kinds,      \* what a client may send, see RequestKinds
  Leavers,    \* requests whose client may disconnect
  CaptureMax, \* captureMax, in units
  MaxLen,     \* bound: units of a response
  Faults      \* whether Postgres, Redis, the upstream and the process may fail

\* The proxy takes any path under /v1/; metered requests are those to an
\* endpoint that reports its usage as prompt_tokens and completion_tokens.
RequestKinds ==
  [json : BOOLEAN, stream : BOOLEAN, include : BOOLEAN, metered : BOOLEAN]

ASSUME FlowAssumption ==
  /\ Kinds \subseteq RequestKinds
  /\ Leavers \subseteq Requests
  /\ CaptureMax \in Nat \ {0, 1}
  /\ MaxLen \in Nat \ {0}
  /\ Faults \in BOOLEAN

VARIABLES
  server,     \* the process: up, closing its listener, store closed, exited
  pc,         \* where each handler is
  req,        \* what each client has sent
  key,        \* the rows of each request's key: api_keys and quota_totals,
              \* api_keys alone, or none
  gone,       \* requests whose client has disconnected
  cancelled,  \* requests whose context has been cancelled for that
  status,     \* the status written to each client, 0 before
  resp,       \* the upstream response of each request
  kept,       \* units copied to the client and to the tail buffer
  touched,    \* requests that have set last_used_at
  counted,    \* requests whose usage is in quota_totals
  rows,       \* requests with a row in usage_records: its usage
  forwarded,  \* history: requests sent to the upstream
  skipped,    \* history: why limit checks failed and let the request through
  faulted     \* history: requests that met a failing Postgres or Redis

vars == <<server, pc, req, key, gone, cancelled, status, resp, kept, touched,
          counted, rows, forwarded, skipped, faulted>>

store == <<key, touched, counted, rows>>

Pcs == {"new", "auth", "rate", "quota", "body", "do", "await", "read", "write",
        "touch", "add", "record", "done"}

Response == [ok : BOOLEAN, sse : BOOLEAN, len : 0 .. MaxLen,
             usage : SUBSET (1 .. MaxLen)]

NoResponse == [ok |-> FALSE, sse |-> FALSE, len |-> 0, usage |-> {}]

(***************************************************************************)
(* The shape of the state.  No more is copied than the upstream sends.     *)
(***************************************************************************)
TypeOK ==
  /\ server \in {"up", "closing", "closed", "exited"}
  /\ pc \in [Requests -> Pcs]
  /\ req \in [Requests -> RequestKinds]
  /\ key \in [Requests -> {"whole", "rowless", "deleted"}]
  /\ gone \subseteq Leavers
  /\ cancelled \subseteq gone
  /\ status \in [Requests -> {0, 200, 400, 401, 429, 500, 502}]
  /\ resp \in [Requests -> Response]
  /\ kept \in [Requests -> Nat]
  /\ \A r \in Requests : kept[r] <= resp[r].len
  /\ touched \subseteq Requests
  /\ counted \subseteq Requests
  /\ rows \in [Requests -> {"none", "plain", "usage"}]
  /\ forwarded \subseteq Requests
  /\ skipped \in [Requests -> SUBSET {"store", "context", "missing"}]
  /\ faulted \subseteq Requests

\* A key is rowless when Issue's second INSERT failed: its error is ignored.
Init ==
  /\ server = "up"
  /\ pc = [r \in Requests |-> "new"]
  /\ req \in [Requests -> Kinds]
  /\ key \in [Requests -> {"whole", "rowless"}]
  /\ gone = {} /\ cancelled = {}
  /\ status = [r \in Requests |-> 0]
  /\ resp = [r \in Requests |-> NoResponse]
  /\ kept = [r \in Requests |-> 0]
  /\ touched = {} /\ counted = {}
  /\ rows = [r \in Requests |-> "none"]
  /\ forwarded = {} /\ faulted = {}
  /\ skipped = [r \in Requests |-> {}]

At(r, l) == server # "exited" /\ pc[r] = l

Goto(r, l) == pc' = [pc EXCEPT ![r] = l]

Answer(r, code) == status' = [status EXCEPT ![r] = code]

StoreFails == Faults \/ server = "closed"

StoreWorks == server # "closed"

----------------------------------------------------------------------------
(* Before the upstream request                                             *)

\* A closed listener accepts no more connections.
Accept(r) ==
  /\ server = "up"
  /\ pc[r] = "new"
  /\ Goto(r, "auth")
  /\ UNCHANGED <<server, req, gone, cancelled, status, resp, kept, store,
                 forwarded, skipped, faulted>>

\* authenticate; writeAuthError answers 401, or 500 when Verify could not ask.
Authenticate(r) ==
  /\ At(r, "auth")
  /\ \/ StoreWorks /\ Goto(r, "rate") /\ UNCHANGED status
     \/ Goto(r, "done") /\ Answer(r, 401)
     \/ /\ StoreFails \/ r \in cancelled
        /\ Goto(r, "done") /\ Answer(r, 500)
  /\ UNCHANGED <<server, req, gone, cancelled, resp, kept, store, forwarded,
                 skipped, faulted>>

Skip(r, why) == skipped' = [skipped EXCEPT ![r] = @ \cup {why}]

\* One limit check: admitted (or no limit is set), refused with 429 and
\* recorded, or, when Redis or Postgres fails or the context is cancelled,
\* logged and let through.
Check(r, here, next) ==
  /\ At(r, here)
  /\ \/ /\ Goto(r, next)
        /\ UNCHANGED <<status, skipped, faulted>>
     \/ /\ StoreWorks
        /\ Answer(r, 429)
        /\ Goto(r, "record")
        /\ UNCHANGED <<skipped, faulted>>
     \/ /\ Goto(r, next)
        /\ \/ StoreFails /\ Skip(r, "store") /\ faulted' = faulted \cup {r}
           \/ r \in cancelled /\ Skip(r, "context") /\ UNCHANGED faulted
        /\ UNCHANGED status
  /\ UNCHANGED <<server, req, gone, cancelled, resp, kept, store, forwarded>>

CheckRate(r) == Check(r, "rate", "quota")

\* quotaTotals finds no quota_totals row: an error like any other.
NoTotals(r) ==
  /\ At(r, "quota")
  /\ StoreWorks
  /\ key[r] # "whole"
  /\ Goto(r, "body")
  /\ Skip(r, "missing")
  /\ UNCHANGED <<server, req, gone, cancelled, status, resp, kept, store,
                 forwarded, faulted>>

CheckQuota(r) == Check(r, "quota", "body") \/ NoTotals(r)

\* readBody waits for a JSON body to arrive in full; any other body is
\* passed on as it comes.
ReadBody(r) ==
  /\ At(r, "body")
  /\ \/ Goto(r, "do") /\ UNCHANGED status
     \/ /\ req[r].json /\ r \in gone
        /\ Answer(r, 400)
        /\ Goto(r, "done")
  /\ UNCHANGED <<server, req, gone, cancelled, resp, kept, store, forwarded,
                 skipped, faulted>>

\* Mutated form: include_usage is left as the client set it.
PrepareBodyAsIs(q) ==
  [isStream |-> q.json /\ q.stream, include |-> q.include]

\* PrepareBody: include_usage is forced on a streaming JSON request.
PrepareBody(q) ==
  [isStream |-> q.json /\ q.stream,
   include  |-> q.include \/ (q.json /\ q.stream)]

\* Mutated form: the upstream request is made with context.Background().
DoDetached(r) ==
  /\ At(r, "do")
  /\ forwarded' = forwarded \cup {r}
  /\ Goto(r, "await")
  /\ UNCHANGED <<server, req, gone, cancelled, status, resp, kept, store,
                 skipped, faulted>>

\* client.Do with the context of the client's request.
Do(r) ==
  /\ At(r, "do")
  /\ \/ /\ r \notin cancelled
        /\ forwarded' = forwarded \cup {r}
        /\ Goto(r, "await")
        /\ UNCHANGED status
     \/ /\ r \in cancelled
        /\ Answer(r, 502)
        /\ Goto(r, "record")
        /\ UNCHANGED forwarded
  /\ UNCHANGED <<server, req, gone, cancelled, resp, kept, store, skipped,
                 faulted>>

----------------------------------------------------------------------------
(* The upstream response                                                   *)

\* What the upstream may answer: an error, a document with its usage, or a
\* stream whose last line before [DONE] has the usage if that was asked for;
\* without a usage block that the proxy knows if the endpoint has none.
Answers(q) ==
  {[ok |-> FALSE, sse |-> FALSE, len |-> 1, usage |-> {}]} \cup
  IF q.stream
  THEN {[ok |-> TRUE, sse |-> TRUE, len |-> n,
         usage |-> IF q.metered /\ PrepareBody(q).include THEN {n - 1} ELSE {}] :
          n \in 2 .. MaxLen}
  ELSE {[ok |-> TRUE, sse |-> FALSE, len |-> n,
         usage |-> IF q.metered THEN 1 .. n ELSE {}] :
          n \in 1 .. MaxLen}

\* The response's header arrives and is passed on (400 for any error).
Respond(r, a) ==
  /\ At(r, "await")
  /\ a \in Answers(req[r])
  /\ resp' = [resp EXCEPT ![r] = a]
  /\ Answer(r, IF a.ok THEN 200 ELSE 400)
  /\ Goto(r, "read")
  /\ UNCHANGED <<server, req, gone, cancelled, kept, store, forwarded, skipped,
                 faulted>>

\* Mutated form: the read that meets the end is taken for another unit.
ReadPastEnd(r) ==
  /\ At(r, "read")
  /\ Goto(r, "write")
  /\ UNCHANGED <<server, req, gone, cancelled, status, resp, kept, store,
                 forwarded, skipped, faulted>>

Read(r) ==
  /\ At(r, "read")
  /\ Goto(r, IF kept[r] < resp[r].len THEN "write" ELSE "touch")
  /\ UNCHANGED <<server, req, gone, cancelled, status, resp, kept, store,
                 forwarded, skipped, faulted>>

\* net/http takes a unit, which it may do for a client that has gone, and
\* io.MultiWriter then adds it to the tail buffer.
Write(r) ==
  /\ At(r, "write")
  /\ kept' = [kept EXCEPT ![r] = @ + 1]
  /\ Goto(r, "read")
  /\ UNCHANGED <<server, req, gone, cancelled, status, resp, store, forwarded,
                 skipped, faulted>>

\* The write to the client fails: io.Copy stops before the tail buffer.
WriteFails(r) ==
  /\ At(r, "write")
  /\ r \in gone
  /\ Goto(r, "touch")
  /\ UNCHANGED <<server, req, gone, cancelled, status, resp, kept, store,
                 forwarded, skipped, faulted>>

\* Mutated form: an error of client.Do is answered but not recorded.
BreakOffUnrecorded(r) ==
  \/ /\ At(r, "await")
     /\ Answer(r, 502)
     /\ Goto(r, "done")
  \/ /\ At(r, "read")
     /\ Goto(r, "touch")
     /\ UNCHANGED status

\* The upstream gives no (more) answer: before the header a 502, after it a
\* response that ends early.
BreakOff(r) ==
  \/ /\ At(r, "await")
     /\ Answer(r, 502)
     /\ Goto(r, "record")
  \/ /\ At(r, "read")
     /\ Goto(r, "touch")
     /\ UNCHANGED status

\* The connection fails, or the client's context is cancelled.
UpstreamFails(r) ==
  /\ Faults \/ r \in cancelled
  /\ BreakOff(r)
  /\ UNCHANGED <<server, req, gone, cancelled, resp, kept, store, forwarded,
                 skipped, faulted>>

\* Mutated form: a limit on the wait for the header alone.
TimeoutHeader(r) ==
  /\ At(r, "await")
  /\ BreakOff(r)
  /\ UNCHANGED <<server, req, gone, cancelled, resp, kept, store, forwarded,
                 skipped, faulted>>

\* http.Client's Timeout, which covers the response's body as well.
Timeout(r) ==
  /\ BreakOff(r)
  /\ UNCHANGED <<server, req, gone, cancelled, resp, kept, store, forwarded,
                 skipped, faulted>>

----------------------------------------------------------------------------
(* After the response                                                      *)

\* Mutated form: the buffer keeps the first units.
CapturedHead(r) == {i \in 1 .. kept[r] : i <= CaptureMax}

\* tailBuffer: the last captureMax units.
Captured(r) == {i \in 1 .. kept[r] : kept[r] - CaptureMax < i}

\* extractUsage: a line or a document is found if the buffer has all of it;
\* a response to a streaming request is always read as a stream.
extractUsage(r) ==
  /\ resp[r].usage # {}
  /\ resp[r].usage \subseteq Captured(r)
  /\ PrepareBody(req[r]).isStream => resp[r].sse

\* Mutated form: the row is written before the totals.
TouchFirst(r) ==
  /\ At(r, "touch")
  /\ touched' = touched \cup {r}
  /\ rows' = [rows EXCEPT ![r] = IF extractUsage(r) THEN "usage" ELSE "plain"]
  /\ Goto(r, IF extractUsage(r) THEN "add" ELSE "record")
  /\ UNCHANGED <<server, req, key, gone, cancelled, status, resp, kept, counted,
                 forwarded, skipped, faulted>>

\* A statement takes effect, although its answer may be lost ...
Wrote(r) ==
  /\ StoreWorks
  /\ UNCHANGED faulted \/ (Faults /\ faulted' = faulted \cup {r})

\* ... or fails.
WriteLost(r) == StoreFails /\ faulted' = faulted \cup {r}

\* The statement meets no api_keys row: an UPDATE changes nothing, and an
\* INSERT fails on the foreign key.
KeyGone(r) == StoreWorks /\ key[r] = "deleted" /\ UNCHANGED faulted

\* TouchLastUsed, with context.Background() from here on.
Touch(r) ==
  /\ At(r, "touch")
  /\ \/ key[r] # "deleted" /\ Wrote(r) /\ touched' = touched \cup {r}
     \/ KeyGone(r) /\ UNCHANGED touched
     \/ WriteLost(r) /\ UNCHANGED touched
  /\ Goto(r, IF extractUsage(r) THEN "add" ELSE "record")
  /\ UNCHANGED <<server, req, key, gone, cancelled, status, resp, kept, counted,
                 rows, forwarded, skipped>>

\* AddUsage, which inserts a missing quota_totals row; its error is logged.
Add(r) ==
  /\ At(r, "add")
  /\ \/ /\ key[r] # "deleted" /\ Wrote(r)
        /\ counted' = counted \cup {r}
        /\ key' = [key EXCEPT ![r] = "whole"]
     \/ KeyGone(r) /\ UNCHANGED <<counted, key>>
     \/ WriteLost(r) /\ UNCHANGED <<counted, key>>
  /\ Goto(r, "record")
  /\ UNCHANGED <<server, req, gone, cancelled, status, resp, kept, touched,
                 rows, forwarded, skipped>>

\* record; its error is logged.
Record(r) ==
  /\ At(r, "record")
  /\ \/ /\ key[r] # "deleted" /\ Wrote(r)
        /\ rows' = [rows EXCEPT ![r] =
                      IF extractUsage(r) THEN "usage" ELSE "plain"]
     \/ KeyGone(r) /\ UNCHANGED rows
     \/ WriteLost(r) /\ UNCHANGED rows
  /\ Goto(r, "done")
  /\ UNCHANGED <<server, req, key, gone, cancelled, status, resp, kept, touched,
                 counted, forwarded, skipped>>

----------------------------------------------------------------------------
(* Clients and the process                                                 *)

ClientLeaves(r) ==
  /\ server # "exited"
  /\ r \in Leavers \ gone
  /\ pc[r] \notin {"new", "done"}
  /\ gone' = gone \cup {r}
  /\ UNCHANGED <<server, pc, req, cancelled, status, resp, kept, store,
                 forwarded, skipped, faulted>>

\* net/http notices, at once or much later, and cancels the context.
CancelContext(r) ==
  /\ server # "exited"
  /\ r \in gone \ cancelled
  /\ pc[r] # "done"
  /\ cancelled' = cancelled \cup {r}
  /\ UNCHANGED <<server, pc, req, gone, status, resp, kept, store, forwarded,
                 skipped, faulted>>

\* An administrator deletes the key, here or on another replica: quota_totals
\* and usage_records go with it (ON DELETE CASCADE).  Verify's cache may let
\* its requests in for a while.
DeleteKey(r) ==
  /\ key[r] # "deleted"
  /\ key' = [key EXCEPT ![r] = "deleted"]
  /\ touched' = touched \ {r}
  /\ counted' = counted \ {r}
  /\ rows' = [rows EXCEPT ![r] = "none"]
  /\ UNCHANGED <<server, pc, req, gone, cancelled, status, resp, kept,
                 forwarded, skipped, faulted>>

process == <<pc, req, gone, cancelled, status, resp, kept, store, forwarded,
             skipped, faulted>>

\* SIGTERM: gracefulShutdown calls server.Shutdown, which closes the
\* listener; ListenAndServe returns at once.
Shutdown ==
  /\ server = "up"
  /\ server' = "closing"
  /\ UNCHANGED process

\* run returns: st.Close() is deferred.
CloseStore ==
  /\ server = "closing"
  /\ server' = "closed"
  /\ UNCHANGED process

\* main returns, whatever the handlers are doing.
Exit ==
  /\ server = "closed"
  /\ server' = "exited"
  /\ UNCHANGED process

\* The process is killed.
Crash ==
  /\ Faults
  /\ server # "exited"
  /\ server' = "exited"
  /\ UNCHANGED process

Handle(r) ==
  \/ Authenticate(r) \/ CheckRate(r) \/ CheckQuota(r) \/ Do(r)
  \/ Touch(r) \/ Add(r) \/ Record(r)

Next ==
  \/ \E r \in Requests :
       \/ Accept(r) \/ Handle(r) \/ ReadBody(r)
       \/ \E a \in Answers(req[r]) : Respond(r, a)
       \/ Read(r) \/ Write(r) \/ WriteFails(r)
       \/ UpstreamFails(r) \/ Timeout(r)
       \/ ClientLeaves(r) \/ CancelContext(r) \/ DeleteKey(r)
  \/ Shutdown \/ CloseStore \/ Exit \/ Crash

Spec == Init /\ [][Next]_vars

(***************************************************************************)
(* The handlers run, Redis and Postgres answer or fail, the timer of the   *)
(* HTTP client fires, and once run returns the process goes on to its end. *)
(* Nothing is assumed of the upstream, and no SIGTERM need ever come.      *)
(***************************************************************************)
ProxyFairness ==
  /\ \A r \in Requests : WF_vars(Handle(r)) /\ WF_vars(Timeout(r))
  /\ WF_vars(CloseStore \/ Exit)

(***************************************************************************)
(* A client goes on sending its body and taking its response, or the       *)
(* connection breaks.                                                      *)
(***************************************************************************)
ClientFairness ==
  \A r \in Requests : WF_vars(ReadBody(r)) /\ WF_vars(Write(r))

FairSpec == Spec /\ ProxyFairness /\ ClientFairness

----------------------------------------------------------------------------
(* Properties                                                              *)

(***************************************************************************)
(* A limit check that failed because the client had left never lets a      *)
(* request through to the upstream: only a failing Redis or Postgres or a  *)
(* key without a quota_totals row does.  checkLimits ignores all errors    *)
(* alike; it is the shared request context that stops the first kind at    *)
(* client.Do.                                                              *)
(***************************************************************************)
LeavingSkipsNoCheck ==
  \A r \in forwarded : "context" \notin skipped[r]

(***************************************************************************)
(* A successful JSON request to an endpoint that reports usage, whose      *)
(* response was passed on in full, is in the totals and has a row with its *)
(* usage, unless the store failed, the key was deleted or a document was   *)
(* larger than captureMax: a stream may be of any length, and need not     *)
(* have asked for its usage.                                               *)
(***************************************************************************)
DeliveredIsBilled ==
  \A r \in Requests :
    /\ pc[r] = "done" /\ r \notin faulted /\ key[r] # "deleted"
    /\ req[r].json /\ req[r].metered
    /\ status[r] = 200 /\ kept[r] = resp[r].len
    /\ resp[r].sse \/ resp[r].len <= CaptureMax
    => r \in counted /\ rows[r] = "usage"

(***************************************************************************)
(* usage_records never runs ahead of quota_totals and last_used_at: a row  *)
(* with usage has been counted, and its key touched, before it appears,    *)
(* even if the process dies in between; only failing writes can separate   *)
(* them.                                                                   *)
(***************************************************************************)
RowsNotAhead ==
  \A r \in Requests \ faulted :
    rows[r] = "usage" => r \in counted /\ r \in touched

(***************************************************************************)
(* A finished request without a row was refused by authenticate, lost its  *)
(* client before its JSON body had arrived, met a failing store or had its *)
(* key deleted; every other way out of ServeHTTP, early or late, writes    *)
(* one.                                                                    *)
(***************************************************************************)
MissingRowExplained ==
  \A r \in Requests :
    pc[r] = "done" /\ rows[r] = "none" =>
      \/ status[r] \in {401, 500}
      \/ status[r] = 400 /\ r \notin forwarded
      \/ r \in faulted
      \/ key[r] = "deleted"

(***************************************************************************)
(* Every request that was accepted is finished, or the process ends, even  *)
(* if the upstream never sends another byte.                               *)
(***************************************************************************)
RequestEnds ==
  \A r \in Requests :
    pc[r] # "new" ~> (pc[r] = "done" \/ server = "exited")

(***************************************************************************)
(* "records every request": once a request has passed authenticate, it has *)
(* a row when it is finished or when the process has exited after a        *)
(* SIGTERM, as long as its key is there.                                   *)
(***************************************************************************)
EveryRequestRecorded ==
  \A r \in Requests :
    /\ pc[r] = "done" \/ server = "exited"
    /\ pc[r] \notin {"new", "auth"} /\ status[r] \notin {401, 500}
    /\ key[r] # "deleted"
    => rows[r] # "none"

============================================================================
