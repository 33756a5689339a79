------------------------- MODULE RequestFlowProofs -------------------------
(***************************************************************************)
(* Proofs of the safety properties of RequestFlow, for any set of          *)
(* requests, any length of responses and any size of the tail buffer.      *)
(***************************************************************************)
EXTENDS RequestFlow, TLAPS

\* Before the upstream request has been made.
Early == {"new", "auth", "rate", "quota", "body", "do"}

\* A handler that has not finished its response has written nothing to the
\* store.
NothingStored ==
  \A r \in Requests :
    /\ pc[r] \in Early \cup {"await", "read", "write", "touch"} =>
         r \notin counted /\ rows[r] = "none"
    /\ pc[r] # "done" => rows[r] = "none"

\* A request that has not been answered by the upstream has no response, and
\* one that has not come to client.Do has not been forwarded.
NotAnswered ==
  \A r \in Requests :
    /\ pc[r] \in Early => r \notin forwarded
    /\ pc[r] \in Early \cup {"await"} => status[r] = 0 /\ kept[r] = 0
    /\ pc[r] \in {"await", "read", "write", "touch", "add"} => r \in forwarded
    /\ status[r] \in {0, 401, 429, 500, 502} => resp[r] = NoResponse
    /\ status[r] = 0 => pc[r] \in Early \cup {"await"}

\* A unit is written only while the response has another one.
UnitToWrite ==
  \A r \in Requests : pc[r] = "write" => kept[r] < resp[r].len

\* A success is one of the answers the upstream may give to the request.
AnswerFits ==
  \A r \in Requests :
    status[r] = 200 => resp[r] \in Answers(req[r]) /\ resp[r].ok

\* Only a cancelled context skips a check for the context.
SkipExplained ==
  \A r \in Requests : "context" \in skipped[r] => r \in cancelled

\* The writes after the response come one after the other, and a deleted key
\* has nothing in the store.
WritesInOrder ==
  /\ \A r \in Requests : key[r] = "deleted" => rows[r] = "none"
  /\ \A r \in Requests \ faulted :
       key[r] # "deleted" =>
         /\ pc[r] = "add" => r \in touched
         /\ pc[r] \in {"record", "done"} /\ extractUsage(r) =>
              r \in touched /\ r \in counted
         /\ pc[r] = "done" /\ extractUsage(r) => rows[r] = "usage"
         /\ rows[r] = "usage" => extractUsage(r)

\* What the steps preserve besides the shape of the state.
Rest ==
  /\ NothingStored /\ NotAnswered /\ UnitToWrite /\ AnswerFits
  /\ SkipExplained /\ LeavingSkipsNoCheck /\ WritesInOrder
  /\ MissingRowExplained

IInv == TypeOK /\ Rest

----------------------------------------------------------------------------
\* Every answer of the upstream is a response.
LEMMA AnswersType ==
  ASSUME NEW q \in RequestKinds
  PROVE  Answers(q) \subseteq Response
<1>1. MaxLen \in Nat /\ MaxLen > 0
  BY FlowAssumption
<1>2. ASSUME NEW n \in 2 .. MaxLen
      PROVE  {n - 1} \subseteq 1 .. MaxLen
  BY <1>1, <1>2
<1>3. ASSUME NEW n \in 1 .. MaxLen
      PROVE  1 .. n \subseteq 1 .. MaxLen
  BY <1>1, <1>3
<1>4. ASSUME NEW a \in Answers(q)
      PROVE  a \in Response
  <2>1. CASE a = [ok |-> FALSE, sse |-> FALSE, len |-> 1, usage |-> {}]
    BY <1>1, <2>1 DEF Response
  <2>2. CASE \E n \in 2 .. MaxLen :
               a = [ok |-> TRUE, sse |-> TRUE, len |-> n,
                    usage |-> IF q.metered /\ PrepareBody(q).include
                              THEN {n - 1} ELSE {}]
    <3>1. PICK n \in 2 .. MaxLen :
               a = [ok |-> TRUE, sse |-> TRUE, len |-> n,
                    usage |-> IF q.metered /\ PrepareBody(q).include
                              THEN {n - 1} ELSE {}]
      BY <2>2
    <3>2. n \in 0 .. MaxLen /\ {n - 1} \in SUBSET (1 .. MaxLen)
      BY <1>1, <1>2
    <3>3. QED
      BY <3>1, <3>2 DEF Response
  <2>3. CASE \E n \in 1 .. MaxLen :
               a = [ok |-> TRUE, sse |-> FALSE, len |-> n,
                    usage |-> IF q.metered THEN 1 .. n ELSE {}]
    <3>1. PICK n \in 1 .. MaxLen :
               a = [ok |-> TRUE, sse |-> FALSE, len |-> n,
                    usage |-> IF q.metered THEN 1 .. n ELSE {}]
      BY <2>3
    <3>2. n \in 0 .. MaxLen /\ 1 .. n \in SUBSET (1 .. MaxLen)
      BY <1>1, <1>3
    <3>3. QED
      BY <3>1, <3>2 DEF Response
  <2>4. QED
    BY <1>4, <2>1, <2>2, <2>3 DEF Answers
<1>5. QED
  BY <1>4

\* extractUsage depends on the request, the response and what was kept.
LEMMA UsageStable ==
  ASSUME NEW r \in Requests, req' = req,
         resp'[r] = resp[r], kept'[r] = kept[r]
  PROVE  extractUsage(r)' <=> extractUsage(r)
BY DEF extractUsage, Captured, PrepareBody

\* Without a response there is no usage.
LEMMA NoResponseNoUsage ==
  ASSUME NEW r \in Requests, resp[r] = NoResponse
  PROVE  ~extractUsage(r)
BY DEF extractUsage, NoResponse

\* Every step keeps the shape of the state.
LEMMA TypeStep ==
  ASSUME TypeOK, NotAnswered, UnitToWrite, [Next]_vars
  PROVE  TypeOK'
<1> USE FlowAssumption DEF TypeOK, Pcs
<1>1. ASSUME NEW r \in Requests, Accept(r)
       PROVE  TypeOK'
  BY <1>1 DEF Accept, At, Goto, Answer, store
<1>2. ASSUME NEW r \in Requests, Authenticate(r)
       PROVE  TypeOK'
  BY <1>2 DEF Authenticate, At, Goto, Answer, store
<1>3. ASSUME NEW r \in Requests, CheckRate(r)
       PROVE  TypeOK'
  BY <1>3 DEF CheckRate, Check, Skip, At, Goto, Answer, store
<1>4. ASSUME NEW r \in Requests, CheckQuota(r)
       PROVE  TypeOK'
  BY <1>4 DEF CheckQuota, Check, NoTotals, Skip, At, Goto, Answer, store
<1>5. ASSUME NEW r \in Requests, Do(r)
       PROVE  TypeOK'
  BY <1>5 DEF Do, At, Goto, Answer, store
<1>6. ASSUME NEW r \in Requests, Touch(r)
       PROVE  TypeOK'
  BY <1>6 DEF Touch, At, Goto, Wrote, WriteLost, KeyGone
<1>7. ASSUME NEW r \in Requests, Add(r)
       PROVE  TypeOK'
  BY <1>7 DEF Add, At, Goto, Wrote, WriteLost, KeyGone
<1>8. ASSUME NEW r \in Requests, Record(r)
       PROVE  TypeOK'
  BY <1>8 DEF Record, At, Goto, Wrote, WriteLost, KeyGone
<1>9. ASSUME NEW r \in Requests, ReadBody(r)
       PROVE  TypeOK'
  BY <1>9 DEF ReadBody, At, Goto, Answer, store
<1>10. ASSUME NEW r \in Requests, NEW a \in Answers(req[r]), Respond(r, a)
       PROVE  TypeOK'
  <2>1. a \in Response /\ kept[r] = 0 /\ a.len \in Nat
    BY <1>10, AnswersType DEF Respond, At, NotAnswered, Response
  <2>2. resp' \in [Requests -> Response] /\ \A q \in Requests : kept'[q] <= resp'[q].len
    BY <1>10, <2>1 DEF Respond
  <2>3. QED
    BY <1>10, <2>2 DEF Respond, At, Goto, Answer, store
<1>11. ASSUME NEW r \in Requests, Read(r)
       PROVE  TypeOK'
  BY <1>11 DEF Read, At, Goto, Answer, store
<1>12. ASSUME NEW r \in Requests, Write(r)
       PROVE  TypeOK'
  BY <1>12 DEF Write, At, Goto, store, UnitToWrite, Response
<1>13. ASSUME NEW r \in Requests, WriteFails(r)
       PROVE  TypeOK'
  BY <1>13 DEF WriteFails, At, Goto, Answer, store
<1>14. ASSUME NEW r \in Requests, UpstreamFails(r)
       PROVE  TypeOK'
  BY <1>14 DEF UpstreamFails, BreakOff, At, Goto, Answer, store
<1>15. ASSUME NEW r \in Requests, Timeout(r)
       PROVE  TypeOK'
  BY <1>15 DEF Timeout, BreakOff, At, Goto, Answer, store
<1>16. ASSUME NEW r \in Requests, ClientLeaves(r)
       PROVE  TypeOK'
  BY <1>16 DEF ClientLeaves, At, Goto, Answer, store
<1>17. ASSUME NEW r \in Requests, CancelContext(r)
       PROVE  TypeOK'
  BY <1>17 DEF CancelContext, At, Goto, Answer, store
<1>18. ASSUME NEW r \in Requests, DeleteKey(r)
       PROVE  TypeOK'
  BY <1>18 DEF DeleteKey
<1>19. CASE Shutdown \/ CloseStore \/ Exit \/ Crash
  BY <1>19 DEF Shutdown, CloseStore, Exit, Crash, process, store
<1>20. CASE UNCHANGED vars
  BY <1>20 DEF vars
<1>21. QED
  BY <1>1, <1>2, <1>3, <1>4, <1>5, <1>6, <1>7, <1>8, <1>9, <1>10, <1>11, <1>12, <1>13, <1>14, <1>15, <1>16, <1>17, <1>18, <1>19, <1>20 DEF Next, Handle

\* Every step of a handler, a client, the upstream or the process keeps it.
LEMMA RestStep ==
  ASSUME TypeOK, Rest, [Next]_vars
  PROVE  Rest'
<1> USE DEF TypeOK, Pcs, Early, Rest, NothingStored, NotAnswered, UnitToWrite,
            AnswerFits, SkipExplained, LeavingSkipsNoCheck, WritesInOrder,
            MissingRowExplained
<1>a. ASSUME UNCHANGED <<req, resp, kept>>
      PROVE  \A q \in Requests : extractUsage(q)' <=> extractUsage(q)
  BY <1>a, UsageStable
<1>b. \A q \in Requests : resp[q] = NoResponse => ~extractUsage(q)
  BY NoResponseNoUsage
<1>1. ASSUME NEW r \in Requests, Accept(r)
       PROVE  Rest'
  BY <1>1, <1>a, <1>b DEF Accept, At, Goto, Answer, store
<1>2. ASSUME NEW r \in Requests, Authenticate(r)
       PROVE  Rest'
  BY <1>2, <1>a, <1>b DEF Authenticate, At, Goto, Answer, store
<1>3. ASSUME NEW r \in Requests, CheckRate(r)
       PROVE  Rest'
  BY <1>3, <1>a, <1>b DEF CheckRate, Check, Skip, At, Goto, Answer, store
<1>4. ASSUME NEW r \in Requests, CheckQuota(r)
       PROVE  Rest'
  BY <1>4, <1>a, <1>b DEF CheckQuota, Check, NoTotals, Skip, At, Goto, Answer, store
<1>5. ASSUME NEW r \in Requests, Do(r)
       PROVE  Rest'
  BY <1>5, <1>a, <1>b DEF Do, At, Goto, Answer, store
<1>6. ASSUME NEW r \in Requests, Touch(r)
       PROVE  Rest'
  BY <1>6, <1>a, <1>b DEF Touch, At, Goto, Wrote, WriteLost, KeyGone
<1>7. ASSUME NEW r \in Requests, Add(r)
       PROVE  Rest'
  BY <1>7, <1>a, <1>b DEF Add, At, Goto, Wrote, WriteLost, KeyGone
<1>8. ASSUME NEW r \in Requests, Record(r)
       PROVE  Rest'
  BY <1>8, <1>a, <1>b DEF Record, At, Goto, Wrote, WriteLost, KeyGone
<1>9. ASSUME NEW r \in Requests, ReadBody(r)
       PROVE  Rest'
  BY <1>9, <1>a, <1>b DEF ReadBody, At, Goto, Answer, store
<1>10. ASSUME NEW r \in Requests, NEW a \in Answers(req[r]), Respond(r, a)
       PROVE  Rest'
  <2>1. \A q \in Requests \ {r} : extractUsage(q)' <=> extractUsage(q)
    BY <1>10, UsageStable DEF Respond
  <2>2. /\ pc[r] = "await" /\ pc' = [pc EXCEPT ![r] = "read"]
        /\ resp' = [resp EXCEPT ![r] = a]
        /\ status' = [status EXCEPT ![r] = IF a.ok THEN 200 ELSE 400]
        /\ UNCHANGED <<req, key, cancelled, kept, touched, counted, rows,
                       forwarded, skipped, faulted>>
    BY <1>10 DEF Respond, At, Goto, Answer, store
  <2>3. r \in forwarded
    BY <2>2
  <2>4. NothingStored' /\ UnitToWrite' /\ SkipExplained' /\ LeavingSkipsNoCheck'
    BY <2>2
  <2>5. NotAnswered'
    BY <2>2, <2>3
  <2>6. AnswerFits'
    BY <2>2
  <2>7. WritesInOrder' /\ MissingRowExplained'
    BY <2>1, <2>2
  <2>8. QED
    BY <2>4, <2>5, <2>6, <2>7
<1>11. ASSUME NEW r \in Requests, Read(r)
       PROVE  Rest'
  BY <1>11, <1>a, <1>b DEF Read, At, Goto, Answer, store
<1>12. ASSUME NEW r \in Requests, Write(r)
       PROVE  Rest'
  <2>1. \A q \in Requests \ {r} : extractUsage(q)' <=> extractUsage(q)
    BY <1>12, UsageStable DEF Write
  <2>2. QED
    BY <1>12, <2>1 DEF Write, At, Goto, Answer, store
<1>13. ASSUME NEW r \in Requests, WriteFails(r)
       PROVE  Rest'
  BY <1>13, <1>a, <1>b DEF WriteFails, At, Goto, Answer, store
<1>14. ASSUME NEW r \in Requests, UpstreamFails(r)
       PROVE  Rest'
  BY <1>14, <1>a, <1>b DEF UpstreamFails, BreakOff, At, Goto, Answer, store
<1>15. ASSUME NEW r \in Requests, Timeout(r)
       PROVE  Rest'
  BY <1>15, <1>a, <1>b DEF Timeout, BreakOff, At, Goto, Answer, store
<1>16. ASSUME NEW r \in Requests, ClientLeaves(r)
       PROVE  Rest'
  BY <1>16, <1>a, <1>b DEF ClientLeaves, At, Goto, Answer, store
<1>17. ASSUME NEW r \in Requests, CancelContext(r)
       PROVE  Rest'
  BY <1>17, <1>a, <1>b DEF CancelContext, At, Goto, Answer, store
<1>18. ASSUME NEW r \in Requests, DeleteKey(r)
       PROVE  Rest'
  BY <1>18, <1>a, <1>b DEF DeleteKey
<1>19. CASE Shutdown \/ CloseStore \/ Exit \/ Crash
  BY <1>19, <1>a DEF Shutdown, CloseStore, Exit, Crash, process, store
<1>20. CASE UNCHANGED vars
  BY <1>20, <1>a DEF vars
<1>21. QED
  BY <1>1, <1>2, <1>3, <1>4, <1>5, <1>6, <1>7, <1>8, <1>9, <1>10, <1>11, <1>12, <1>13, <1>14, <1>15, <1>16, <1>17, <1>18, <1>19, <1>20 DEF Next, Handle

----------------------------------------------------------------------------
\* Handlers, clients, the upstream and the process keep the inductive
\* invariant.
THEOREM Invariance == Spec => []IInv
<1>1. Init => IInv
  <2> SUFFICES ASSUME Init PROVE IInv
    OBVIOUS
  <2>1. TypeOK
    <3>1. NoResponse \in Response
      BY FlowAssumption DEF NoResponse, Response
    <3>2. QED
      BY <3>1, FlowAssumption DEF Init, TypeOK, Pcs, NoResponse
  <2>2. \A r \in Requests : ~extractUsage(r)
    BY NoResponseNoUsage DEF Init
  <2>3. Rest
    BY <2>2 DEF Init, Rest, Early, NothingStored, NotAnswered, UnitToWrite,
      AnswerFits, SkipExplained, LeavingSkipsNoCheck, WritesInOrder,
      MissingRowExplained
  <2>4. QED
    BY <2>1, <2>3 DEF IInv
<1>2. IInv /\ [Next]_vars => IInv'
  BY TypeStep, RestStep DEF IInv, Rest
<1>3. QED
  BY <1>1, <1>2, PTL DEF Spec

\* The state of handlers, clients and store keeps its shape, and io.Copy
\* never copies more than the upstream sends.
THEOREM TypeCorrect == Spec => []TypeOK
<1>1. IInv => TypeOK
  BY DEF IInv
<1>2. QED
  BY <1>1, Invariance, PTL

\* A check that failed because the client left lets nothing through.
THEOREM LeavingIsNoBypass == Spec => []LeavingSkipsNoCheck
<1>1. IInv => LeavingSkipsNoCheck
  BY DEF IInv, Rest
<1>2. QED
  BY <1>1, Invariance, PTL

\* A request without a row was refused, lost its client, met a failure or had
\* its key deleted.
THEOREM RowsExplained == Spec => []MissingRowExplained
<1>1. IInv => MissingRowExplained
  BY DEF IInv, Rest
<1>2. QED
  BY <1>1, Invariance, PTL

\* Rows never run ahead of the totals, wherever the process dies.
THEOREM LedgerInOrder == Spec => []RowsNotAhead
<1>1. IInv => RowsNotAhead
  <2> SUFFICES ASSUME IInv, NEW r \in Requests \ faulted, rows[r] = "usage"
               PROVE  r \in counted /\ r \in touched
    BY DEF RowsNotAhead
  <2>1. pc[r] = "done"
    BY DEF IInv, Rest, NothingStored
  <2>2. QED
    BY <2>1 DEF IInv, Rest, WritesInOrder
<1>2. QED
  BY <1>1, Invariance, PTL

\* A response that was copied in full has its usage in the tail buffer: the
\* last line of a stream of any length, or a document that fits.
LEMMA UsageInTail ==
  ASSUME TypeOK, AnswerFits, NEW r \in Requests,
         req[r].json, req[r].metered, status[r] = 200,
         kept[r] = resp[r].len,
         resp[r].sse \/ resp[r].len <= CaptureMax
  PROVE  extractUsage(r)
<1>1. resp[r] \in Answers(req[r]) /\ resp[r].ok /\ req[r] \in RequestKinds
  BY DEF AnswerFits, TypeOK
<1>a. resp[r] # [ok |-> FALSE, sse |-> FALSE, len |-> 1, usage |-> {}]
  BY <1>1
<1>b. resp[r] \in
        IF req[r].stream
        THEN {[ok |-> TRUE, sse |-> TRUE, len |-> n,
               usage |-> IF req[r].metered /\ PrepareBody(req[r]).include
                         THEN {n - 1} ELSE {}] :
                n \in 2 .. MaxLen}
        ELSE {[ok |-> TRUE, sse |-> FALSE, len |-> n,
               usage |-> IF req[r].metered THEN 1 .. n ELSE {}] :
                n \in 1 .. MaxLen}
  BY <1>1, <1>a, Zenon DEF Answers
<1>2. CASE req[r].stream
  <2>1. PrepareBody(req[r]).include
    BY <1>1, <1>2 DEF PrepareBody
  <2>2. PICK n \in 2 .. MaxLen :
          resp[r] = [ok |-> TRUE, sse |-> TRUE, len |-> n,
                     usage |-> IF req[r].metered /\ PrepareBody(req[r]).include
                               THEN {n - 1} ELSE {}]
    BY <1>b, <1>2, Zenon
  <2>3. resp[r].usage = {n - 1} /\ resp[r].len = n /\ resp[r].sse
    BY <2>1, <2>2
  <2>4. n - 1 \in Captured(r)
    BY <2>3, FlowAssumption DEF Captured
  <2>5. QED
    BY <2>3, <2>4 DEF extractUsage
<1>3. CASE ~req[r].stream
  <2>1. PICK n \in 1 .. MaxLen :
          resp[r] = [ok |-> TRUE, sse |-> FALSE, len |-> n,
                     usage |-> IF req[r].metered THEN 1 .. n ELSE {}]
    BY <1>b, <1>3, Zenon
  <2>2. resp[r].usage = 1 .. n /\ resp[r].len = n /\ n <= CaptureMax
    BY <2>1
  <2>3. 1 .. n \subseteq Captured(r) /\ 1 \in 1 .. n
    BY <2>2, FlowAssumption DEF Captured
  <2>4. ~PrepareBody(req[r]).isStream
    BY <1>1, <1>3 DEF PrepareBody, RequestKinds
  <2>5. QED
    BY <2>2, <2>3, <2>4 DEF extractUsage
<1>4. QED
  BY <1>2, <1>3

\* A response with a usage block that was passed on in full is billed,
\* whatever its length if it is a stream, unless a write failed or the key
\* was deleted.
THEOREM DeliveryIsBilled == Spec => []DeliveredIsBilled
<1>1. IInv => DeliveredIsBilled
  <2> SUFFICES ASSUME IInv, NEW r \in Requests,
                      pc[r] = "done", r \notin faulted, key[r] # "deleted",
                      req[r].json, req[r].metered,
                      status[r] = 200, kept[r] = resp[r].len,
                      resp[r].sse \/ resp[r].len <= CaptureMax
               PROVE  r \in counted /\ rows[r] = "usage"
    BY DEF DeliveredIsBilled
  <2>1. extractUsage(r)
    BY UsageInTail DEF IInv, Rest
  <2>2. QED
    BY <2>1 DEF IInv, Rest, WritesInOrder
<1>2. QED
  BY <1>1, Invariance, PTL

============================================================================
