------------------------------ MODULE Billing ------------------------------
(***************************************************************************)
(* From the upstream's response to the bill (internal/proxy/proxy.go,      *)
(* streamResponse to the end of ServeHTTP, and internal/pricing): the      *)
(* response is copied to the client and to the tail buffer, usage is read  *)
(* from what the buffer holds, and priced.                                 *)
(*                                                                         *)
(* A response is a sequence of lines with sizes in bytes, the line break   *)
(* included; a JSON response is one line.  A line is a document with a     *)
(* model, a usage block, both or neither; comments, blank lines and [DONE] *)
(* are of the last kind.  The rest of a line whose beginning has left the  *)
(* buffer does not start with "data:", and a document cut short does not   *)
(* parse.  Model names are sequences of the parts between dashes.  Prices  *)
(* and costs are whole numbers; rounding is left out.                      *)
(*                                                                         *)
(* Whether a byte that net/http took reaches the client is nothing the     *)
(* proxy learns: flushWriter.Write returns the error of a buffered Write,  *)
(* and the Flush that follows has no error to return.  A client that has   *)
(* gone is noticed by a later Write, or never.                             *)
(***************************************************************************)
EXTENDS Integers, Sequences, FiniteSets

CONSTANTS
  Responses,    \* [format, lines]: what the upstream may send
  Models,       \* models a request may name; << >> for none
  Prices,       \* pricing.yaml: a function from model names to prices
  CaptureMax    \* captureMax

None == -1

\* A line of a response: cached is None when the usage block has no details.
Documents ==
  [size : Nat \ {0}, model : Seq(STRING), hasUsage : BOOLEAN,
   usage : [in : Nat, out : Nat, cached : Nat \cup {None}]]

ASSUME BillingAssumption ==
  /\ CaptureMax \in Nat \ {0}
  /\ DOMAIN Prices \subseteq Seq(STRING) /\ Models \subseteq Seq(STRING)
  /\ \A m \in DOMAIN Prices :
       Prices[m] \in [Input : Nat, Cached : Nat, Output : Nat]
  /\ Responses \subseteq
       [format : {"sse", "json"}, lines : Seq(Documents)]
  /\ \A r \in Responses : r.format = "json" => Len(r.lines) = 1

NoUsage == [in |-> 0, out |-> 0, cached |-> None]

VARIABLES
  resp,      \* the response
  request,   \* [model, isStream]: what PrepareBody found
  read,      \* bytes io.Copy has read
  written,   \* bytes net/http has taken for the client
  captured,  \* bytes that went through the tail buffer
  pc,        \* "copy", "capture", "extract" or "done"
  ended,     \* the response was read to its end
  bill       \* [model, in, out, cached, cost] as recorded

vars == <<resp, request, read, written, captured, pc, ended, bill>>

End(lines) ==
  LET f[i \in 0 .. Len(lines)] == IF i = 0 THEN 0 ELSE f[i - 1] + lines[i].size
  IN f
Size(r) == End(r.lines)[Len(r.lines)]

Unbilled == [model |-> << >>, in |-> 0, out |-> 0, cached |-> 0, cost |-> 0]

Init ==
  /\ resp \in Responses
  /\ request \in [model : Models, isStream : BOOLEAN]
  /\ read = 0 /\ written = 0 /\ captured = 0
  /\ pc = "copy" /\ ended = FALSE
  /\ bill = Unbilled

----------------------------------------------------------------------------
(* streamResponse: io.Copy into io.MultiWriter(client, tail)               *)

\* Read returns some bytes and net/http takes them.
Copy ==
  /\ pc = "copy"
  /\ \E n \in read + 1 .. Size(resp) : read' = n /\ written' = n
  /\ pc' = "capture"
  /\ UNCHANGED <<resp, request, captured, ended, bill>>

\* Mutated form: the tail buffer comes first in the MultiWriter.
WriteFailsAfterTail ==
  /\ pc = "copy"
  /\ \E n \in read + 1 .. Size(resp) :
       /\ read' = n /\ captured' = n
       /\ written' \in read .. n - 1
  /\ pc' = "extract"
  /\ UNCHANGED <<resp, request, ended, bill>>

\* Write returns an error, net/http having taken part of the bytes or none:
\* MultiWriter returns and the tail buffer gets nothing of them.
WriteFails ==
  /\ pc = "copy"
  /\ \E n \in read + 1 .. Size(resp) :
       /\ read' = n
       /\ written' \in read .. n - 1
  /\ pc' = "extract"
  /\ UNCHANGED <<resp, request, captured, ended, bill>>

\* Mutated form: Write counts what the buffer may hold, not what it was given.
CaptureCapacity ==
  /\ pc = "capture"
  /\ captured' = captured + CaptureMax
  /\ pc' = "copy"
  /\ UNCHANGED <<resp, request, read, written, ended, bill>>

Capture ==
  /\ pc = "capture"
  /\ captured' = read
  /\ pc' = "copy"
  /\ UNCHANGED <<resp, request, read, written, ended, bill>>

\* EOF, or the upstream breaks off or STREAM_TIMEOUT expires before it.
Stop ==
  /\ pc = "copy"
  /\ ended' = (read = Size(resp))
  /\ pc' = "extract"
  /\ UNCHANGED <<resp, request, read, written, captured, bill>>

----------------------------------------------------------------------------
(* extractUsage                                                            *)

\* Mutated form: the buffer keeps the first bytes.
InTailHead(i) == End(resp.lines)[i] - 1 <= captured /\ End(resp.lines)[i] <= CaptureMax

\* Line i is in the buffer from its beginning; its line break may be missing.
InTail(i) ==
  /\ End(resp.lines)[i - 1] >= captured - CaptureMax
  /\ End(resp.lines)[i] - 1 <= captured

\* Mutated form: usage blocks are added up.
ScanAdds(out, line) ==
  [model |-> IF line.model # << >> THEN line.model ELSE out.model,
   in |-> out.in + line.usage.in, out |-> out.out + line.usage.out,
   cached |-> IF line.usage.cached # None THEN line.usage.cached ELSE out.cached]

\* One round of ParseSSEUsage.
Scan(out, line) ==
  [model |-> IF line.model # << >> THEN line.model ELSE out.model,
   in |-> IF line.hasUsage THEN line.usage.in ELSE out.in,
   out |-> IF line.hasUsage THEN line.usage.out ELSE out.out,
   cached |-> IF line.hasUsage /\ line.usage.cached # None
              THEN line.usage.cached ELSE out.cached]

Nothing == [model |-> << >>, in |-> 0, out |-> 0, cached |-> 0]

ParseSSEUsage ==
  LET f[i \in 0 .. Len(resp.lines)] ==
        IF i = 0 THEN Nothing
        ELSE IF InTail(i) THEN Scan(f[i - 1], resp.lines[i])
        ELSE f[i - 1]
  IN f[Len(resp.lines)]

ParseJSONUsage == IF InTail(1) THEN Scan(Nothing, resp.lines[1]) ELSE Nothing

\* A document of the wrong format does not parse.
extractUsage ==
  LET sse == request.isStream \/ resp.format = "sse" IN
  IF sse /\ resp.format = "sse" THEN ParseSSEUsage
  ELSE IF ~sse /\ resp.format = "json" THEN ParseJSONUsage
  ELSE Nothing

----------------------------------------------------------------------------
(* pricing                                                                 *)

\* Mutated form: one dash is cut off at most.
lookupOnce(model) ==
  LET n == Len(model)
      names == {m \in {model, SubSeq(model, 1, n - 1)} : m \in DOMAIN Prices}
  IN  IF n = 0 \/ names = {} THEN << >> ELSE CHOOSE m \in names : TRUE

\* The listed name that prices model, << >> for none: the model itself, then
\* what is left when its last part is cut off, and so on.
lookup(model) ==
  LET f[n \in 0 .. Len(model)] ==
        IF n = 0 THEN << >>
        ELSE IF SubSeq(model, 1, n) \in DOMAIN Prices THEN SubSeq(model, 1, n)
        ELSE f[n - 1]
  IN f[Len(model)]

\* Mutated form: cached tokens are not limited to the input.
CostUnclamped(model, in, out, cached) ==
  IF lookup(model) = << >> THEN 0 ELSE
    LET mp == Prices[lookup(model)] IN
    (in - cached) * mp.Input
      + cached * (IF mp.Cached = 0 THEN mp.Input ELSE mp.Cached) + out * mp.Output

Cost(model, in, out, cached) ==
  IF lookup(model) = << >> THEN 0 ELSE
    LET mp == Prices[lookup(model)]
        cachedRate == IF mp.Cached = 0 THEN mp.Input ELSE mp.Cached
        c == IF in - cached < 0 THEN in ELSE cached
    IN  (in - c) * mp.Input + c * cachedRate + out * mp.Output

\* Mutated form: a response that was cut short is not looked into.
BillIfEnded ==
  /\ pc = "extract"
  /\ LET u == IF ended THEN extractUsage ELSE Nothing
         model == IF u.model # << >> THEN u.model ELSE request.model
     IN  bill' = [model |-> model, in |-> u.in, out |-> u.out, cached |-> u.cached,
                  cost |-> Cost(model, u.in, u.out, u.cached)]
  /\ pc' = "done"
  /\ UNCHANGED <<resp, request, read, written, captured, ended>>

\* The rest of ServeHTTP: choose the model, price, add up and record.
Bill ==
  /\ pc = "extract"
  /\ LET u == extractUsage
         model == IF u.model # << >> THEN u.model ELSE request.model
     IN  bill' = [model |-> model, in |-> u.in, out |-> u.out, cached |-> u.cached,
                  cost |-> Cost(model, u.in, u.out, u.cached)]
  /\ pc' = "done"
  /\ UNCHANGED <<resp, request, read, written, captured, ended>>

Done == pc = "done" /\ UNCHANGED vars

Next == Copy \/ WriteFails \/ Capture \/ Stop \/ Bill \/ Done

Spec == Init /\ [][Next]_vars

----------------------------------------------------------------------------
(* Properties                                                              *)

(***************************************************************************)
(* The shape of the state: the tail buffer never runs ahead of io.Copy,    *)
(* and no bill is negative.                                                *)
(***************************************************************************)
TypeOK ==
  /\ resp \in Responses
  /\ request \in [model : Models, isStream : BOOLEAN]
  /\ read \in 0 .. Size(resp)
  /\ written \in 0 .. read /\ captured \in 0 .. read
  /\ pc \in {"copy", "capture", "extract", "done"}
  /\ ended \in BOOLEAN
  /\ {bill.in, bill.out, bill.cached, bill.cost} \subseteq Nat

Lines == resp.lines
UsageLines == {i \in DOMAIN Lines : Lines[i].hasUsage}
Maximum(S) == CHOOSE x \in S : \A y \in S : y <= x

\* What the client has been told it used: the last block, and the last model
\* named, which may come with it or later.
Owed == Lines[Maximum(UsageLines)]
Name ==
  LET named == {i \in DOMAIN Lines : Lines[i].model # << >>}
  IN  IF named = {} THEN request.model ELSE Lines[Maximum(named)].model

\* The price by another definition: every input token by itself, at the rates
\* of the longest listed name that is a prefix of the model up to a dash.
Listed(model) == {m \in DOMAIN Prices : /\ Len(m) \in 1 .. Len(model)
                                        /\ SubSeq(model, 1, Len(m)) = m}
Price(model) == Prices[CHOOSE m \in Listed(model) :
                         \A other \in Listed(model) : Len(other) <= Len(m)]
TokenRate(mp, i, cached) == IF i <= cached /\ mp.Cached # 0 THEN mp.Cached ELSE mp.Input
Charge(model, in, out, cached) ==
  IF Listed(model) = {} THEN 0 ELSE
  LET mp == Price(model)
      f[i \in 0 .. in] == IF i = 0 THEN 0 ELSE f[i - 1] + TokenRate(mp, i, cached)
  IN  f[in] + out * mp.Output

\* The document with the last usage block, or the whole JSON response, and
\* what follows it fit into the buffer.
Fits == Size(resp) - End(Lines)[Maximum(UsageLines) - 1] <= CaptureMax

\* The upstream named the model where it gave the usage, or never.
NamedIfAnywhere == Owed.model # << >> \/ \A i \in DOMAIN Lines : Lines[i].model = << >>

(***************************************************************************)
(* A response that was read to its end and whose last usage block is       *)
(* within captureMax of that end is billed by that block, for the model    *)
(* the upstream named (the request's if it named none) at the price of the *)
(* longest listed name, token by token; however it was cut into reads.     *)
(* Cached tokens are those of the last block that gives any.               *)
(***************************************************************************)
BilledAsReported ==
  LET details == {i \in UsageLines : Lines[i].usage.cached # None /\ InTail(i)} IN
  pc = "done" /\ ended /\ UsageLines # {} /\ Fits
    /\ (request.isStream => resp.format = "sse") /\ NamedIfAnywhere =>
       /\ bill.in = Owed.usage.in /\ bill.out = Owed.usage.out
       /\ bill.model = Name
       /\ bill.cached = IF details = {} THEN 0
                        ELSE Lines[Maximum(details)].usage.cached
       /\ bill.cost = Charge(Name, bill.in, bill.out, bill.cached)

(***************************************************************************)
(* Tokens are billed only if net/http had taken a usage block that says so *)
(* in full (but for its line break) before: what was read from the         *)
(* upstream and could not be written to the client is not billed, and no   *)
(* figures are put together from several blocks.  It does not say that the *)
(* client got the block.                                                   *)
(***************************************************************************)
BilledWasWritten ==
  pc = "done" /\ bill.in + bill.out > 0 =>
    \E i \in UsageLines :
      /\ End(Lines)[i] - 1 <= written
      /\ Lines[i].usage.in = bill.in /\ Lines[i].usage.out = bill.out

(***************************************************************************)
(* What a response is billed by that was cut short, because the upstream   *)
(* broke off, STREAM_TIMEOUT expired or the client's connection failed,    *)
(* whose error streamResponse drops: by the last usage block that had been *)
(* passed on in full, if that and what followed it fit into the buffer;    *)
(* and if none had, by nothing, however many tokens the upstream used.     *)
(***************************************************************************)
CutBilledByLast ==
  LET whole == {i \in UsageLines : End(Lines)[i] - 1 <= captured} IN
  pc = "done" /\ ~ended /\ (request.isStream => resp.format = "sse") =>
    IF whole = {} THEN bill.in = 0 /\ bill.out = 0
    ELSE captured - End(Lines)[Maximum(whole) - 1] <= CaptureMax =>
           /\ bill.in = Lines[Maximum(whole)].usage.in
           /\ bill.out = Lines[Maximum(whole)].usage.out

============================================================================
