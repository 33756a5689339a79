---------------------------- MODULE BillingProofs ----------------------------
(***************************************************************************)
(* Proofs about Billing, for responses of any length cut into reads in any *)
(* way, any price list and any size of the tail buffer.  The recursive     *)
(* functions of the model are shown to exist and to have their values by   *)
(* induction over a set of numbers (Induct), which needs no operator as a  *)
(* parameter.                                                              *)
(***************************************************************************)
EXTENDS Billing, WellFoundedInduction, TLAPS

-----------------------------------------------------------------------------
(* Induction and recursion                                                 *)

LEMMA Least ==
  ASSUME NEW T, T \subseteq Nat, T # {}
  PROVE  \E n \in T : \A m \in T : n <= m
<1> DEFINE R == OpToRel(<, Nat)
<1>1. IsWellFoundedOn(R, Nat)
  BY NatLessThanWellFounded
<1>2. \A a, b \in Nat : a < b => <<a, b>> \in R
  BY DEF OpToRel
<1> HIDE DEF R
<1>3. PICK n \in T : \A m \in T : ~(<<m, n>> \in R)
  BY <1>1, WFMin
<1>4. ASSUME NEW m \in T
      PROVE  n <= m
  <2>1. m \in Nat /\ n \in Nat /\ ~(<<m, n>> \in R)
    BY <1>3
  <2>2. ~(m < n)
    BY <1>2, <2>1
  <2>3. QED
    BY <2>1, <2>2
<1>5. QED
  BY <1>4

LEMMA Induct ==
  ASSUME NEW T, NEW N \in Nat, 0 \in T, \A n \in 0 .. N - 1 : n \in T => n + 1 \in T
  PROVE  0 .. N \subseteq T
<1> DEFINE B == (0 .. N) \ T
<1> SUFFICES ASSUME B # {}
             PROVE  FALSE
  OBVIOUS
<1>1. B \subseteq Nat
  OBVIOUS
<1>2. PICK n \in B : \A m \in B : n <= m
  <2> HIDE DEF B
  <2>1. QED
    BY <1>1, Least
<1>3. n \in 0 .. N /\ n \notin T /\ n # 0
  OBVIOUS
<1>4. n - 1 \in 0 .. N - 1 /\ n - 1 \notin B
  BY <1>2, <1>3
<1>5. n - 1 \in T
  BY <1>4
<1>6. QED
  BY <1>3, <1>4, <1>5

LEMMA Greatest ==
  ASSUME NEW S, NEW N \in Nat, S \subseteq 0 .. N, S # {}
  PROVE  Maximum(S) \in S /\ \A y \in S : y <= Maximum(S)
<1> DEFINE T == {n \in Nat : \A y \in S : y <= n}
<1>1. T \subseteq Nat /\ N \in T
  OBVIOUS
<1>2. PICK n \in T : \A m \in T : n <= m
  <2> HIDE DEF T
  <2>1. QED
    BY <1>1, Least
<1>3. n \in S
  <2> SUFFICES ASSUME n \notin S
               PROVE  FALSE
    OBVIOUS
  <2>1. \A y \in S : y \in Nat /\ y < n
    BY <1>2
  <2>2. n \in Nat /\ n - 1 \in Nat
    <3>1. PICK y \in S : TRUE
      OBVIOUS
    <3>2. y \in Nat /\ y < n /\ n \in Nat
      BY <2>1
    <3>3. QED
      BY <3>2
  <2>3. n - 1 \in T
    BY <2>1, <2>2
  <2>4. QED
    BY <1>2, <2>2, <2>3
<1>4. \A y \in S : y <= n
  BY <1>2
<1>5. QED
  BY <1>3, <1>4 DEF Maximum

Steps(N, A) == [1 .. N -> [A -> A]]
Chains(N, A, a, step) ==
  {g \in [0 .. N -> A] : g[0] = a /\ \A i \in 1 .. N : g[i] = step[i][g[i - 1]]}

\* There are values of which each is made from the one before.
LEMMA Recursion ==
  ASSUME NEW N \in Nat, NEW A, NEW a \in A, NEW step \in Steps(N, A)
  PROVE  Chains(N, A, a, step) # {}
<1> USE DEF Steps
<1> DEFINE Upto(n) == {g \in [0 .. n -> A] :
                         g[0] = a /\ \A i \in 1 .. n : g[i] = step[i][g[i - 1]]}
           T == {n \in 0 .. N : Upto(n) # {}}
<1>1. 0 \in T
  <2>1. [i \in 0 .. 0 |-> a] \in Upto(0)
    OBVIOUS
  <2>2. QED
    BY <2>1
<1>2. ASSUME NEW n \in 0 .. N - 1, n \in T
      PROVE  n + 1 \in T
  <2>1. PICK g \in Upto(n) : TRUE
    BY <1>2
  <2>2. g \in [0 .. n -> A] /\ g[0] = a /\ \A i \in 1 .. n : g[i] = step[i][g[i - 1]]
    BY <2>1
  <2> DEFINE h == [i \in 0 .. n + 1 |-> IF i = n + 1 THEN step[n + 1][g[n]] ELSE g[i]]
  <2>3. n + 1 \in 1 .. N /\ g[n] \in A /\ step[n + 1][g[n]] \in A
    BY <2>2
  <2>4. h \in [0 .. n + 1 -> A]
    BY <2>2, <2>3
  <2>5. h[0] = a
    BY <2>2
  <2>6. ASSUME NEW i \in 1 .. n + 1
        PROVE  h[i] = step[i][h[i - 1]]
    <3>1. CASE i = n + 1
      BY <2>2, <3>1
    <3>2. CASE i # n + 1
      <4>1. i \in 1 .. n /\ i \in 0 .. n + 1 /\ i - 1 \in 0 .. n + 1 /\ i - 1 # n + 1
        BY <3>2
      <4>2. h[i] = g[i] /\ h[i - 1] = g[i - 1]
        BY <3>2, <4>1
      <4>3. QED
        BY <2>2, <4>1, <4>2
    <3>3. QED
      BY <3>1, <3>2
  <2> HIDE DEF h
  <2>7. h \in Upto(n + 1)
    BY <2>4, <2>5, <2>6
  <2>8. QED
    BY <2>7
<1>3. 0 .. N \subseteq T
  <2> HIDE DEF T
  <2>1. QED
    BY <1>1, <1>2, Induct
<1>4. N \in T
  BY <1>3
<1>5. QED
  BY <1>4 DEF Chains

-----------------------------------------------------------------------------
(* Lines and bytes                                                         *)

\* End is what it says: where a line ends.
LEMMA Ends ==
  ASSUME NEW r \in Responses
  PROVE  LET N == Len(r.lines) IN
         /\ N \in Nat /\ \A i \in 1 .. N : r.lines[i] \in Documents
         /\ End(r.lines) \in [0 .. N -> Nat] /\ End(r.lines)[0] = 0
         /\ \A i \in 1 .. N : End(r.lines)[i] = End(r.lines)[i - 1] + r.lines[i].size
         /\ Size(r) \in Nat
<1> DEFINE lines == r.lines
           N == Len(lines)
           step == [i \in 1 .. N |-> [x \in Nat |-> x + lines[i].size]]
<1>1. lines \in Seq(Documents)
  BY BillingAssumption
<1>2. N \in Nat /\ \A i \in 1 .. N : lines[i] \in Documents
  BY <1>1
<1>3. \A i \in 1 .. N : lines[i].size \in Nat
  BY <1>2 DEF Documents
<1> HIDE DEF lines, N
<1>4. step \in [1 .. N -> [Nat -> Nat]]
  BY <1>3
<1>5. \A i \in 1 .. N, x \in Nat : step[i][x] = x + lines[i].size
  OBVIOUS
<1> HIDE DEF step
<1>6. PICK g \in [0 .. N -> Nat] : g[0] = 0 /\ \A i \in 1 .. N : g[i] = step[i][g[i - 1]]
  <2>1. 0 \in Nat /\ step \in Steps(N, Nat)
    BY <1>4 DEF Steps
  <2>2. Chains(N, Nat, 0, step) # {}
    BY <1>2, <2>1, Recursion
  <2>3. QED
    BY <2>2 DEF Chains
<1> DEFINE F(f) == [i \in 0 .. N |-> IF i = 0 THEN 0 ELSE f[i - 1] + lines[i].size]
<1>7. g = F(g)
  <2>1. ASSUME NEW i \in 0 .. N
        PROVE  g[i] = IF i = 0 THEN 0 ELSE g[i - 1] + lines[i].size
    <3>1. CASE i = 0
      BY <1>6, <3>1
    <3>2. CASE i # 0
      <4>1. i \in 1 .. N /\ i - 1 \in 0 .. N
        BY <1>2, <3>2
      <4>2. g[i - 1] \in Nat
        BY <4>1
      <4>3. QED
        BY <1>5, <1>6, <3>2, <4>1, <4>2
    <3>3. QED
      BY <3>1, <3>2
  <2>2. QED
    BY <2>1
<1>8. End(lines) = CHOOSE f : f = F(f)
  BY DEF End, N
<1>9. End(lines) = F(End(lines))
  <2> HIDE DEF F
  <2>1. QED
    BY <1>7, <1>8
<1> DEFINE e == End(lines)
           T == {n \in 0 .. N : e[n] \in Nat}
<1> HIDE DEF e
<1>10. e = F(e)
  BY <1>9 DEF e
<1>11. e[0] = 0 /\ \A i \in 1 .. N : e[i] = e[i - 1] + lines[i].size
  <2>1. \A i \in 0 .. N : e[i] = IF i = 0 THEN 0 ELSE e[i - 1] + lines[i].size
    BY <1>10
  <2>2. QED
    BY <1>2, <2>1
<1>12. 0 .. N \subseteq T
  <2>1. 0 \in T
    BY <1>2, <1>11
  <2>2. ASSUME NEW n \in 0 .. N - 1, n \in T
        PROVE  n + 1 \in T
    <3>1. n + 1 \in 1 .. N /\ n + 1 - 1 = n /\ n + 1 \in 0 .. N
      BY <1>2
    <3>2. e[n + 1] = e[n] + lines[n + 1].size
      BY <1>11, <3>1
    <3>3. QED
      BY <1>3, <2>2, <3>1, <3>2
  <2> HIDE DEF T
  <2>3. QED
    BY <1>2, <2>1, <2>2, Induct
<1>13. e \in [0 .. N -> Nat]
  BY <1>10, <1>12
<1>14. Size(r) = e[N]
  BY DEF Size, e, N, lines
<1>15. Size(r) \in Nat
  BY <1>2, <1>13, <1>14
<1>16. QED
  BY <1>2, <1>11, <1>13, <1>15 DEF e, N, lines

\* Lines follow one another.
LEMMA Increasing ==
  ASSUME NEW r \in Responses, NEW i \in 0 .. Len(r.lines), NEW j \in 0 .. Len(r.lines), i <= j
  PROVE  End(r.lines)[i] <= End(r.lines)[j] /\ End(r.lines)[j] <= Size(r)
<1> DEFINE N == Len(r.lines)
           e == End(r.lines)
           T == {n \in 0 .. N : \A k \in 0 .. n : e[k] <= e[n]}
<1>1. /\ N \in Nat /\ e \in [0 .. N -> Nat] /\ Size(r) = e[N]
      /\ \A k \in 1 .. N : e[k] = e[k - 1] + r.lines[k].size /\ r.lines[k] \in Documents
  BY Ends DEF Size
<1> HIDE DEF N, e
<1>2. 0 \in T
  BY <1>1
<1>3. ASSUME NEW n \in 0 .. N - 1, n \in T
      PROVE  n + 1 \in T
  <2>1. n + 1 \in 1 .. N /\ n + 1 - 1 = n /\ n \in 0 .. N /\ n + 1 \in 0 .. N
    BY <1>1
  <2>2. r.lines[n + 1].size \in Nat
    <3>1. \A d \in Documents : d.size \in Nat
      BY DEF Documents
    <3>2. r.lines[n + 1] \in Documents
      BY <1>1, <2>1
    <3>3. QED
      BY <3>1, <3>2
  <2>3. e[n] <= e[n + 1] /\ e[n] \in Nat /\ e[n + 1] \in Nat
    <3> DEFINE z == r.lines[n + 1].size
    <3>1. e[n + 1] = e[n] + z
      BY <1>1, <2>1
    <3>2. e[n] \in Nat /\ z \in Nat
      BY <1>1, <2>1, <2>2
    <3> HIDE DEF z
    <3>3. QED
      BY <3>1, <3>2
  <2>4. ASSUME NEW k \in 0 .. n + 1
        PROVE  e[k] <= e[n + 1]
    <3>1. CASE k = n + 1
      BY <2>3, <3>1
    <3>2. CASE k # n + 1
      <4>1. k \in 0 .. n /\ k \in 0 .. N
        BY <1>1, <3>2
      <4>2. e[k] <= e[n] /\ e[k] \in Nat
        BY <1>1, <1>3, <4>1
      <4>3. QED
        BY <2>3, <4>2
    <3>3. QED
      BY <3>1, <3>2
  <2>5. QED
    BY <2>1, <2>4
<1>4. 0 .. N \subseteq T
  <2> HIDE DEF T
  <2>1. QED
    BY <1>1, <1>2, <1>3, Induct
<1>5. i \in 0 .. N /\ j \in 0 .. N /\ N \in 0 .. N /\ i \in 0 .. j
  <2>1. i \in 0 .. N /\ j \in 0 .. N
    BY DEF N
  <2>2. QED
    BY <1>1, <2>1
<1>6. e[i] <= e[j] /\ e[j] <= e[N]
  <2>1. j \in T /\ N \in T
    BY <1>4, <1>5
  <2>2. QED
    BY <1>5, <2>1
<1>7. QED
  BY <1>1, <1>6 DEF e

-----------------------------------------------------------------------------
(* Usage                                                                   *)

\* What the tail buffer holds of a response, and what is read from it.
Whole(lines, cap, i) == End(lines)[i - 1] >= cap - CaptureMax /\ End(lines)[i] - 1 <= cap

Parsed(lines, cap) ==
  LET f[i \in 0 .. Len(lines)] ==
        IF i = 0 THEN Nothing
        ELSE IF Whole(lines, cap, i) THEN Scan(f[i - 1], lines[i])
        ELSE f[i - 1]
  IN f

Outs == [model : Seq(STRING), in : Nat, out : Nat, cached : Nat]

LEMMA ScanType ==
  /\ Nothing \in Outs
  /\ \A out \in Outs, line \in Documents : Scan(out, line) \in Outs
<1>1. Nothing \in Outs
  BY DEF Nothing, Outs
<1>2. ASSUME NEW out \in Outs, NEW line \in Documents
      PROVE  Scan(out, line) \in Outs
  <2>1. /\ out.model \in Seq(STRING) /\ out.in \in Nat /\ out.out \in Nat /\ out.cached \in Nat
        /\ line.model \in Seq(STRING) /\ line.usage.in \in Nat /\ line.usage.out \in Nat
        /\ line.usage.cached # None => line.usage.cached \in Nat
    BY DEF Outs, Documents
  <2>2. QED
    BY <2>1 DEF Scan, Outs
<1>3. QED
  BY <1>1, <1>2

\* ParseSSEUsage, line by line.
LEMMA Parsing ==
  ASSUME NEW r \in Responses, NEW cap \in Nat
  PROVE  LET f == Parsed(r.lines, cap)
             N == Len(r.lines)
         IN  /\ f \in [0 .. N -> Outs] /\ f[0] = Nothing
             /\ \A i \in 1 .. N :
                  f[i] = IF Whole(r.lines, cap, i) THEN Scan(f[i - 1], r.lines[i])
                         ELSE f[i - 1]
<1> DEFINE lines == r.lines
           N == Len(lines)
           Step(i, x) == IF Whole(lines, cap, i) THEN Scan(x, lines[i]) ELSE x
           step == [i \in 1 .. N |-> [x \in Outs |-> Step(i, x)]]
<1>1. N \in Nat /\ \A i \in 1 .. N : lines[i] \in Documents
  BY Ends
<1>2. \A i \in 1 .. N, x \in Outs : Step(i, x) \in Outs
  BY <1>1, ScanType
<1>3. Nothing \in Outs
  BY ScanType
<1> DEFINE F(f) == [i \in 0 .. N |-> IF i = 0 THEN Nothing ELSE Step(i, f[i - 1])]
<1>4. Parsed(lines, cap) = CHOOSE f : f = F(f)
  BY DEF Parsed
<1> HIDE DEF lines, N, Step
<1>5. step \in Steps(N, Outs)
  BY <1>2 DEF Steps
<1>6. \A i \in 1 .. N, x \in Outs : step[i][x] = Step(i, x)
  OBVIOUS
<1> HIDE DEF step
<1>7. PICK g \in [0 .. N -> Outs] :
        g[0] = Nothing /\ \A i \in 1 .. N : g[i] = step[i][g[i - 1]]
  <2>1. Chains(N, Outs, Nothing, step) # {}
    BY <1>1, <1>3, <1>5, Recursion
  <2>2. QED
    BY <2>1 DEF Chains
<1>8. g = F(g)
  <2>1. ASSUME NEW i \in 0 .. N
        PROVE  g[i] = IF i = 0 THEN Nothing ELSE Step(i, g[i - 1])
    <3>1. CASE i = 0
      BY <1>7, <3>1
    <3>2. CASE i # 0
      <4>1. i \in 1 .. N /\ i - 1 \in 0 .. N
        BY <1>1, <3>2
      <4>2. g[i - 1] \in Outs
        BY <4>1
      <4>3. QED
        BY <1>6, <1>7, <3>2, <4>1, <4>2
    <3>3. QED
      BY <3>1, <3>2
  <2>2. QED
    BY <2>1
<1> DEFINE p == Parsed(lines, cap)
           T == {n \in 0 .. N : p[n] \in Outs}
<1>9. p = F(p)
  <2> HIDE DEF F
  <2>1. QED
    BY <1>4, <1>8
<1> HIDE DEF p
<1>10. p[0] = Nothing /\ \A i \in 1 .. N : p[i] = Step(i, p[i - 1])
  <2>1. \A i \in 0 .. N : p[i] = IF i = 0 THEN Nothing ELSE Step(i, p[i - 1])
    BY <1>9
  <2>2. QED
    BY <1>1, <2>1
<1>11. 0 .. N \subseteq T
  <2>1. 0 \in T
    BY <1>1, <1>3, <1>10
  <2>2. ASSUME NEW n \in 0 .. N - 1, n \in T
        PROVE  n + 1 \in T
    <3>1. n + 1 \in 1 .. N /\ n + 1 - 1 = n /\ n + 1 \in 0 .. N
      BY <1>1
    <3>2. p[n + 1] = Step(n + 1, p[n])
      BY <1>10, <3>1
    <3>3. QED
      BY <1>2, <2>2, <3>1, <3>2
  <2> HIDE DEF T
  <2>3. QED
    BY <1>1, <2>1, <2>2, Induct
<1>12. p \in [0 .. N -> Outs]
  BY <1>9, <1>11
<1>13. QED
  BY <1>10, <1>12 DEF p, N, lines, Step

\* extractUsage, for a response, whether a stream was asked for, and a buffer.
Extract(r, isStream, cap) ==
  IF isStream => r.format = "sse" THEN Parsed(r.lines, cap)[Len(r.lines)] ELSE Nothing

LEMMA Extraction ==
  ASSUME resp \in Responses, request.isStream \in BOOLEAN, captured \in Nat
  PROVE  extractUsage = Extract(resp, request.isStream, captured)
<1>1. ParseSSEUsage = Parsed(resp.lines, captured)[Len(resp.lines)]
  BY DEF ParseSSEUsage, Parsed, InTail, Whole
<1>2. resp.format \in {"sse", "json"}
  BY BillingAssumption
<1>3. CASE resp.format = "sse"
  BY <1>1, <1>3 DEF extractUsage, Extract
<1>4. CASE resp.format = "json"
  <2>1. Len(resp.lines) = 1
    BY <1>4, BillingAssumption
  <2>2. Parsed(resp.lines, captured)[1] = ParseJSONUsage
    <3> DEFINE f == Parsed(resp.lines, captured)
    <3>1. /\ f[0] = Nothing
          /\ f[1] = IF Whole(resp.lines, captured, 1) THEN Scan(f[1 - 1], resp.lines[1])
                    ELSE f[1 - 1]
      BY <2>1, Parsing
    <3>2. Whole(resp.lines, captured, 1) <=> InTail(1)
      BY DEF Whole, InTail
    <3> HIDE DEF f
    <3>3. QED
      BY <3>1, <3>2 DEF ParseJSONUsage, f
  <2>3. QED
    BY <1>4, <2>1, <2>2 DEF extractUsage, Extract
<1>5. QED
  BY <1>2, <1>3, <1>4

LEMMA ExtractType ==
  ASSUME NEW r \in Responses, NEW isStream, NEW cap \in Nat
  PROVE  Extract(r, isStream, cap) \in Outs
<1>1. Len(r.lines) \in Nat /\ Parsed(r.lines, cap) \in [0 .. Len(r.lines) -> Outs]
  BY Ends, Parsing
<1>2. QED
  BY <1>1, ScanType DEF Extract

\* What ServeHTTP records.
BillOf(r, q, cap) ==
  LET u == Extract(r, q.isStream, cap)
      model == IF u.model # << >> THEN u.model ELSE q.model
  IN  [model |-> model, in |-> u.in, out |-> u.out, cached |-> u.cached,
       cost |-> Cost(model, u.in, u.out, u.cached)]

-----------------------------------------------------------------------------
(* The invariant                                                           *)

\* net/http has taken what the buffer has and perhaps more; after a regular
\* end the buffer has seen the whole response.
FlowInv ==
  /\ resp \in Responses /\ request \in [model : Models, isStream : BOOLEAN]
  /\ read \in 0 .. Size(resp) /\ written \in 0 .. read /\ captured \in 0 .. written
  /\ pc \in {"copy", "capture", "extract", "done"} /\ ended \in BOOLEAN
  /\ pc = "copy" => captured = read
  /\ pc \in {"copy", "capture"} => written = read /\ ended = FALSE
  /\ pc \in {"extract", "done"} /\ ended = TRUE => captured = Size(resp)

BillInv == bill = IF pc = "done" THEN BillOf(resp, request, captured) ELSE Unbilled

IInv == FlowInv /\ BillInv

LEMMA InitIInv == Init => IInv
<1> SUFFICES ASSUME Init
             PROVE  IInv
  OBVIOUS
<1>1. Size(resp) \in Nat
  BY Ends DEF Init
<1>2. FlowInv
  <2>1. read \in 0 .. Size(resp) /\ written \in 0 .. read /\ captured \in 0 .. written
    BY <1>1 DEF Init
  <2>2. QED
    BY <2>1 DEF Init, FlowInv
<1>3. BillInv
  BY DEF Init, BillInv
<1>4. QED
  BY <1>2, <1>3 DEF IInv

LEMMA NextIInv == IInv /\ [Next]_vars => IInv'
<1> SUFFICES ASSUME IInv, [Next]_vars
             PROVE  IInv'
  OBVIOUS
<1>1. Size(resp) \in Nat
  BY Ends DEF IInv, FlowInv
<1>2. CASE Copy
  <2>1. PICK n \in read + 1 .. Size(resp) : read' = n /\ written' = n
    BY <1>2 DEF Copy
  <2>2. /\ pc = "copy" /\ pc' = "capture"
        /\ UNCHANGED <<resp, request, captured, ended, bill>>
    BY <1>2 DEF Copy
  <2>3. FlowInv'
    BY <1>1, <2>1, <2>2 DEF IInv, FlowInv
  <2>4. BillInv'
    BY <2>2 DEF IInv, BillInv
  <2>5. QED
    BY <2>3, <2>4 DEF IInv
<1>3. CASE WriteFails
  <2>1. PICK n \in read + 1 .. Size(resp) : read' = n /\ written' \in read .. n - 1
    BY <1>3 DEF WriteFails
  <2>2. /\ pc = "copy" /\ pc' = "extract"
        /\ UNCHANGED <<resp, request, captured, ended, bill>>
    BY <1>3 DEF WriteFails
  <2>3. ended = FALSE
    BY <2>2 DEF IInv, FlowInv
  <2>4. FlowInv'
    BY <1>1, <2>1, <2>2, <2>3 DEF IInv, FlowInv
  <2>5. BillInv'
    BY <2>2 DEF IInv, BillInv
  <2>6. QED
    BY <2>4, <2>5 DEF IInv
<1>4. CASE Capture
  BY <1>1, <1>4 DEF Capture, IInv, FlowInv, BillInv
<1>5. CASE Stop
  <2>1. /\ pc = "copy" /\ pc' = "extract" /\ ended' = (read = Size(resp))
        /\ UNCHANGED <<resp, request, read, written, captured, bill>>
    BY <1>5 DEF Stop
  <2>2. FlowInv'
    <3>1. /\ read \in Nat /\ written = read /\ captured = read /\ read <= Size(resp)
          /\ ended' \in BOOLEAN
      BY <1>1, <2>1 DEF IInv, FlowInv
    <3>2. ended' = TRUE => captured = Size(resp)
      BY <2>1, <3>1
    <3>3. QED
      BY <2>1, <3>1, <3>2 DEF IInv, FlowInv
  <2>3. BillInv'
    BY <2>1 DEF IInv, BillInv
  <2>4. QED
    BY <2>2, <2>3 DEF IInv
<1>6. CASE Bill
  <2>1. /\ pc = "extract" /\ pc' = "done"
        /\ UNCHANGED <<resp, request, read, written, captured, ended>>
    BY <1>6 DEF Bill
  <2>2. FlowInv'
    BY <2>1 DEF IInv, FlowInv
  <2>3. extractUsage = Extract(resp, request.isStream, captured)
    <3>1. resp \in Responses /\ request.isStream \in BOOLEAN /\ captured \in Nat
      BY <1>1 DEF IInv, FlowInv
    <3>2. QED
      BY <3>1, Extraction
  <2>4. bill' = BillOf(resp, request, captured)
    BY <1>6, <2>3 DEF Bill, BillOf
  <2>5. QED
    BY <2>1, <2>2, <2>4 DEF IInv, BillInv
<1>7. CASE Done \/ UNCHANGED vars
  BY <1>7 DEF Done, vars, IInv, FlowInv, BillInv
<1>8. QED
  BY <1>2, <1>3, <1>4, <1>5, <1>6, <1>7 DEF Next

(***************************************************************************)
(* The inductive invariant: how far the client, the buffer and io.Copy are *)
(* and, at the end, what is billed.                                        *)
(***************************************************************************)
THEOREM Invariance == Spec => []IInv
  BY InitIInv, NextIInv, PTL DEF Spec

-----------------------------------------------------------------------------
(* Prices                                                                  *)

Prefix(model, n) == SubSeq(model, 1, n)

LEMMA PrefixLength ==
  ASSUME NEW model \in Seq(STRING), NEW n \in 1 .. Len(model)
  PROVE  Len(Prefix(model, n)) = n /\ Prefix(model, n) # << >>
<1>1. Len(Prefix(model, n)) = n
  BY DEF Prefix
<1>2. QED
  BY <1>1

\* lookup finds the longest prefix that is listed.
LEMMA Lookup ==
  ASSUME NEW model \in Seq(STRING)
  PROVE  \/ /\ lookup(model) = << >>
            /\ \A k \in 1 .. Len(model) : Prefix(model, k) \notin DOMAIN Prices
         \/ \E m \in 1 .. Len(model) :
              /\ lookup(model) = Prefix(model, m) /\ Prefix(model, m) \in DOMAIN Prices
              /\ \A k \in 1 .. Len(model) : k > m => Prefix(model, k) \notin DOMAIN Prices
<1> DEFINE N == Len(model)
           D == DOMAIN Prices
           A == {<< >>} \cup {Prefix(model, k) : k \in 1 .. N}
           Step(i, x) == IF Prefix(model, i) \in D THEN Prefix(model, i) ELSE x
           step == [i \in 1 .. N |-> [x \in A |-> Step(i, x)]]
           F(f) == [i \in 0 .. N |-> IF i = 0 THEN << >> ELSE Step(i, f[i - 1])]
           p == CHOOSE f : f = F(f)
<1>1. N \in Nat
  OBVIOUS
<1>2. lookup(model) = p[N]
  BY DEF lookup, Prefix
<1> HIDE DEF N, D
<1>3. << >> \in A /\ \A i \in 1 .. N, x \in A : Step(i, x) \in A
  OBVIOUS
<1> HIDE DEF A
<1>4. step \in Steps(N, A)
  <2> HIDE DEF Step
  <2>1. QED
    BY <1>3 DEF Steps
<1>5. \A i \in 1 .. N, x \in A : step[i][x] = Step(i, x)
  <2> HIDE DEF Step
  <2>1. QED
    OBVIOUS
<1> HIDE DEF step
<1>6. PICK g \in [0 .. N -> A] :
        g[0] = << >> /\ \A i \in 1 .. N : g[i] = step[i][g[i - 1]]
  <2>1. Chains(N, A, << >>, step) # {}
    BY <1>1, <1>3, <1>4, Recursion
  <2>2. QED
    BY <2>1 DEF Chains
<1>7. g = F(g)
  <2> HIDE DEF Step
  <2>1. ASSUME NEW i \in 0 .. N
        PROVE  g[i] = IF i = 0 THEN << >> ELSE Step(i, g[i - 1])
    <3>1. CASE i = 0
      BY <1>6, <3>1
    <3>2. CASE i # 0
      <4>1. i \in 1 .. N /\ i - 1 \in 0 .. N
        BY <1>1, <3>2
      <4>2. g[i - 1] \in A
        BY <4>1
      <4>3. QED
        BY <1>5, <1>6, <3>2, <4>1, <4>2
    <3>3. QED
      BY <3>1, <3>2
  <2>2. QED
    BY <2>1
<1>8. p = F(p)
  <2> HIDE DEF F
  <2>1. QED
    BY <1>7
<1> HIDE DEF p
<1>9. p[0] = << >> /\ \A i \in 1 .. N : p[i] = Step(i, p[i - 1])
  <2> HIDE DEF Step
  <2>1. \A i \in 0 .. N : p[i] = IF i = 0 THEN << >> ELSE Step(i, p[i - 1])
    BY <1>8
  <2>2. QED
    BY <1>1, <2>1
<1> DEFINE Unlisted(n) == p[n] = << >> /\ \A k \in 1 .. n : Prefix(model, k) \notin D
           Found(n, m) == /\ p[n] = Prefix(model, m) /\ Prefix(model, m) \in D
                         /\ \A k \in 1 .. n : k > m => Prefix(model, k) \notin D
           T == {n \in 0 .. N : Unlisted(n) \/ \E m \in 1 .. n : Found(n, m)}
<1>10. 0 \in T
  BY <1>1, <1>9
<1>11. ASSUME NEW n \in 0 .. N - 1, n \in T
       PROVE  n + 1 \in T
  <2>1. n + 1 \in 1 .. N /\ n + 1 - 1 = n /\ n + 1 \in 0 .. N /\ n \in Nat
    BY <1>1
  <2>2. p[n + 1] = Step(n + 1, p[n])
    <3> HIDE DEF Step
    <3>1. QED
      BY <1>9, <2>1
  <2>3. CASE Prefix(model, n + 1) \in D
    <3>1. Found(n + 1, n + 1)
      BY <2>1, <2>2, <2>3
    <3>2. n + 1 \in 1 .. n + 1
      BY <2>1
    <3>3. QED
      BY <2>1, <3>1, <3>2
  <2>4. CASE Prefix(model, n + 1) \notin D
    <3>1. p[n + 1] = p[n]
      BY <2>2, <2>4
    <3>2. \A k \in 1 .. n + 1 : k \in 1 .. n \/ k = n + 1
      BY <2>1
    <3>3. Unlisted(n) => Unlisted(n + 1)
      BY <2>4, <3>1, <3>2
    <3>4. ASSUME NEW m \in 1 .. n, Found(n, m)
          PROVE  Found(n + 1, m) /\ m \in 1 .. n + 1
      BY <2>1, <2>4, <3>1, <3>2, <3>4
    <3>5. QED
      BY <1>11, <2>1, <3>3, <3>4
  <2>5. QED
    BY <2>3, <2>4
<1>12. 0 .. N \subseteq T
  <2> HIDE DEF T
  <2>1. QED
    BY <1>1, <1>10, <1>11, Induct
<1>13. Unlisted(N) \/ \E m \in 1 .. N : Found(N, m)
  BY <1>1, <1>12
<1>14. QED
  BY <1>2, <1>13 DEF N, D

LEMMA Times ==
  ASSUME NEW a \in Nat, NEW b \in Nat
  PROVE  a * b \in Nat /\ (a + 1) * b = a * b + b /\ 0 * b = 0
<1>1. a * b \in Nat
  BY Z3
<1>2. (a + 1) * b = a * b + b
  BY Z3
<1>3. 0 * b = 0
  BY Z3
<1>4. QED
  BY <1>1, <1>2, <1>3

PriceRows == [Input : Nat, Cached : Nat, Output : Nat]
CachedRate(mp) == IF mp.Cached = 0 THEN mp.Input ELSE mp.Cached
Clamped(in, cached) == IF in - cached < 0 THEN in ELSE cached
InputCost(mp, in, cached) ==
  (in - Clamped(in, cached)) * mp.Input + Clamped(in, cached) * CachedRate(mp)

LEMMA InputCostType ==
  ASSUME NEW mp \in PriceRows, NEW in \in Nat, NEW cached \in Nat
  PROVE  InputCost(mp, in, cached) \in Nat
<1>1. mp.Input \in Nat /\ CachedRate(mp) \in Nat
  BY DEF PriceRows, CachedRate
<1>2. Clamped(in, cached) \in Nat /\ in - Clamped(in, cached) \in Nat
  BY DEF Clamped
<1>3. /\ (in - Clamped(in, cached)) * mp.Input \in Nat
      /\ Clamped(in, cached) * CachedRate(mp) \in Nat
  BY <1>1, <1>2, Times
<1>4. QED
  BY <1>3 DEF InputCost

\* Token by token.
TokenCosts(mp, in, cached) ==
  LET f[i \in 0 .. in] == IF i = 0 THEN 0 ELSE f[i - 1] + TokenRate(mp, i, cached) IN f

\* One token more.
LEMMA OneToken ==
  ASSUME NEW mp \in PriceRows, NEW n \in Nat, NEW cached \in Nat
  PROVE  InputCost(mp, n + 1, cached) = InputCost(mp, n, cached) + TokenRate(mp, n + 1, cached)
<1> DEFINE inp == mp.Input
           rate == CachedRate(mp)
<1>1. inp \in Nat /\ rate \in Nat
  BY DEF PriceRows, CachedRate
<1>2. CASE n + 1 <= cached
  <2>1. Clamped(n, cached) = n /\ Clamped(n + 1, cached) = n + 1
    BY <1>2 DEF Clamped
  <2>2. TokenRate(mp, n + 1, cached) = rate
    BY <1>2 DEF TokenRate, CachedRate
  <2> HIDE DEF inp, rate
  <2>3. (n + 1) * rate = n * rate + rate /\ n * rate \in Nat /\ 0 * inp = 0
    BY <1>1, Times
  <2>4. n - n = 0 /\ (n + 1) - (n + 1) = 0
    OBVIOUS
  <2>5. /\ InputCost(mp, n + 1, cached) = 0 * inp + (n + 1) * rate
        /\ InputCost(mp, n, cached) = 0 * inp + n * rate
    BY <2>1, <2>4 DEF InputCost, inp, rate
  <2>6. QED
    BY <1>1, <2>2, <2>3, <2>5
<1>3. CASE ~(n + 1 <= cached)
  <2>1. Clamped(n, cached) = cached /\ Clamped(n + 1, cached) = cached
    BY <1>3 DEF Clamped
  <2>2. TokenRate(mp, n + 1, cached) = inp
    BY <1>3 DEF TokenRate
  <2> DEFINE k == n - cached
  <2>3. k \in Nat /\ (n + 1) - cached = k + 1
    BY <1>3
  <2>4. /\ InputCost(mp, n + 1, cached) = (k + 1) * inp + cached * rate
        /\ InputCost(mp, n, cached) = k * inp + cached * rate
    BY <2>1, <2>3 DEF InputCost
  <2> HIDE DEF inp, rate, k
  <2>5. (k + 1) * inp = k * inp + inp /\ k * inp \in Nat
    BY <1>1, <2>3, Times
  <2>6. cached * rate \in Nat
    BY <1>1, Times
  <2>7. QED
    BY <1>1, <2>2, <2>4, <2>5, <2>6
<1>4. QED
  BY <1>2, <1>3

LEMMA TokenSum ==
  ASSUME NEW mp \in PriceRows, NEW in \in Nat, NEW cached \in Nat
  PROVE  TokenCosts(mp, in, cached)[in] = InputCost(mp, in, cached)
<1> DEFINE Rate(i) == TokenRate(mp, i, cached)
           step == [i \in 1 .. in |-> [x \in Nat |-> x + Rate(i)]]
           F(f) == [i \in 0 .. in |-> IF i = 0 THEN 0 ELSE f[i - 1] + Rate(i)]
           p == TokenCosts(mp, in, cached)
<1>1. p = CHOOSE f : f = F(f)
  BY DEF TokenCosts
<1>2. \A i \in Nat : Rate(i) \in Nat
  BY DEF TokenRate, PriceRows
<1> HIDE DEF Rate
<1>3. step \in Steps(in, Nat)
  BY <1>2 DEF Steps
<1>4. \A i \in 1 .. in, x \in Nat : step[i][x] = x + Rate(i)
  OBVIOUS
<1> HIDE DEF step
<1>5. PICK g \in [0 .. in -> Nat] : g[0] = 0 /\ \A i \in 1 .. in : g[i] = step[i][g[i - 1]]
  <2>1. 0 \in Nat
    OBVIOUS
  <2>2. Chains(in, Nat, 0, step) # {}
    BY <1>3, <2>1, Recursion
  <2>3. QED
    BY <2>2 DEF Chains
<1>6. g = F(g)
  <2>1. ASSUME NEW i \in 0 .. in
        PROVE  g[i] = IF i = 0 THEN 0 ELSE g[i - 1] + Rate(i)
    <3>1. CASE i = 0
      BY <1>5, <3>1
    <3>2. CASE i # 0
      <4>1. i \in 1 .. in /\ i - 1 \in 0 .. in
        BY <3>2
      <4>2. g[i - 1] \in Nat
        BY <4>1
      <4>3. QED
        BY <1>4, <1>5, <3>2, <4>1, <4>2
    <3>3. QED
      BY <3>1, <3>2
  <2>2. QED
    BY <2>1
<1> HIDE DEF p
<1>7. p = F(p)
  <2> HIDE DEF F
  <2>1. QED
    BY <1>1, <1>6
<1>8. p[0] = 0 /\ \A i \in 1 .. in : p[i] = p[i - 1] + Rate(i)
  <2>1. \A i \in 0 .. in : p[i] = IF i = 0 THEN 0 ELSE p[i - 1] + Rate(i)
    BY <1>7
  <2>2. QED
    BY <2>1
<1> DEFINE T == {n \in 0 .. in : p[n] = InputCost(mp, n, cached)}
<1>9. 0 \in T
  <2>1. Clamped(0, cached) = 0
    BY DEF Clamped
  <2>2. mp.Input \in Nat /\ CachedRate(mp) \in Nat /\ 0 - 0 = 0
    BY DEF PriceRows, CachedRate
  <2>3. 0 * mp.Input = 0 /\ 0 * CachedRate(mp) = 0
    BY <2>2, Times
  <2>4. InputCost(mp, 0, cached) = 0
    BY <2>1, <2>2, <2>3 DEF InputCost
  <2>5. QED
    BY <1>8, <2>4
<1>10. ASSUME NEW n \in 0 .. in - 1, n \in T
       PROVE  n + 1 \in T
  <2>1. n + 1 \in 1 .. in /\ n + 1 - 1 = n /\ n + 1 \in 0 .. in /\ n \in Nat
    OBVIOUS
  <2>2. p[n + 1] = p[n] + Rate(n + 1)
    BY <1>8, <2>1
  <2>3. InputCost(mp, n + 1, cached) = InputCost(mp, n, cached) + Rate(n + 1)
    BY <2>1, OneToken DEF Rate
  <2>4. QED
    BY <1>10, <2>1, <2>2, <2>3
<1>11. 0 .. in \subseteq T
  <2> HIDE DEF T
  <2>1. QED
    BY <1>9, <1>10, Induct
<1>12. in \in T
  BY <1>11
<1>13. QED
  BY <1>12 DEF p

\* Cost is the price of every token at the rates of the longest listed name.
LEMMA CostIsCharge ==
  ASSUME NEW model \in Seq(STRING), NEW in \in Nat, NEW out \in Nat, NEW cached \in Nat
  PROVE  /\ Cost(model, in, out, cached) = Charge(model, in, out, cached)
         /\ Cost(model, in, out, cached) \in Nat
<1>1. CASE /\ lookup(model) = << >>
           /\ \A k \in 1 .. Len(model) : Prefix(model, k) \notin DOMAIN Prices
  <2>1. Listed(model) = {}
    BY <1>1 DEF Listed, Prefix
  <2>2. QED
    BY <1>1, <2>1 DEF Cost, Charge
<1>2. ASSUME NEW m \in 1 .. Len(model), lookup(model) = Prefix(model, m),
             Prefix(model, m) \in DOMAIN Prices,
             \A k \in 1 .. Len(model) : k > m => Prefix(model, k) \notin DOMAIN Prices
      PROVE  /\ Cost(model, in, out, cached) = Charge(model, in, out, cached)
             /\ Cost(model, in, out, cached) \in Nat
  <2> DEFINE name == Prefix(model, m)
             mp == Prices[name]
  <2>1. Len(name) = m /\ name # << >> /\ Len(model) \in Nat /\ m \in Nat
    BY PrefixLength
  <2>2. mp \in PriceRows
    BY <1>2, BillingAssumption DEF PriceRows
  <2>3. name \in Listed(model)
    BY <1>2, <2>1 DEF Listed, Prefix
  <2>4. ASSUME NEW other \in Listed(model)
        PROVE  /\ Len(other) \in 1 .. Len(model) /\ other = Prefix(model, Len(other))
               /\ Len(other) <= m
    <3>1. /\ Len(other) \in 1 .. Len(model) /\ other = Prefix(model, Len(other))
          /\ other \in DOMAIN Prices
      BY <2>4 DEF Listed, Prefix
    <3>2. ~(Len(other) > m)
      BY <1>2, <3>1
    <3>3. QED
      BY <2>1, <3>1, <3>2
  <2> DEFINE Longest(x) == \A other \in Listed(model) : Len(other) <= Len(x)
  <2>5. Longest(name)
    BY <2>1, <2>4
  <2>6. ASSUME NEW x \in Listed(model), Longest(x)
        PROVE  x = name
    <3>1. m <= Len(x) /\ Len(x) <= m /\ x = Prefix(model, Len(x)) /\ Len(x) \in Nat
      BY <2>1, <2>3, <2>4, <2>6
    <3>2. Len(x) = m
      BY <2>1, <3>1
    <3>3. QED
      BY <3>1, <3>2
  <2> HIDE DEF name, Longest
  <2>7. (CHOOSE x \in Listed(model) : Longest(x)) = name
    BY <2>3, <2>5, <2>6
  <2>8. Price(model) = mp
    BY <2>7 DEF Price, Longest
  <2> HIDE DEF mp
  <2>9. Cost(model, in, out, cached) = InputCost(mp, in, cached) + out * mp.Output
    BY <1>2, <2>1 DEF Cost, InputCost, Clamped, CachedRate, name, mp
  <2>10. Charge(model, in, out, cached) = TokenCosts(mp, in, cached)[in] + out * mp.Output
    BY <2>3, <2>8 DEF Charge, TokenCosts
  <2>11. mp.Output \in Nat
    BY <2>2 DEF PriceRows
  <2>12. out * mp.Output \in Nat /\ InputCost(mp, in, cached) \in Nat
    BY <2>2, <2>11, Times, InputCostType
  <2>13. QED
    BY <2>2, <2>9, <2>10, <2>12, TokenSum
<1>3. QED
  BY <1>1, <1>2, Lookup

-----------------------------------------------------------------------------
(* The last line wins                                                      *)

LEMMA MaximumIs ==
  ASSUME NEW S, S \subseteq Nat, NEW x \in S, \A y \in S : y <= x
  PROVE  Maximum(S) = x
<1> DEFINE Top(z) == \A y \in S : y <= z
<1>1. ASSUME NEW z \in S, Top(z)
      PROVE  z = x
  <2>1. z <= x /\ x <= z /\ z \in Nat /\ x \in Nat
    BY <1>1
  <2>2. QED
    BY <2>1
<1>2. Top(x)
  OBVIOUS
<1> HIDE DEF Top
<1>3. (CHOOSE z \in S : Top(z)) = x
  BY <1>1, <1>2
<1>4. QED
  BY <1>3 DEF Maximum, Top

\* The values of a field that the lines in S set and the others leave alone.
Field(N, S, a, v, h) ==
  h[0] = a /\ \A i \in 1 .. N : h[i] = IF i \in S THEN v[i] ELSE h[i - 1]

LEMMA LastWins ==
  ASSUME NEW N \in Nat, NEW S \in SUBSET (1 .. N), NEW a, NEW v, NEW h, Field(N, S, a, v, h)
  PROVE  /\ S = {} => h[N] = a
         /\ S # {} => Maximum(S) \in S /\ h[N] = v[Maximum(S)]
<1>0. h[0] = a /\ \A i \in 1 .. N : h[i] = IF i \in S THEN v[i] ELSE h[i - 1]
  BY DEF Field
<1> DEFINE Unset(n) == h[n] = a /\ \A k \in 1 .. n : k \notin S
           Set(n, m) == m \in S /\ h[n] = v[m] /\ \A k \in 1 .. n : k > m => k \notin S
           T == {n \in 0 .. N : Unset(n) \/ \E m \in 1 .. n : Set(n, m)}
<1>1. 0 \in T
  BY <1>0
<1>2. ASSUME NEW n \in 0 .. N - 1, n \in T
      PROVE  n + 1 \in T
  <2>1. n + 1 \in 1 .. N /\ n + 1 - 1 = n /\ n + 1 \in 0 .. N /\ n \in Nat
    OBVIOUS
  <2>2. h[n + 1] = IF n + 1 \in S THEN v[n + 1] ELSE h[n]
    BY <1>0, <2>1
  <2>3. CASE n + 1 \in S
    <3>1. Set(n + 1, n + 1)
      BY <2>1, <2>2, <2>3
    <3>2. n + 1 \in 1 .. n + 1
      BY <2>1
    <3>3. QED
      BY <2>1, <3>1, <3>2
  <2>4. CASE n + 1 \notin S
    <3>1. h[n + 1] = h[n]
      BY <2>2, <2>4
    <3>2. \A k \in 1 .. n + 1 : k \in 1 .. n \/ k = n + 1
      BY <2>1
    <3>3. Unset(n) => Unset(n + 1)
      BY <2>4, <3>1, <3>2
    <3>4. ASSUME NEW m \in 1 .. n, Set(n, m)
          PROVE  Set(n + 1, m) /\ m \in 1 .. n + 1
      BY <2>1, <2>4, <3>1, <3>2, <3>4
    <3>5. QED
      BY <1>2, <2>1, <3>3, <3>4
  <2>5. QED
    BY <2>3, <2>4
<1>3. 0 .. N \subseteq T
  <2> HIDE DEF T
  <2>1. QED
    BY <1>1, <1>2, Induct
<1>4. Unset(N) \/ \E m \in 1 .. N : Set(N, m)
  BY <1>3
<1>5. CASE Unset(N)
  BY <1>5
<1>6. ASSUME NEW m \in 1 .. N, Set(N, m)
      PROVE  m \in S /\ h[N] = v[m] /\ Maximum(S) = m
  <2>1. \A k \in S : k \in Nat /\ m \in Nat /\ ~(k > m)
    BY <1>6
  <2>2. S \subseteq Nat /\ m \in S /\ \A k \in S : k <= m
    BY <1>6, <2>1
  <2>3. Maximum(S) = m
    BY <2>2, MaximumIs
  <2>4. QED
    BY <1>6, <2>3
<1>7. QED
  BY <1>4, <1>5, <1>6

\* The lines of the buffer that count.
UsageIn(lines, cap) == {i \in 1 .. Len(lines) : Whole(lines, cap, i) /\ lines[i].hasUsage = TRUE}
DetailsIn(lines, cap) == {i \in UsageIn(lines, cap) : lines[i].usage.cached # None}
NamedIn(lines, cap) == {i \in 1 .. Len(lines) : Whole(lines, cap, i) /\ lines[i].model # << >>}

LEMMA ParsedFields ==
  ASSUME NEW r \in Responses, NEW cap \in Nat
  PROVE  LET lines == r.lines
             u == Parsed(lines, cap)[Len(lines)]
             U == UsageIn(lines, cap)
             D == DetailsIn(lines, cap)
             M == NamedIn(lines, cap)
         IN  /\ U = {} => u.in = 0 /\ u.out = 0
             /\ U # {} => /\ Maximum(U) \in U
                          /\ u.in = lines[Maximum(U)].usage.in
                          /\ u.out = lines[Maximum(U)].usage.out
             /\ u.cached = IF D = {} THEN 0 ELSE lines[Maximum(D)].usage.cached
             /\ u.model = IF M = {} THEN << >> ELSE lines[Maximum(M)].model
<1> DEFINE lines == r.lines
           N == Len(lines)
           f == Parsed(lines, cap)
           U == UsageIn(lines, cap)
           D == DetailsIn(lines, cap)
           M == NamedIn(lines, cap)
<1>1. N \in Nat /\ \A i \in 1 .. N : lines[i] \in Documents
  BY Ends
<1>2. /\ f \in [0 .. N -> Outs] /\ f[0] = Nothing
      /\ \A i \in 1 .. N :
           f[i] = IF Whole(lines, cap, i) THEN Scan(f[i - 1], lines[i]) ELSE f[i - 1]
  BY Parsing
<1>3. U \subseteq 1 .. N /\ D \subseteq 1 .. N /\ M \subseteq 1 .. N
  BY DEF UsageIn, DetailsIn, NamedIn
<1>4. ASSUME NEW i \in 1 .. N
      PROVE  /\ f[i].in = IF i \in U THEN lines[i].usage.in ELSE f[i - 1].in
             /\ f[i].out = IF i \in U THEN lines[i].usage.out ELSE f[i - 1].out
             /\ f[i].cached = IF i \in D THEN lines[i].usage.cached ELSE f[i - 1].cached
             /\ f[i].model = IF i \in M THEN lines[i].model ELSE f[i - 1].model
  <2>1. lines[i].hasUsage \in BOOLEAN
    BY <1>1 DEF Documents
  <2>2. CASE ~Whole(lines, cap, i)
    <3>1. i \notin U /\ i \notin D /\ i \notin M
      BY <2>2 DEF UsageIn, DetailsIn, NamedIn
    <3>2. f[i] = f[i - 1]
      BY <1>2, <2>2
    <3>3. QED
      BY <3>1, <3>2
  <2>3. CASE Whole(lines, cap, i)
    <3>1. f[i] = Scan(f[i - 1], lines[i])
      BY <1>2, <2>3
    <3>2. /\ i \in U <=> lines[i].hasUsage
          /\ i \in D <=> lines[i].hasUsage /\ lines[i].usage.cached # None
          /\ i \in M <=> lines[i].model # << >>
      BY <2>1, <2>3 DEF UsageIn, DetailsIn, NamedIn
    <3> HIDE DEF f, U, D, M
    <3>3. QED
      BY <3>1, <3>2 DEF Scan
  <2>4. QED
    BY <2>2, <2>3
<1> HIDE DEF lines, N, f, U, D, M
<1>5. /\ f[0].in = 0 /\ f[0].out = 0 /\ f[0].cached = 0 /\ f[0].model = << >>
  BY <1>2 DEF Nothing
<1>6. ASSUME NEW i \in 1 .. N
      PROVE  i \in 0 .. N /\ i - 1 \in 0 .. N
  BY <1>1
<1>7. /\ U = {} => f[N].in = 0
      /\ U # {} => Maximum(U) \in U /\ f[N].in = lines[Maximum(U)].usage.in
  <2> DEFINE h == [n \in 0 .. N |-> f[n].in]
             v == [i \in 1 .. N |-> lines[i].usage.in]
  <2>1. h[0] = 0 /\ h[N] = f[N].in /\ \A i \in 1 .. N : v[i] = lines[i].usage.in
    BY <1>1, <1>5
  <2>2. Field(N, U, 0, v, h)
    BY <1>4, <1>6, <2>1 DEF Field
  <2> HIDE DEF h, v
  <2>3. (U = {} => h[N] = 0) /\ (U # {} => Maximum(U) \in U /\ h[N] = v[Maximum(U)])
    BY <1>1, <1>3, <2>2, LastWins
  <2>4. QED
    BY <1>3, <2>1, <2>3
<1>8. /\ U = {} => f[N].out = 0
      /\ U # {} => f[N].out = lines[Maximum(U)].usage.out
  <2> DEFINE h == [n \in 0 .. N |-> f[n].out]
             v == [i \in 1 .. N |-> lines[i].usage.out]
  <2>1. h[0] = 0 /\ h[N] = f[N].out /\ \A i \in 1 .. N : v[i] = lines[i].usage.out
    BY <1>1, <1>5
  <2>2. Field(N, U, 0, v, h)
    BY <1>4, <1>6, <2>1 DEF Field
  <2> HIDE DEF h, v
  <2>3. (U = {} => h[N] = 0) /\ (U # {} => Maximum(U) \in U /\ h[N] = v[Maximum(U)])
    BY <1>1, <1>3, <2>2, LastWins
  <2>4. QED
    BY <1>3, <2>1, <2>3
<1>9. f[N].cached = IF D = {} THEN 0 ELSE lines[Maximum(D)].usage.cached
  <2> DEFINE h == [n \in 0 .. N |-> f[n].cached]
             v == [i \in 1 .. N |-> lines[i].usage.cached]
  <2>1. h[0] = 0 /\ h[N] = f[N].cached /\ \A i \in 1 .. N : v[i] = lines[i].usage.cached
    BY <1>1, <1>5
  <2>2. Field(N, D, 0, v, h)
    BY <1>4, <1>6, <2>1 DEF Field
  <2> HIDE DEF h, v
  <2>3. (D = {} => h[N] = 0) /\ (D # {} => Maximum(D) \in D /\ h[N] = v[Maximum(D)])
    BY <1>1, <1>3, <2>2, LastWins
  <2>4. QED
    BY <1>3, <2>1, <2>3
<1>10. f[N].model = IF M = {} THEN << >> ELSE lines[Maximum(M)].model
  <2> DEFINE h == [n \in 0 .. N |-> f[n].model]
             v == [i \in 1 .. N |-> lines[i].model]
             none == << >>
  <2>1. h[0] = none /\ h[N] = f[N].model /\ \A i \in 1 .. N : v[i] = lines[i].model
    BY <1>1, <1>5
  <2>2. Field(N, M, none, v, h)
    BY <1>4, <1>6, <2>1 DEF Field
  <2> HIDE DEF h, v, none
  <2>3. (M = {} => h[N] = none) /\ (M # {} => Maximum(M) \in M /\ h[N] = v[Maximum(M)])
    BY <1>1, <1>3, <2>2, LastWins
  <2>4. QED
    BY <1>3, <2>1, <2>3 DEF none
<1>11. QED
  BY <1>7, <1>8, <1>9, <1>10 DEF f, N, lines, U, D, M

-----------------------------------------------------------------------------
(* The bill                                                                *)

\* What is recorded, when a bill is.
LEMMA Recorded ==
  ASSUME IInv, pc = "done"
  PROVE  LET u == Extract(resp, request.isStream, captured)
             model == IF u.model # << >> THEN u.model ELSE request.model
         IN  /\ u \in Outs /\ model \in Seq(STRING)
             /\ bill.in = u.in /\ bill.out = u.out /\ bill.cached = u.cached
             /\ bill.model = model
             /\ bill.cost = Cost(model, u.in, u.out, u.cached)
             /\ bill.cost = Charge(model, u.in, u.out, u.cached) /\ bill.cost \in Nat
<1> DEFINE u == Extract(resp, request.isStream, captured)
           model == IF u.model # << >> THEN u.model ELSE request.model
<1>1. resp \in Responses /\ captured \in Nat
  BY Ends DEF IInv, FlowInv
<1>2. u \in Outs
  BY <1>1, ExtractType
<1> HIDE DEF u
<1>3. u.model \in Seq(STRING) /\ u.in \in Nat /\ u.out \in Nat /\ u.cached \in Nat
  BY <1>2 DEF Outs
<1>4. model \in Seq(STRING)
  BY <1>3, BillingAssumption DEF IInv, FlowInv
<1>5. bill = [model |-> model, in |-> u.in, out |-> u.out, cached |-> u.cached,
              cost |-> Cost(model, u.in, u.out, u.cached)]
  BY DEF IInv, BillInv, BillOf, u
<1> HIDE DEF model
<1>6. /\ Cost(model, u.in, u.out, u.cached) = Charge(model, u.in, u.out, u.cached)
      /\ Cost(model, u.in, u.out, u.cached) \in Nat
  BY <1>3, <1>4, CostIsCharge
<1>7. QED
  BY <1>2, <1>4, <1>5, <1>6 DEF u, model

(***************************************************************************)
(* The buffer's Write never runs ahead of io.Copy, and no token count and  *)
(* no cost is negative, whatever the upstream reports as cached.           *)
(***************************************************************************)
THEOREM TypeCorrect == Spec => []TypeOK
<1>1. ASSUME IInv
      PROVE  TypeOK
  <2>1. Size(resp) \in Nat
    BY <1>1, Ends DEF IInv, FlowInv
  <2>2. captured \in 0 .. read
    BY <1>1, <2>1 DEF IInv, FlowInv
  <2>3. {bill.in, bill.out, bill.cached, bill.cost} \subseteq Nat
    <3>1. CASE pc = "done"
      <4>1. /\ bill.cost \in Nat
            /\ \E u \in Outs : bill.in = u.in /\ bill.out = u.out /\ bill.cached = u.cached
        BY <1>1, <3>1, Recorded
      <4>2. QED
        BY <4>1 DEF Outs
    <3>2. CASE pc # "done"
      BY <1>1, <3>2 DEF IInv, BillInv, Unbilled
    <3>3. QED
      BY <3>1, <3>2
  <2>4. QED
    BY <1>1, <2>2, <2>3 DEF IInv, FlowInv, TypeOK
<1>2. QED
  BY <1>1, Invariance, PTL

(***************************************************************************)
(* io.MultiWriter writes to the client before the tail buffer and stops at *)
(* the first error: a usage block that extractUsage finds has been taken   *)
(* by net/http in full, and the bill is one block's.                       *)
(***************************************************************************)
THEOREM BilledIsWritten == Spec => []BilledWasWritten
<1>1. ASSUME IInv
      PROVE  BilledWasWritten
  <2> SUFFICES ASSUME pc = "done", bill.in + bill.out > 0
               PROVE  \E i \in UsageLines : /\ End(Lines)[i] - 1 <= written
                                            /\ Lines[i].usage.in = bill.in
                                            /\ Lines[i].usage.out = bill.out
    BY DEF BilledWasWritten
  <2> DEFINE u == Extract(resp, request.isStream, captured)
             U == UsageIn(resp.lines, captured)
             N == Len(resp.lines)
  <2>1. /\ resp \in Responses /\ Size(resp) \in Nat /\ captured \in Nat /\ written \in Nat
        /\ captured <= written
    BY <1>1, Ends DEF IInv, FlowInv
  <2>2. bill.in = u.in /\ bill.out = u.out
    BY <1>1, Recorded
  <2>3. u = Parsed(resp.lines, captured)[N]
    <3>1. CASE u = Nothing
      <4>1. bill.in = 0 /\ bill.out = 0
        BY <2>2, <3>1 DEF Nothing
      <4>2. QED
        BY <4>1
    <3>2. QED
      BY <3>1 DEF Extract
  <2> DEFINE i == Maximum(U)
  <2> HIDE DEF u
  <2>4. U # {}
    <3>1. U = {} => u.in = 0 /\ u.out = 0
      BY <2>1, <2>3, ParsedFields
    <3>2. QED
      BY <2>2, <3>1
  <2>5. i \in U /\ u.in = resp.lines[i].usage.in /\ u.out = resp.lines[i].usage.out
    BY <2>1, <2>3, <2>4, ParsedFields
  <2> HIDE DEF i
  <2>6. /\ i \in 1 .. N /\ Whole(resp.lines, captured, i)
        /\ resp.lines[i].hasUsage = TRUE
    BY <2>5 DEF UsageIn
  <2>7. End(resp.lines)[i] \in Nat /\ resp.lines \in Seq(Documents)
    <3>1. N \in Nat /\ End(resp.lines) \in [0 .. N -> Nat]
      BY <2>1, Ends
    <3>2. i \in 0 .. N
      BY <2>6, <3>1
    <3>3. resp.lines \in Seq(Documents)
      BY <2>1, BillingAssumption
    <3>4. QED
      BY <3>1, <3>2, <3>3
  <2>8. End(resp.lines)[i] - 1 <= written
    <3>1. End(resp.lines)[i] - 1 <= captured
      BY <2>6 DEF Whole
    <3>2. QED
      BY <2>1, <2>7, <3>1
  <2>9. i \in UsageLines
    BY <2>6, <2>7 DEF UsageLines, Lines
  <2>10. QED
    BY <2>2, <2>5, <2>8, <2>9 DEF Lines
<1>2. QED
  BY <1>1, Invariance, PTL

(***************************************************************************)
(* streamResponse drops the error of io.Copy and extractUsage looks into   *)
(* what the buffer has: a response that was cut short is billed by the     *)
(* last usage block passed on in full, and by nothing if there is none.    *)
(***************************************************************************)
THEOREM CutsAreBilled == Spec => []CutBilledByLast
<1>1. ASSUME IInv
      PROVE  CutBilledByLast
  <2> DEFINE lines == resp.lines
             N == Len(lines)
             e == End(lines)
             U == UsageIn(lines, captured)
             u == Extract(resp, request.isStream, captured)
             W == {i \in UsageLines : End(Lines)[i] - 1 <= captured}
             M == Maximum(W)
  <2> SUFFICES ASSUME pc = "done", request.isStream => resp.format = "sse"
               PROVE  IF W = {} THEN bill.in = 0 /\ bill.out = 0
                      ELSE captured - End(Lines)[M - 1] <= CaptureMax =>
                             /\ bill.in = Lines[M].usage.in
                             /\ bill.out = Lines[M].usage.out
    BY DEF CutBilledByLast
  <2>1. resp \in Responses /\ captured \in Nat
    BY <1>1, Ends DEF IInv, FlowInv
  <2>2. /\ N \in Nat /\ e \in [0 .. N -> Nat] /\ lines \in Seq(Documents)
        /\ \A i \in 1 .. N : lines[i].hasUsage \in BOOLEAN
    BY <2>1, Ends, BillingAssumption DEF Documents
  <2>3. DOMAIN Lines = 1 .. N /\ UsageLines \subseteq 1 .. N
    BY <2>2 DEF Lines, UsageLines
  <2>4. u = Parsed(lines, captured)[N]
    BY DEF Extract
  <2>5. /\ U = {} => u.in = 0 /\ u.out = 0
        /\ U # {} => /\ Maximum(U) \in U /\ u.in = lines[Maximum(U)].usage.in
                     /\ u.out = lines[Maximum(U)].usage.out
    BY <2>1, <2>4, ParsedFields
  <2>6. bill.in = u.in /\ bill.out = u.out
    BY <1>1, Recorded
  <2> HIDE DEF u
  <2>7. U \subseteq W
    BY <2>3 DEF UsageIn, UsageLines, Lines, Whole
  <2>8. CASE W = {}
    BY <2>5, <2>6, <2>7, <2>8
  <2>9. CASE W # {} /\ captured - End(Lines)[M - 1] <= CaptureMax
    <3>1. W \subseteq 1 .. N /\ W \subseteq 0 .. N
      <4>1. 1 .. N \subseteq 0 .. N
        BY <2>2
      <4>2. W \subseteq UsageLines
        OBVIOUS
      <4> HIDE DEF W
      <4>3. QED
        BY <2>3, <4>1, <4>2
    <3>2. M \in W /\ \A i \in W : i <= M
      <4> HIDE DEF W
      <4>1. QED
        BY <2>2, <2>9, <3>1, Greatest
    <3>3. M \in 1 .. N /\ lines[M].hasUsage = TRUE /\ e[M] - 1 <= captured
      <4> HIDE DEF M
      <4>1. M \in UsageLines /\ End(Lines)[M] - 1 <= captured
        BY <3>2
      <4>2. QED
        BY <2>2, <2>3, <4>1 DEF UsageLines, Lines
    <3>4. e[M - 1] >= captured - CaptureMax
      <4>1. M - 1 \in 0 .. N
        BY <2>2, <3>3
      <4>2. e[M - 1] \in Nat /\ CaptureMax \in Nat
        BY <2>2, <4>1, BillingAssumption
      <4> HIDE DEF M, e
      <4>3. captured - e[M - 1] <= CaptureMax
        BY <2>9 DEF Lines, e
      <4>4. QED
        BY <2>1, <4>2, <4>3
    <3>5. M \in U
      BY <3>3, <3>4 DEF UsageIn, Whole
    <3>6. U \subseteq Nat /\ \A i \in U : i <= M
      <4>1. ASSUME NEW i \in 1 .. N
            PROVE  i \in Nat
        BY <2>2
      <4>2. QED
        BY <2>7, <3>1, <3>2, <4>1, Zenon
    <3> HIDE DEF M, U
    <3>7. Maximum(U) = M
      BY <3>5, <3>6, MaximumIs
    <3>8. QED
      BY <2>5, <2>6, <2>9, <3>5, <3>7 DEF Lines
  <2>10. QED
    BY <2>8, <2>9
<1>2. QED
  BY <1>1, Invariance, PTL

\* After a regular end the buffer holds everything from the last usage block on.
LEMMA TailHolds ==
  ASSUME IInv, pc = "done", ended = TRUE, UsageLines # {}, Fits
  PROVE  /\ UsageLines \subseteq 1 .. Len(resp.lines) /\ DOMAIN Lines = 1 .. Len(resp.lines)
         /\ Maximum(UsageLines) \in UsageLines
         /\ \A i \in UsageLines : i <= Maximum(UsageLines)
         /\ \A i \in 1 .. Len(resp.lines) :
              i >= Maximum(UsageLines) => Whole(resp.lines, captured, i)
<1> DEFINE N == Len(resp.lines)
           M == Maximum(UsageLines)
           e == End(resp.lines)
<1>1. resp \in Responses /\ captured = Size(resp)
  BY DEF IInv, FlowInv
<1>2. N \in Nat /\ e \in [0 .. N -> Nat] /\ Size(resp) \in Nat /\ resp.lines \in Seq(Documents)
  BY <1>1, Ends, BillingAssumption
<1>3. DOMAIN Lines = 1 .. N /\ UsageLines \subseteq 1 .. N
  BY <1>2 DEF Lines, UsageLines
<1>4. M \in UsageLines /\ \A i \in UsageLines : i <= M
  <2>1. UsageLines \subseteq 0 .. N
    BY <1>2, <1>3
  <2>2. QED
    BY <1>2, <2>1, Greatest
<1>5. M \in 1 .. N
  BY <1>3, <1>4
<1>6. Size(resp) - e[M - 1] <= CaptureMax
  BY DEF Fits, Lines
<1>7. ASSUME NEW i \in 1 .. N, i >= M
      PROVE  Whole(resp.lines, captured, i)
  <2> HIDE DEF M
  <2>1. M - 1 \in 0 .. N /\ i - 1 \in 0 .. N /\ M - 1 <= i - 1 /\ i \in 0 .. N /\ i <= i
    BY <1>2, <1>5, <1>7
  <2>2. e[M - 1] <= e[i - 1]
    BY <1>1, <2>1, Increasing
  <2>3. e[i] <= Size(resp)
    BY <1>1, <2>1, Increasing
  <2>4. e[i] \in Nat /\ e[i - 1] \in Nat /\ e[M - 1] \in Nat /\ CaptureMax \in Nat
    BY <1>2, <2>1, BillingAssumption
  <2> HIDE DEF e
  <2>5. e[i - 1] >= captured - CaptureMax /\ e[i] - 1 <= captured
    BY <1>1, <1>2, <1>6, <2>2, <2>3, <2>4
  <2>6. QED
    BY <2>5 DEF Whole, e
<1>8. QED
  BY <1>3, <1>4, <1>7

(***************************************************************************)
(* captureMax, ParseSSEUsage, ParseJSONUsage and Cost together: a response *)
(* that was read to its end is billed by its last usage block whenever     *)
(* that fits into the buffer, however io.Copy cut it, and at the price of  *)
(* the longest listed name, token by token.                                *)
(***************************************************************************)
THEOREM BillsAsReported == Spec => []BilledAsReported
<1>1. ASSUME IInv
      PROVE  BilledAsReported
  <2> DEFINE details == {i \in UsageLines : Lines[i].usage.cached # None /\ InTail(i)}
  <2> SUFFICES ASSUME pc = "done", ended, UsageLines # {}, Fits,
                      request.isStream => resp.format = "sse", NamedIfAnywhere
               PROVE  /\ bill.in = Owed.usage.in /\ bill.out = Owed.usage.out
                      /\ bill.model = Name
                      /\ bill.cached = IF details = {} THEN 0
                                       ELSE Lines[Maximum(details)].usage.cached
                      /\ bill.cost = Charge(Name, bill.in, bill.out, bill.cached)
    BY DEF BilledAsReported
  <2> DEFINE lines == resp.lines
             N == Len(lines)
             M == Maximum(UsageLines)
             U == UsageIn(lines, captured)
             D == DetailsIn(lines, captured)
             K == NamedIn(lines, captured)
             u == Extract(resp, request.isStream, captured)
  <2>1. ended = TRUE /\ resp \in Responses /\ captured \in Nat
    BY <1>1, Ends DEF IInv, FlowInv
  <2>2. /\ UsageLines \subseteq 1 .. N /\ DOMAIN Lines = 1 .. N
        /\ M \in UsageLines /\ \A i \in UsageLines : i <= M
        /\ \A i \in 1 .. N : i >= M => Whole(lines, captured, i)
    BY <1>1, <2>1, TailHolds
  <2>3. N \in Nat /\ \A i \in 1 .. N : lines[i].hasUsage \in BOOLEAN
    BY <2>1, Ends DEF Documents
  <2>4. u = Parsed(lines, captured)[N]
    BY DEF Extract
  <2>5. /\ U = {} => u.in = 0 /\ u.out = 0
        /\ U # {} => /\ Maximum(U) \in U /\ u.in = lines[Maximum(U)].usage.in
                     /\ u.out = lines[Maximum(U)].usage.out
        /\ u.cached = IF D = {} THEN 0 ELSE lines[Maximum(D)].usage.cached
        /\ u.model = IF K = {} THEN << >> ELSE lines[Maximum(K)].model
    BY <2>1, <2>4, ParsedFields
  <2>6. /\ bill.in = u.in /\ bill.out = u.out /\ bill.cached = u.cached
        /\ bill.model = IF u.model # << >> THEN u.model ELSE request.model
        /\ bill.cost = Charge(bill.model, u.in, u.out, u.cached)
    BY <1>1, Recorded
  <2> HIDE DEF u
  <2>7. bill.in = Owed.usage.in /\ bill.out = Owed.usage.out
    <3>1. U \subseteq UsageLines
      BY <2>2 DEF UsageIn, UsageLines, Lines
    <3>2. M \in U
      <4>1. M \in 1 .. N /\ M >= M /\ lines[M].hasUsage
        BY <2>2 DEF UsageLines, Lines
      <4>2. QED
        BY <2>2, <2>3, <4>1 DEF UsageIn
    <3>3. U \subseteq Nat /\ \A i \in U : i <= M
      <4>1. ASSUME NEW i \in 1 .. N
            PROVE  i \in Nat
        BY <2>3
      <4>2. QED
        BY <2>2, <3>1, <4>1, Zenon
    <3> HIDE DEF M, U
    <3>4. Maximum(U) = M
      BY <3>2, <3>3, MaximumIs
    <3>5. QED
      BY <2>5, <2>6, <3>2, <3>4 DEF Owed, Lines, M
  <2>8. bill.cached = IF details = {} THEN 0 ELSE Lines[Maximum(details)].usage.cached
    <3>1. \A i \in 1 .. N : InTail(i) <=> Whole(lines, captured, i)
      BY DEF InTail, Whole
    <3>2. ASSUME NEW i
          PROVE  i \in details <=> i \in D
      <4>1. i \in details <=> /\ i \in 1 .. N /\ lines[i].hasUsage
                              /\ lines[i].usage.cached # None /\ InTail(i)
        BY <2>2 DEF UsageLines, Lines
      <4>2. i \in D <=> /\ i \in 1 .. N /\ lines[i].hasUsage = TRUE
                        /\ lines[i].usage.cached # None /\ Whole(lines, captured, i)
        BY DEF DetailsIn, UsageIn
      <4>3. QED
        BY <2>3, <3>1, <4>1, <4>2
    <3> HIDE DEF details, D
    <3>3. details = D
      BY <3>2
    <3>4. QED
      BY <2>5, <2>6, <3>3 DEF Lines
  <2>9. bill.model = Name
    <3> DEFINE named == {i \in DOMAIN Lines : Lines[i].model # << >>}
    <3>1. Name = IF named = {} THEN request.model ELSE Lines[Maximum(named)].model
      BY DEF Name
    <3>2. named \subseteq 1 .. N /\ K \subseteq named
      BY <2>2 DEF NamedIn, Lines
    <3>3. CASE named = {}
      BY <2>5, <2>6, <3>1, <3>2, <3>3
    <3>4. CASE named # {}
      <4>1. M \in named
        <5>1. lines[M].model # << >>
          BY <3>4 DEF NamedIfAnywhere, Owed, Lines
        <5>2. QED
          BY <2>2, <5>1 DEF Lines
      <4> DEFINE k == Maximum(named)
      <4>2. k \in named /\ \A i \in named : i <= k
        <5>1. named \subseteq 0 .. N
          BY <2>3, <3>2
        <5> HIDE DEF named
        <5>2. QED
          BY <2>3, <3>4, <5>1, Greatest
      <4>3. k \in K
        <5>1. k \in 1 .. N /\ k >= M /\ lines[k].model # << >>
          <6>1. k \in 1 .. N /\ M \in 1 .. N /\ M <= k
            BY <2>2, <3>2, <4>1, <4>2
          <6>2. lines[k].model # << >>
            BY <4>2 DEF Lines
          <6>3. QED
            BY <6>1, <6>2
        <5>2. QED
          BY <2>2, <5>1 DEF NamedIn
      <4>4. lines[k].model # << >>
        BY <4>2 DEF Lines
      <4> HIDE DEF named, k
      <4>5. K \subseteq Nat /\ \A i \in K : i <= k
        <5>1. ASSUME NEW i \in 1 .. N
              PROVE  i \in Nat
          BY <2>3
        <5>2. QED
          BY <3>2, <4>2, <5>1, Zenon
      <4> HIDE DEF K
      <4>6. Maximum(K) = k
        BY <4>3, <4>5, MaximumIs
      <4>7. u.model = lines[k].model
        BY <2>5, <4>3, <4>6
      <4>8. QED
        BY <2>6, <3>1, <3>4, <4>4, <4>7 DEF Lines, k
    <3>5. QED
      BY <3>3, <3>4
  <2>10. QED
    BY <2>6, <2>7, <2>8, <2>9
<1>2. QED
  BY <1>1, Invariance, PTL
==============================================================================
