---------------------------- MODULE KeyRotation ----------------------------
(***************************************************************************)
(* What the upstream key store promises the proxy (the comments on         *)
(* UpstreamStore in internal/keys/upstream.go): keys are set one after the *)
(* other, and a replica only ever takes up a key that was the newest when  *)
(* it looked.  There are no transactions, rows or goroutines here.         *)
(***************************************************************************)
EXTENDS Naturals

CONSTANT Replicas

VARIABLES
  newest,   \* how many keys have been set; the last one is current
  looked,   \* keys each replica has read and not yet taken up
  served    \* the key each replica sends upstream, 0 while it is not serving

vars == <<newest, looked, served>>

Init ==
  /\ newest = 0
  /\ looked = [r \in Replicas |-> {}]
  /\ served = [r \in Replicas |-> 0]

\* A key is set: at once for everyone who looks from now on.
SetKey ==
  /\ newest' = newest + 1
  /\ UNCHANGED <<looked, served>>

Look(r) ==
  /\ newest # 0
  /\ looked' = [looked EXCEPT ![r] = @ \cup {newest}]
  /\ UNCHANGED <<newest, served>>

\* r serves with what it has read, or drops it (it is not serving yet, or
\* failed); another reader on r may have read the same key.
TakeUp(r, k) ==
  /\ k \in looked[r]
  /\ looked' \in {looked, [looked EXCEPT ![r] = @ \ {k}]}
  /\ served' \in {served, [served EXCEPT ![r] = k]}
  /\ UNCHANGED newest

Stop(r) ==
  /\ looked' = [looked EXCEPT ![r] = {}]
  /\ served' = [served EXCEPT ![r] = 0]
  /\ UNCHANGED newest

Next ==
  \/ SetKey
  \/ \E r \in Replicas : Look(r) \/ Stop(r) \/ \E k \in looked[r] : TakeUp(r, k)

Spec == Init /\ [][Next]_vars

============================================================================
