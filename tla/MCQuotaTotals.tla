--------------------------- MODULE MCQuotaTotals ---------------------------
(* Model-checking instance of QuotaTotals. *)
EXTENDS QuotaTotals, TLC

\* Responses of one token: the table rounds the cost of one down to nothing
\* and that of the other, half of what it keeps, up.
MCUsages == {[d \in Dims |-> IF d = "tok" THEN 1 ELSE c] : c \in {1, 2}}

\* A response of two tokens, so that a total can pass a quota of three.
MCUsagesRace == {[d \in Dims |-> IF d = "tok" THEN 2 ELSE 1]}

\* token_quota or dollar_quota IS NULL.
Unlimited == NoQuota

\* Goroutines are interchangeable.
Symmetry == Permutations(Slots)
============================================================================
