---------------------------- MODULE MCRateLimit ----------------------------
(* Model-checking instance of RateLimit. *)
EXTENDS RateLimit, TLC

\* Goroutines are interchangeable.
Symmetry == Permutations(Requests)
============================================================================
