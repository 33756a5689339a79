--------------------------- MODULE MCVerifyCache ---------------------------
(* Model-checking instance of VerifyCache. *)
EXTENDS VerifyCache, TLC

\* Goroutines are interchangeable: only safety is checked here.
Symmetry == Permutations(Verifiers) \cup Permutations(Admins)
============================================================================
