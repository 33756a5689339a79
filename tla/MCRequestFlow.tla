--------------------------- MODULE MCRequestFlow ---------------------------
(* Model-checking instance of RequestFlow. *)
EXTENDS RequestFlow

\* Every kind of request.
AllKinds == RequestKinds

\* A chat completion and its streaming form, as the client libraries send it.
ChatKinds ==
  {[json |-> TRUE, stream |-> s, include |-> FALSE, metered |-> TRUE] :
     s \in BOOLEAN}
============================================================================
