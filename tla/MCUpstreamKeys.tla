--------------------------- MODULE MCUpstreamKeys ---------------------------
(* Model-checking instance of UpstreamKeys. *)
EXTENDS UpstreamKeys
=============================================================================
