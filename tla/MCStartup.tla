----------------------------- MODULE MCStartup -----------------------------
EXTENDS Startup

Unset == [form |-> "unset", n |-> 0]

\* A sound environment, one without a key, and one for each thing that can
\* be wrong.
MCEnvs ==
  {[config |-> "ok", fallback |-> TRUE, refresh |-> [form |-> "other", n |-> 0]],
   [config |-> "ok", fallback |-> FALSE, refresh |-> [form |-> "number", n |-> 5]],
   [config |-> "ok", fallback |-> TRUE, refresh |-> [form |-> "number", n |-> 0]],
   [config |-> "malformed", fallback |-> TRUE, refresh |-> Unset],
   [config |-> "missing", fallback |-> TRUE, refresh |-> Unset]}

============================================================================
