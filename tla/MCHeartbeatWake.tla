--------------------------- MODULE MCHeartbeatWake ---------------------------
(* Instances of HeartbeatWake for TLC. *)
EXTENDS HeartbeatWake

(* "interval" is asked for with no delay, hooks with DEFAULT_COALESCE_MS. *)
TwoKinds == [r \in {"interval", "hook"} |-> IF r = "hook" THEN 3 ELSE 1]
=============================================================================
