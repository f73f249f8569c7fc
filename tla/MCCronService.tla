--------------------------- MODULE MCCronService ---------------------------
(* Instances of CronService for TLC: j1 recurs, j2 is a one-shot. *)
EXTENDS CronService, TLC

CONSTANTS j1, j2

MCKind == j1 :> "cron" @@ j2 :> "at"
=============================================================================
