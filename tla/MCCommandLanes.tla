--------------------------- MODULE MCCommandLanes ---------------------------
(* Instances of CommandLanes for TLC. *)
EXTENDS CommandLanes
=============================================================================
