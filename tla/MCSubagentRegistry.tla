-------------------------- MODULE MCSubagentRegistry --------------------------
(* Instances of SubagentRegistry for TLC: a run of the user, which spawns   *)
(* a child run.                                                            *)
EXTENDS SubagentRegistry, TLC

CONSTANTS parent, child

MCRequester == parent :> Main @@ child :> parent
OneChild    == parent :> 2 @@ child :> 1
KeepDelete  == {parent :> "keep" @@ child :> "delete"}
=============================================================================
