--------------------------- MODULE MCFollowupQueue ---------------------------
(* Instances of FollowupQueue for TLC. *)
EXTENDS FollowupQueue

CONSTANTS m1, m2, m3, m4

AllSameRoute == [m \in Msgs |-> "chat"]
LastElsewhere == [m \in Msgs |-> IF m = m4 THEN "thread" ELSE "chat"]

\* Every delivery is a message of its own; m3 delivers the message of m2 again
\* and m4 comes without an id.
Distinct    == [m \in Msgs |-> m]
Redelivered == [m \in Msgs |-> IF m = m3 THEN m2 ELSE IF m = m4 THEN NoId ELSE m]

Setting(mode, cap, drop) == [mode |-> mode, cap |-> cap, drop |-> drop]

Roomy  == {Setting("collect", 9, "unset"), Setting("followup", 9, "summarize")}
Mixed  == {Setting("collect", 2, "unset"), Setting("followup", 1, "unset"),
           Setting("followup", 1, "old"), Setting("collect", 1, "new")}
=============================================================================
