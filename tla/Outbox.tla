------------------------------- MODULE Outbox -------------------------------
(***************************************************************************)
(* What the durable outbound queue promises: a message it has accepted is  *)
(* owed until it has reached its recipient, its caller has abandoned it,   *)
(* or it has been set aside for a human to look at.  A settled message may *)
(* be owed again (delivery is at least once); it is never just forgotten.  *)
(***************************************************************************)
CONSTANTS
  Ids,        \* messages
  BestEffort  \* messages whose failure the caller asked to ignore

VARIABLES
  owed,       \* accepted and not settled
  reached,    \* the recipient has the whole message
  abandoned,  \* the caller aborted the delivery
  dead        \* set aside

vars == <<owed, reached, abandoned, dead>>

Init == owed = {} /\ reached = {} /\ abandoned = {} /\ dead = {}

Accept(i) == owed' = owed \cup {i} /\ UNCHANGED <<reached, abandoned, dead>>

Reach(i) == reached' = reached \cup {i} /\ UNCHANGED <<owed, abandoned, dead>>

Abandon(i) == abandoned' = abandoned \cup {i} /\ UNCHANGED <<owed, reached, dead>>

Settle(i) ==
  /\ i \in reached \cup abandoned \cup BestEffort
  /\ owed' = owed \ {i}
  /\ UNCHANGED <<reached, abandoned, dead>>

SetAside(i) ==
  /\ i \in owed
  /\ owed' = owed \ {i}
  /\ dead' = dead \cup {i}
  /\ UNCHANGED <<reached, abandoned>>

Next ==
  \E i \in Ids : Accept(i) \/ Reach(i) \/ Abandon(i) \/ Settle(i) \/ SetAside(i)

Spec == Init /\ [][Next]_vars
=============================================================================
