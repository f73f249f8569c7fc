---------------------------- MODULE MCSessionRuns ----------------------------
(* Instances of SessionRuns for TLC: r1 and r2 share a session, every      *)
(* other run has one of its own.                                           *)
EXTENDS SessionRuns

CONSTANTS r1, r2, r3, r4, s1, s2, s3

MCSessionOf == [r \in Runs |-> IF r \in {r1, r2} THEN s1
                               ELSE IF r = r3 THEN s2 ELSE s3]
=============================================================================
