------------------------------ MODULE LanePump ------------------------------
(***************************************************************************)
(* The loop pump() of drainLane (src/process/command-queue.ts) as a        *)
(* function of one lane's queue, active set and limit: it shifts entries   *)
(* from the head of the queue while activeTaskIds.size < maxConcurrent.    *)
(***************************************************************************)
EXTENDS Integers, Sequences, FiniteSets

Max2(a, b) == IF a >= b THEN a ELSE b
Min2(a, b) == IF a <= b THEN a ELSE b

(* How many entries one pump shifts. *)
\* Broken form: the slot test is <= instead of <.
StartCount_OffByOne(q, a, cap) == Min2(Len(q), Max2(0, cap + 1 - Cardinality(a)))

StartCount(q, a, cap) == Min2(Len(q), Max2(0, cap - Cardinality(a)))

Started(q, a, cap) == {q[i] : i \in 1 .. StartCount(q, a, cap)}

\* Broken form: the entry is read with queue[0] and not shifted out.
Rest_KeepsLast(q, a, cap) == SubSeq(q, Max2(1, StartCount(q, a, cap)), Len(q))

Rest(q, a, cap) == SubSeq(q, StartCount(q, a, cap) + 1, Len(q))
=============================================================================
