------------------------- MODULE CommandLanesProofs -------------------------
(***************************************************************************)
(* Theorems about CommandLanes, for every set of lanes, every set of       *)
(* concurrency settings and every number of tasks and resets.              *)
(***************************************************************************)
EXTENDS CommandLanes, FiniteSetTheorems, TLAPS

Elems(q) == {q[i] : i \in 1 .. Len(q)}

Increasing(q) == \A i, j \in 1 .. Len(q) : i < j => q[i] < q[j]

-----------------------------------------------------------------------------
(* The pump. *)

(* The pump shifts a prefix of the queue, at most as long as the queue. *)
LEMMA StartCountBound ==
  ASSUME NEW q \in Seq(Tasks), NEW a \in SUBSET Tasks, NEW cap \in Nat
  PROVE  /\ IsFiniteSet(a) /\ Cardinality(a) \in Nat
         /\ StartCount(q, a, cap) \in 0 .. Len(q)
         /\ StartCount(q, a, cap) > 0 =>
              Cardinality(a) + StartCount(q, a, cap) <= cap
         /\ StartCount(q, a, cap) < Len(q) =>
              Cardinality(a) + StartCount(q, a, cap) >= cap
<1>1. MaxTasks \in Nat
  BY LanesAssumption
<1>2. IsFiniteSet(Tasks)
  BY <1>1, FS_Interval DEF Tasks
<1>3. IsFiniteSet(a) /\ Cardinality(a) \in Nat
  BY <1>2, FS_Subset, FS_CardinalityType
<1>4. Len(q) \in Nat
  OBVIOUS
<1> QED
  BY <1>3, <1>4 DEF StartCount, Min2, Max2

(* What is left of the queue is its tail. *)
LEMMA RestIsTail ==
  ASSUME NEW q \in Seq(Tasks), NEW a \in SUBSET Tasks, NEW cap \in Nat
  PROVE  /\ Rest(q, a, cap) \in Seq(Tasks)
         /\ Len(Rest(q, a, cap)) = Len(q) - StartCount(q, a, cap)
         /\ \A i \in 1 .. Len(Rest(q, a, cap)) :
              Rest(q, a, cap)[i] = q[i + StartCount(q, a, cap)]
<1> DEFINE n == StartCount(q, a, cap)
<1>1. n \in 0 .. Len(q)
  BY StartCountBound
<1> HIDE DEF n
<1>2. /\ SubSeq(q, n + 1, Len(q)) \in Seq(Tasks)
      /\ Len(SubSeq(q, n + 1, Len(q))) = Len(q) - n
      /\ \A i \in 1 .. Len(q) - n : SubSeq(q, n + 1, Len(q))[i] = q[i + n]
  BY <1>1
<1> QED
  BY <1>2 DEF Rest, n

(* Started entries and remaining entries partition an increasing queue. *)
LEMMA PumpPartition ==
  ASSUME NEW q \in Seq(Tasks), NEW a \in SUBSET Tasks, NEW cap \in Nat,
         Increasing(q)
  PROVE  /\ Started(q, a, cap) \subseteq Elems(q)
         /\ Elems(Rest(q, a, cap)) = Elems(q) \ Started(q, a, cap)
         /\ Increasing(Rest(q, a, cap))
         /\ \A x \in Started(q, a, cap), y \in Elems(Rest(q, a, cap)) : x < y
<1> DEFINE n == StartCount(q, a, cap)
           r == Rest(q, a, cap)
<1>1. n \in 0 .. Len(q) /\ Len(q) \in Nat
  <2>1. n \in 0 .. Len(q)
    BY StartCountBound
  <2>2. Len(q) \in Nat
    OBVIOUS
  <2> QED
    BY <2>1, <2>2
<1>2. /\ Len(r) = Len(q) - n
      /\ \A i \in 1 .. Len(r) : r[i] = q[i + n]
  BY RestIsTail
<1>3. Started(q, a, cap) = {q[i] : i \in 1 .. n}
  BY DEF Started
<1>4. \A i \in 1 .. Len(q) : q[i] \in Int
  BY LanesAssumption DEF Tasks
<1> HIDE DEF n, r
<1>5. Started(q, a, cap) \subseteq Elems(q)
  BY <1>1, <1>3 DEF Elems
<1>6. Increasing(r)
  BY <1>1, <1>2 DEF Increasing
<1>7. ASSUME NEW x \in Elems(r) PROVE x \in Elems(q) \ Started(q, a, cap)
  <2>1. PICK i \in 1 .. Len(r) : x = r[i]
    BY DEF Elems
  <2>2. i + n \in 1 .. Len(q) /\ x = q[i + n]
    BY <1>1, <1>2, <2>1
  <2>3. ASSUME NEW j \in 1 .. n PROVE q[j] # x
    <3>1. j \in 1 .. Len(q) /\ j < i + n
      BY <1>1, <2>1, <1>2
    <3>2. q[j] < q[i + n]
      BY <2>2, <3>1 DEF Increasing
    <3> QED
      BY <3>1, <3>2, <2>2, <1>4
  <2> QED
    BY <1>3, <2>2, <2>3 DEF Elems
<1>8. ASSUME NEW x \in Elems(q) \ Started(q, a, cap) PROVE x \in Elems(r)
  <2>1. PICK i \in 1 .. Len(q) : x = q[i]
    BY DEF Elems
  <2>2. i > n
    BY <1>3, <2>1, <1>1
  <2>3. i - n \in 1 .. Len(r) /\ r[i - n] = q[(i - n) + n]
    BY <1>1, <1>2, <2>1, <2>2
  <2>4. (i - n) + n = i
    BY <1>1, <2>1
  <2> QED
    BY <2>1, <2>3, <2>4 DEF Elems
<1>9. ASSUME NEW x \in Started(q, a, cap), NEW y \in Elems(r) PROVE x < y
  <2>1. PICK i \in 1 .. n : x = q[i]
    BY <1>3
  <2>2. PICK j \in 1 .. Len(r) : y = r[j]
    BY DEF Elems
  <2>3. i \in 1 .. Len(q) /\ j + n \in 1 .. Len(q) /\ i < j + n /\ y = q[j + n]
    BY <1>1, <1>2, <2>2
  <2> QED
    BY <2>1, <2>3 DEF Increasing
<1> QED
  BY <1>5, <1>6, <1>7, <1>8, <1>9 DEF r

(* As many tasks are started as entries are shifted. *)
LEMMA StartedCardinality ==
  ASSUME NEW q \in Seq(Tasks), NEW a \in SUBSET Tasks, NEW cap \in Nat,
         Increasing(q), Elems(q) \cap a = {}
  PROVE  Cardinality(a \cup Started(q, a, cap)) =
           Cardinality(a) + StartCount(q, a, cap)
<1> DEFINE n == StartCount(q, a, cap)
           S == Started(q, a, cap)
           f == [i \in 1 .. n |-> q[i]]
<1>1. n \in 0 .. Len(q) /\ n \in Nat /\ Len(q) \in Nat
  <2>1. n \in 0 .. Len(q)
    BY StartCountBound
  <2>2. Len(q) \in Nat
    OBVIOUS
  <2> QED
    BY <2>1, <2>2
<1>2. S = {q[i] : i \in 1 .. n}
  BY DEF Started
<1>3. \A i \in 1 .. Len(q) : q[i] \in Int
  BY LanesAssumption DEF Tasks
<1> HIDE DEF n, S
<1>4. f \in Bijection(1 .. n, S)
  <2>1. f \in [1 .. n -> S]
    BY <1>2
  <2>2. \A y \in S : \E i \in 1 .. n : f[i] = y
    BY <1>2
  <2>3. ASSUME NEW i \in 1 .. n, NEW j \in 1 .. n, i # j PROVE f[i] # f[j]
    <3>1. i \in 1 .. Len(q) /\ j \in 1 .. Len(q)
      BY <1>1
    <3>2. (i < j => q[i] < q[j]) /\ (j < i => q[j] < q[i])
      BY <3>1 DEF Increasing
    <3> QED
      BY <1>3, <2>3, <3>1, <3>2
  <2> HIDE DEF f
  <2> QED
    BY <2>1, <2>2, <2>3 DEF Bijection, Injection, Surjection, IsInjective
<1>5. IsFiniteSet(1 .. n) /\ Cardinality(1 .. n) = n
  BY <1>1, FS_Interval
<1>6. IsFiniteSet(S) /\ Cardinality(S) = n
  <2>1. ExistsBijection(1 .. n, S)
    BY <1>4 DEF ExistsBijection
  <2> QED
    BY <1>5, <2>1, FS_Bijection
<1>7. a \cap S = {}
  BY <1>1, <1>2 DEF Elems
<1>8. IsFiniteSet(a) /\ Cardinality(a) \in Nat
  BY StartCountBound
<1>9. Cardinality(a \cup S) = Cardinality(a) + Cardinality(S) - Cardinality(a \cap S)
  BY <1>6, <1>8, FS_Union
<1>10. Cardinality(a \cap S) = 0
  BY <1>7, FS_EmptySet
<1> QED
  BY <1>1, <1>6, <1>8, <1>9, <1>10 DEF n, S

-----------------------------------------------------------------------------
(* One drain of a set of lanes, from the state a handler has built up to   *)
(* the state it leaves.                                                    *)

Typed(q, a, cap, g, ph, si) ==
  /\ q \in [Lanes -> Seq(Tasks)]
  /\ a \in [Lanes -> SUBSET Tasks]
  /\ cap \in [Lanes -> Nat \ {0}]
  /\ g \in [Lanes -> Nat]
  /\ ph \in [Tasks -> Phases]
  /\ si \in [Tasks -> Nat]

ExactActive(a, g, ph, lo, si) ==
  \A l \in Lanes :
    /\ a[l] = {t \in Tasks : ph[t] = "running" /\ lo[t] = l /\ si[t] = g[l]}
    /\ \A t \in Tasks : ph[t] = "running" /\ lo[t] = l => si[t] <= g[l]

ExactQueue(q, ph, lo) ==
  \A l \in Lanes :
    /\ Elems(q[l]) = {t \in Tasks : ph[t] = "queued" /\ lo[t] = l}
    /\ Increasing(q[l])

(* Submission order, and where a task is before it has started. *)
Ordered(ph, lo) ==
  /\ \A t, u \in Tasks :
       t < u /\ lo[t] = lo[u] /\ ph[t] = "queued" => ph[u] \in {"new", "queued"}
  /\ \A t \in Tasks : /\ ph[t] = "queued" => lo[t] \in Lanes
                      /\ ph[t] = "new" => lo[t] = NoLane

Conserving(q, a, cap) ==
  \A l \in Lanes : q[l] # <<>> => Cardinality(a[l]) >= cap[l]

ConservingOutside(D, q, a, cap) ==
  \A l \in Lanes : l \notin D => (q[l] # <<>> => Cardinality(a[l]) >= cap[l])

(* DrainLanes with the state it starts from and the state it leaves named. *)
Drained(D, q, a, cap, g, ph, si, q2, a2, cap2, g2, ph2, si2) ==
  LET S == [l \in Lanes |-> IF l \in D THEN Started(q[l], a[l], cap[l]) ELSE {}]
  IN  /\ q2 = [l \in Lanes |-> IF l \in D THEN Rest(q[l], a[l], cap[l]) ELSE q[l]]
      /\ a2 = [l \in Lanes |-> a[l] \cup S[l]]
      /\ cap2 = cap
      /\ g2 = g
      /\ ph2 = [t \in Tasks |->
                  IF \E l \in Lanes : t \in S[l] THEN "running" ELSE ph[t]]
      /\ si2 = [t \in Tasks |->
                  IF \E l \in Lanes : t \in S[l]
                  THEN g[CHOOSE l \in Lanes : t \in S[l]]
                  ELSE si[t]]

(* A drain turns exact bookkeeping into exact bookkeeping and leaves every *)
(* drained lane work-conserving; it only ever moves tasks from queued to   *)
(* running, within the limit of their lane.                                *)
LEMMA DrainKeepsExact ==
  ASSUME NEW D, NEW q, NEW a, NEW cap, NEW g, NEW ph, NEW lo, NEW si,
         NEW q2, NEW a2, NEW cap2, NEW g2, NEW ph2, NEW si2,
         Typed(q, a, cap, g, ph, si),
         ExactActive(a, g, ph, lo, si),
         ExactQueue(q, ph, lo),
         Ordered(ph, lo),
         ConservingOutside(D, q, a, cap),
         Drained(D, q, a, cap, g, ph, si, q2, a2, cap2, g2, ph2, si2)
  PROVE  /\ Typed(q2, a2, cap2, g2, ph2, si2)
         /\ ExactActive(a2, g2, ph2, lo, si2)
         /\ ExactQueue(q2, ph2, lo)
         /\ Ordered(ph2, lo)
         /\ Conserving(q2, a2, cap2)
         /\ cap2 = cap
         /\ \A t \in Tasks : ph2[t] # ph[t] => ph[t] = "queued" /\ ph2[t] = "running"
         /\ \A l \in Lanes : a2[l] \ a[l] # {} => Cardinality(a2[l]) <= cap[l]
<1> DEFINE S == [l \in Lanes |-> IF l \in D THEN Started(q[l], a[l], cap[l]) ELSE {}]
<1>1. /\ q2 = [l \in Lanes |-> IF l \in D THEN Rest(q[l], a[l], cap[l]) ELSE q[l]]
      /\ a2 = [l \in Lanes |-> a[l] \cup S[l]]
      /\ cap2 = cap
      /\ g2 = g
      /\ ph2 = [t \in Tasks |->
                  IF \E l \in Lanes : t \in S[l] THEN "running" ELSE ph[t]]
      /\ si2 = [t \in Tasks |->
                  IF \E l \in Lanes : t \in S[l]
                  THEN g[CHOOSE l \in Lanes : t \in S[l]]
                  ELSE si[t]]
  BY DEF Drained
<1>2. \A l \in Lanes : /\ q[l] \in Seq(Tasks) /\ a[l] \in SUBSET Tasks
                       /\ cap[l] \in Nat /\ g[l] \in Nat
                       /\ Increasing(q[l])
                       /\ Elems(q[l]) = {t \in Tasks : ph[t] = "queued" /\ lo[t] = l}
  BY DEF Typed, ExactQueue
<1>3. \A l \in Lanes :
        /\ S[l] \subseteq Elems(q[l])
        /\ q2[l] \in Seq(Tasks)
        /\ Elems(q2[l]) = Elems(q[l]) \ S[l]
        /\ Increasing(q2[l])
        /\ \A x \in S[l], y \in Elems(q2[l]) : x < y
  <2> TAKE l \in Lanes
  <2>1. CASE l \in D
    <3>1. S[l] = Started(q[l], a[l], cap[l]) /\ q2[l] = Rest(q[l], a[l], cap[l])
      BY <1>1, <2>1
    <3>2. Rest(q[l], a[l], cap[l]) \in Seq(Tasks)
      BY <1>2, RestIsTail
    <3>3. /\ Started(q[l], a[l], cap[l]) \subseteq Elems(q[l])
          /\ Elems(Rest(q[l], a[l], cap[l])) = Elems(q[l]) \ Started(q[l], a[l], cap[l])
          /\ Increasing(Rest(q[l], a[l], cap[l]))
          /\ \A x \in Started(q[l], a[l], cap[l]), y \in Elems(Rest(q[l], a[l], cap[l])) :
               x < y
      BY <1>2, PumpPartition
    <3> HIDE DEF S
    <3> QED
      BY <3>1, <3>2, <3>3
  <2>2. CASE l \notin D
    <3>1. S[l] = {} /\ q2[l] = q[l]
      BY <1>1, <2>2
    <3> QED
      BY <1>2, <3>1
  <2> QED
    BY <2>1, <2>2
<1>4. \A l \in Lanes : \A t \in S[l] : t \in Tasks /\ ph[t] = "queued" /\ lo[t] = l
  BY <1>2, <1>3
<1>5. \A l \in Lanes : Elems(q[l]) \cap a[l] = {}
  BY <1>2 DEF ExactActive
<1>6. \A l \in Lanes :
        /\ q2[l] # <<>> => Cardinality(a2[l]) >= cap[l]
        /\ a2[l] \ a[l] # {} => Cardinality(a2[l]) <= cap[l]
  <2> TAKE l \in Lanes
  <2>1. CASE l \in D
    <3> DEFINE n == StartCount(q[l], a[l], cap[l])
    <3>1. /\ S[l] = Started(q[l], a[l], cap[l])
          /\ q2[l] = Rest(q[l], a[l], cap[l])
          /\ a2[l] = a[l] \cup Started(q[l], a[l], cap[l])
      BY <1>1, <2>1
    <3>2. Cardinality(a2[l]) = Cardinality(a[l]) + n
      BY <1>2, <1>5, <3>1, StartedCardinality
    <3>3. /\ n \in 0 .. Len(q[l])
          /\ n > 0 => Cardinality(a[l]) + n <= cap[l]
          /\ n < Len(q[l]) => Cardinality(a[l]) + n >= cap[l]
      BY <1>2, StartCountBound
    <3>4. Len(q2[l]) = Len(q[l]) - n
      BY <1>2, <3>1, RestIsTail
    <3>5. Started(q[l], a[l], cap[l]) # {} => n > 0
      BY <3>3 DEF Started
    <3>6. q2[l] \in Seq(Tasks) /\ Len(q[l]) \in Nat
      BY <1>2, <1>3
    <3> HIDE DEF n, S
    <3>7. q2[l] # <<>> => n < Len(q[l])
      BY <3>3, <3>4, <3>6
    <3>8. a2[l] \ a[l] # {} => n > 0
      BY <3>1, <3>5
    <3> QED
      BY <3>2, <3>3, <3>7, <3>8
  <2>2. CASE l \notin D
    <3>1. q2[l] = q[l] /\ a2[l] = a[l]
      BY <1>1, <2>2
    <3> QED
      BY <2>2, <3>1 DEF ConservingOutside
  <2> QED
    BY <2>1, <2>2
<1> HIDE DEF S
<1>7. \A t \in Tasks : ph2[t] # ph[t] => ph[t] = "queued" /\ ph2[t] = "running"
  BY <1>1, <1>4
<1>8. \A t \in Tasks, l \in Lanes : t \in S[l] =>
        ph2[t] = "running" /\ si2[t] = g[l]
  <2> TAKE t \in Tasks, l \in Lanes
  <2> HAVE t \in S[l]
  <2>1. \A k \in Lanes : t \in S[k] => k = l
    BY <1>4
  <2>2. (CHOOSE k \in Lanes : t \in S[k]) = l
    BY <2>1
  <2> QED
    BY <1>1, <2>2
<1>9. \A t \in Tasks : (\A l \in Lanes : t \notin S[l]) =>
        ph2[t] = ph[t] /\ si2[t] = si[t]
  BY <1>1
<1>10. Typed(q2, a2, cap2, g2, ph2, si2)
  <2>1. q2 \in [Lanes -> Seq(Tasks)]
    BY <1>1, <1>3
  <2>2. a2 \in [Lanes -> SUBSET Tasks]
    BY <1>1, <1>2, <1>4
  <2>3. ph2 \in [Tasks -> Phases]
    BY <1>1 DEF Typed, Phases
  <2>4. si2 \in [Tasks -> Nat]
    <3>1. \A t \in Tasks : si2[t] \in Nat
      BY <1>2, <1>8, <1>9 DEF Typed
    <3> QED
      BY <1>1, <3>1
  <2> QED
    BY <1>1, <2>1, <2>2, <2>3, <2>4 DEF Typed
<1>11. ExactActive(a2, g2, ph2, lo, si2)
  <2> SUFFICES ASSUME NEW l \in Lanes, NEW t \in Tasks
               PROVE  /\ t \in a2[l] <=>
                           ph2[t] = "running" /\ lo[t] = l /\ si2[t] = g2[l]
                      /\ ph2[t] = "running" /\ lo[t] = l => si2[t] <= g2[l]
    BY <1>1, <1>10, SMTT(30) DEF ExactActive, Typed
  <2>1. t \in a2[l] <=> t \in a[l] \/ t \in S[l]
    BY <1>1
  <2>2. /\ t \in a[l] <=> ph[t] = "running" /\ lo[t] = l /\ si[t] = g[l]
        /\ ph[t] = "running" /\ lo[t] = l => si[t] <= g[l]
    BY DEF ExactActive
  <2>3. CASE \E k \in Lanes : t \in S[k]
    <3>1. PICK k \in Lanes : t \in S[k]
      BY <2>3
    <3>2. ph[t] = "queued" /\ lo[t] = k /\ ph2[t] = "running" /\ si2[t] = g[k]
      BY <1>4, <1>8, <3>1
    <3>3. g[l] <= g[l] /\ g2 = g
      BY <1>1, <1>2
    <3> QED
      BY <1>4, <2>1, <2>2, <3>1, <3>2, <3>3
  <2>4. CASE \A k \in Lanes : t \notin S[k]
    BY <1>1, <1>9, <2>1, <2>2, <2>4
  <2> QED
    BY <2>3, <2>4
<1>12. ExactQueue(q2, ph2, lo)
  <2>1. ASSUME NEW l \in Lanes, NEW t \in Tasks
        PROVE  t \in Elems(q2[l]) <=> ph2[t] = "queued" /\ lo[t] = l
    <3>1. t \in Elems(q2[l]) <=> ph[t] = "queued" /\ lo[t] = l /\ t \notin S[l]
      BY <1>2, <1>3
    <3>2. CASE \E k \in Lanes : t \in S[k]
      BY <1>4, <1>8, <3>1, <3>2
    <3>3. CASE \A k \in Lanes : t \notin S[k]
      BY <1>9, <3>1, <3>3
    <3> QED
      BY <3>2, <3>3
  <2>2. \A l \in Lanes : Elems(q2[l]) \subseteq Tasks
    BY <1>2, <1>3
  <2> QED
    BY <1>3, <2>1, <2>2 DEF ExactQueue
<1>13. Ordered(ph2, lo)
  <2>1. ASSUME NEW t \in Tasks, NEW u \in Tasks, t < u, lo[t] = lo[u], ph2[t] = "queued"
        PROVE  ph2[u] \in {"new", "queued"}
    <3>1. ph[t] = "queued"
      BY <1>7, <2>1
    <3>2. lo[t] \in Lanes /\ ph[u] \in {"new", "queued"}
      BY <2>1, <3>1 DEF Ordered
    <3>3. \A k \in Lanes : u \notin S[k]
      <4> SUFFICES ASSUME NEW k \in Lanes, u \in S[k] PROVE FALSE
        OBVIOUS
      <4>1. k = lo[t] /\ t \in Elems(q2[k])
        BY <1>4, <1>12, <2>1, <3>2 DEF ExactQueue
      <4>2. u < t /\ t \in Int /\ u \in Int
        BY <1>3, <4>1, LanesAssumption DEF Tasks
      <4> QED
        BY <2>1, <4>2
    <3> QED
      BY <1>9, <3>2, <3>3
  <2>2. ASSUME NEW t \in Tasks
        PROVE  /\ ph2[t] = "queued" => lo[t] \in Lanes
               /\ ph2[t] = "new" => lo[t] = NoLane
    BY <1>7 DEF Ordered
  <2> QED
    BY <2>1, <2>2 DEF Ordered
<1> QED
  BY <1>1, <1>6, <1>7, <1>10, <1>11, <1>12, <1>13 DEF Conserving

-----------------------------------------------------------------------------
(* The inductive invariant: the bookkeeping invariants and the order of    *)
(* starts together, and that the tasks not yet submitted are those from    *)
(* nextTask on.  None is inductive alone: a slot count is only right while *)
(* the ids are, the ids only while no task started in a generation to      *)
(* come, an append only keeps a queue in order while everything queued is  *)
(* older, and starts only follow the order while the queue does.           *)

StartedBefore ==
  \A l \in Lanes, t \in Tasks :
    phase[t] = "running" /\ laneOf[t] = l => startedIn[t] <= generation[l]

NewFromNext == \A t \in Tasks : phase[t] = "new" <=> t >= nextTask

Placed ==
  \A t \in Tasks : /\ phase[t] = "queued" => laneOf[t] \in Lanes
                   /\ phase[t] = "new" => laneOf[t] = NoLane

IInv ==
  /\ TypeOK
  /\ ActiveExact
  /\ QueueExact
  /\ WorkConserving
  /\ StartedBefore
  /\ NewFromNext
  /\ NoOvertaking
  /\ Placed

LEMMA IInvParts ==
  IInv <=>
    /\ gatewayDraining \in BOOLEAN /\ nextTask \in 1 .. MaxTasks + 1
    /\ laneOf \in [Tasks -> Lanes \cup {NoLane}] /\ waiter \in WaiterType
    /\ Typed(queue, active, maxConcurrent, generation, phase, startedIn)
    /\ ExactActive(active, generation, phase, laneOf, startedIn)
    /\ ExactQueue(queue, phase, laneOf)
    /\ Conserving(queue, active, maxConcurrent)
    /\ NewFromNext
    /\ Ordered(phase, laneOf)
<1>1. TypeOK <=> /\ gatewayDraining \in BOOLEAN /\ nextTask \in 1 .. MaxTasks + 1
                 /\ laneOf \in [Tasks -> Lanes \cup {NoLane}] /\ waiter \in WaiterType
                 /\ Typed(queue, active, maxConcurrent, generation, phase, startedIn)
  BY DEF TypeOK, Typed
<1>2. ActiveExact /\ StartedBefore <=> ExactActive(active, generation, phase, laneOf, startedIn)
  BY DEF ActiveExact, StartedBefore, ExactActive
<1>3. QueueExact <=> ExactQueue(queue, phase, laneOf)
  BY DEF QueueExact, ExactQueue, Elems, Increasing
<1>4. WorkConserving <=> Conserving(queue, active, maxConcurrent)
  BY DEF WorkConserving, Conserving
<1>5. NoOvertaking /\ Placed <=> Ordered(phase, laneOf)
  BY DEF NoOvertaking, Placed, Ordered
<1> QED
  BY <1>1, <1>2, <1>3, <1>4, <1>5 DEF IInv

LEMMA IInvPartsNext ==
  ASSUME gatewayDraining' \in BOOLEAN, nextTask' \in 1 .. MaxTasks + 1,
         laneOf' \in [Tasks -> Lanes \cup {NoLane}], waiter' \in WaiterType,
         Typed(queue', active', maxConcurrent', generation', phase', startedIn'),
         ExactActive(active', generation', phase', laneOf', startedIn'),
         ExactQueue(queue', phase', laneOf'),
         Conserving(queue', active', maxConcurrent'),
         NewFromNext',
         Ordered(phase', laneOf')
  PROVE  IInv'
<1>1. TypeOK'
  BY DEF TypeOK, Typed
<1>2. ActiveExact' /\ StartedBefore' /\ QueueExact' /\ WorkConserving'
  BY DEF ActiveExact, StartedBefore, ExactActive, QueueExact, ExactQueue, WorkConserving,
         Conserving, Elems, Increasing
<1>3. NoOvertaking' /\ Placed'
  BY DEF NoOvertaking, Placed, Ordered
<1> QED
  BY <1>1, <1>2, <1>3 DEF IInv

LEMMA InitIInv == Init => IInv
<1> SUFFICES ASSUME Init PROVE IInv
  OBVIOUS
<1>1. TypeOK
  <2>1. waiter \in WaiterType /\ phase \in [Tasks -> Phases]
    BY DEF Init, WaiterType, Phases
  <2>2. nextTask \in 1 .. MaxTasks + 1
    BY LanesAssumption DEF Init
  <2>3. queue \in [Lanes -> Seq(Tasks)] /\ active \in [Lanes -> SUBSET Tasks]
    BY DEF Init
  <2>4. maxConcurrent \in [Lanes -> Nat \ {0}] /\ generation \in [Lanes -> Nat]
    BY DEF Init
  <2>5. laneOf \in [Tasks -> Lanes \cup {NoLane}] /\ startedIn \in [Tasks -> Nat]
    BY DEF Init
  <2>6. gatewayDraining \in BOOLEAN
    BY DEF Init
  <2> QED
    BY <2>1, <2>2, <2>3, <2>4, <2>5, <2>6 DEF TypeOK
<1>2. ActiveExact /\ StartedBefore /\ QueueExact /\ WorkConserving
  BY DEF Init, ActiveExact, StartedBefore, QueueExact, WorkConserving
<1>3. NewFromNext
  BY LanesAssumption DEF Init, NewFromNext, Tasks
<1>4. NoOvertaking /\ Placed
  BY DEF Init, NoOvertaking, Placed
<1> QED
  BY <1>1, <1>2, <1>3, <1>4 DEF IInv

(* What one handler does to the lanes, stated once for the invariant and   *)
(* for the action properties.                                              *)
Disciplined ==
  /\ IInv'
  /\ \A t \in Tasks : phase[t] \in Settled => phase'[t] = phase[t]
  /\ \A l \in Lanes : active'[l] \ active[l] # {} =>
                       Cardinality(active'[l]) <= maxConcurrent'[l]

(* Every handler that drains: if it hands exact bookkeeping to the drain,   *)
(* the whole step is disciplined.                                          *)
LEMMA DrainStep ==
  ASSUME NEW D, NEW q, NEW a, NEW cap, NEW g, NEW ph,
         gatewayDraining' \in BOOLEAN, nextTask' \in 1 .. MaxTasks + 1,
         laneOf' \in [Tasks -> Lanes \cup {NoLane}], waiter' \in WaiterType,
         Typed(q, a, cap, g, ph, startedIn),
         ExactActive(a, g, ph, laneOf', startedIn),
         ExactQueue(q, ph, laneOf'),
         Ordered(ph, laneOf'),
         ConservingOutside(D, q, a, cap),
         Drained(D, q, a, cap, g, ph, startedIn,
                 queue', active', maxConcurrent', generation', phase', startedIn'),
         \A t \in Tasks : ph[t] = "new" <=> t >= nextTask',
         \A t \in Tasks : phase[t] \in Settled => ph[t] = phase[t],
         \A l \in Lanes : a[l] \subseteq active[l]
  PROVE  Disciplined
<1>1. /\ Typed(queue', active', maxConcurrent', generation', phase', startedIn')
      /\ ExactActive(active', generation', phase', laneOf', startedIn')
      /\ ExactQueue(queue', phase', laneOf')
      /\ Ordered(phase', laneOf')
      /\ Conserving(queue', active', maxConcurrent')
      /\ maxConcurrent' = cap
      /\ \A t \in Tasks : phase'[t] # ph[t] => ph[t] = "queued" /\ phase'[t] = "running"
      /\ \A l \in Lanes : active'[l] \ a[l] # {} => Cardinality(active'[l]) <= cap[l]
  BY DrainKeepsExact
<1>2. NewFromNext'
  <2>1. \A t \in Tasks : phase'[t] = "new" <=> t >= nextTask'
    BY <1>1
  <2> QED
    BY <2>1 DEF NewFromNext
<1>3. IInv'
  BY <1>1, <1>2, IInvPartsNext
<1>4. \A t \in Tasks : phase[t] \in Settled => phase'[t] = phase[t]
  BY <1>1 DEF Settled
<1>5. \A l \in Lanes : active'[l] \ active[l] # {} =>
                       Cardinality(active'[l]) <= maxConcurrent'[l]
  BY <1>1
<1> QED
  BY <1>3, <1>4, <1>5 DEF Disciplined

LEMMA EnqueueStep ==
  ASSUME IInv, NEW l \in Lanes, Enqueue(l)
  PROVE  Disciplined
<1> DEFINE q == [queue EXCEPT ![l] = Append(@, nextTask)]
           ph == [phase EXCEPT ![nextTask] = "queued"]
<1>1. /\ nextTask \in Tasks /\ phase[nextTask] = "new"
      /\ laneOf' = [laneOf EXCEPT ![nextTask] = l]
      /\ nextTask' = nextTask + 1 /\ UNCHANGED <<gatewayDraining, waiter>>
      /\ DrainLanes({l}, q, active, maxConcurrent, generation, ph)
  BY LanesAssumption DEF Enqueue, IInv, TypeOK, NewFromNext, Tasks
<1>2. Typed(q, active, maxConcurrent, generation, ph, startedIn)
  BY <1>1 DEF IInv, TypeOK, Typed, Phases
<1>3. ExactActive(active, generation, ph, laneOf', startedIn)
  <2> SUFFICES ASSUME NEW k \in Lanes, NEW t \in Tasks
               PROVE  /\ t \in active[k] <=>
                           ph[t] = "running" /\ laneOf'[t] = k /\ startedIn[t] = generation[k]
                      /\ ph[t] = "running" /\ laneOf'[t] = k => startedIn[t] <= generation[k]
    BY DEF ExactActive, IInv, TypeOK
  <2>1. /\ t \in active[k] <=>
             phase[t] = "running" /\ laneOf[t] = k /\ startedIn[t] = generation[k]
        /\ phase[t] = "running" /\ laneOf[t] = k => startedIn[t] <= generation[k]
    BY DEF IInv, ActiveExact, StartedBefore
  <2> QED
    BY <1>1, <2>1 DEF IInv, TypeOK
<1>4. ExactQueue(q, ph, laneOf')
  <2> SUFFICES ASSUME NEW k \in Lanes
               PROVE  /\ Elems(q[k]) = {t \in Tasks : ph[t] = "queued" /\ laneOf'[t] = k}
                      /\ Increasing(q[k])
    BY DEF ExactQueue
  <2>1. /\ queue[k] \in Seq(Tasks) /\ Increasing(queue[k])
        /\ Elems(queue[k]) = {t \in Tasks : phase[t] = "queued" /\ laneOf[t] = k}
    BY IInvParts DEF ExactQueue, Typed
  <2>2. \A t \in Tasks : /\ ph[t] = "queued" <=> t = nextTask \/ phase[t] = "queued"
                         /\ laneOf'[t] = IF t = nextTask THEN l ELSE laneOf[t]
    BY <1>1 DEF IInv, TypeOK
  <2>3. CASE k # l
    BY <1>1, <2>1, <2>2, <2>3 DEF IInv, TypeOK
  <2>4. CASE k = l
    <3>1. q[k] = Append(queue[k], nextTask)
      BY <2>4 DEF IInv, TypeOK
    <3>2. /\ Len(q[k]) = Len(queue[k]) + 1 /\ Len(queue[k]) \in Nat
          /\ \A i \in 1 .. Len(queue[k]) : q[k][i] = queue[k][i]
          /\ q[k][Len(queue[k]) + 1] = nextTask
      BY <1>1, <2>1, <3>1
    <3>3. Elems(q[k]) = Elems(queue[k]) \cup {nextTask}
      BY <3>2 DEF Elems
    <3>4. \A i \in 1 .. Len(queue[k]) : queue[k][i] \in Tasks /\ queue[k][i] < nextTask
      <4> TAKE i \in 1 .. Len(queue[k])
      <4>1. queue[k][i] \in Tasks /\ phase[queue[k][i]] = "queued"
        BY <2>1 DEF Elems
      <4>2. ~(queue[k][i] >= nextTask)
        BY <4>1 DEF IInv, NewFromNext
      <4> QED
        BY <1>1, <4>1, <4>2, LanesAssumption DEF Tasks
    <3>5. Increasing(q[k])
      BY <2>1, <3>2, <3>4 DEF Increasing
    <3> QED
      BY <1>1, <2>1, <2>2, <2>4, <3>3, <3>5
  <2> QED
    BY <2>3, <2>4
<1>5. ConservingOutside({l}, q, active, maxConcurrent)
  BY DEF IInv, TypeOK, WorkConserving, ConservingOutside
<1>6. \A t \in Tasks : (t = nextTask => ph[t] = "queued") /\ (t # nextTask => ph[t] = phase[t])
  BY <1>1 DEF IInv, TypeOK
<1>12. \A t \in Tasks : laneOf'[t] = IF t = nextTask THEN l ELSE laneOf[t]
  BY <1>1 DEF IInv, TypeOK
<1> HIDE DEF q, ph
<1>13. Ordered(ph, laneOf')
  <2>1. \A t \in Tasks : t \in Int /\ nextTask \in Int /\ (phase[t] = "new" <=> t >= nextTask)
    BY <1>1, LanesAssumption DEF Tasks, IInv, NewFromNext
  <2>2. Ordered(phase, laneOf)
    BY IInvParts
  <2>3. ASSUME NEW t \in Tasks, NEW u \in Tasks, t < u, laneOf'[t] = laneOf'[u],
               ph[t] = "queued"
        PROVE  ph[u] \in {"new", "queued"}
    <3>1. CASE u = nextTask
      BY <1>6, <3>1
    <3>2. CASE u # nextTask /\ t = nextTask
      BY <1>6, <2>1, <2>3, <3>2
    <3>3. CASE u # nextTask /\ t # nextTask
      BY <1>6, <1>12, <2>2, <2>3, <3>3 DEF Ordered
    <3> QED
      BY <3>1, <3>2, <3>3
  <2>4. ASSUME NEW t \in Tasks
        PROVE  /\ ph[t] = "queued" => laneOf'[t] \in Lanes
               /\ ph[t] = "new" => laneOf'[t] = NoLane
    BY <1>6, <1>12, <2>2 DEF Ordered
  <2> QED
    BY <2>3, <2>4 DEF Ordered
<1>d. Drained({l}, q, active, maxConcurrent, generation, ph, startedIn,
              queue', active', maxConcurrent', generation', phase', startedIn')
  BY <1>1 DEF DrainLanes, Drained
<1>7. \A t \in Tasks : ph[t] = "new" <=> t >= nextTask'
  <2> TAKE t \in Tasks
  <2>1. t \in Int /\ nextTask \in Int
    BY <1>1, LanesAssumption DEF Tasks
  <2>2. phase[t] = "new" <=> t >= nextTask
    BY DEF IInv, NewFromNext
  <2> QED
    BY <1>1, <1>6, <2>1, <2>2
<1>8. \A t \in Tasks : phase[t] \in Settled => ph[t] = phase[t]
  BY <1>1, <1>6 DEF Settled
<1>9. nextTask' \in 1 .. MaxTasks + 1
  BY <1>1, LanesAssumption DEF IInv, TypeOK, Tasks
<1>10. laneOf' \in [Tasks -> Lanes \cup {NoLane}]
  BY <1>1 DEF IInv, TypeOK
<1>11. gatewayDraining' \in BOOLEAN /\ waiter' \in WaiterType
  BY <1>1 DEF IInv, TypeOK
<1> QED
  BY <1>d, <1>2, <1>3, <1>4, <1>5, <1>7, <1>8, <1>9, <1>10, <1>11, <1>13, DrainStep

LEMMA SetConcurrencyStep ==
  ASSUME IInv, NEW l \in Lanes, NEW c \in Caps, SetConcurrency(l, c)
  PROVE  Disciplined
<1> DEFINE cap == [maxConcurrent EXCEPT ![l] = Max2(1, c)]
<1>1. /\ Drained({l}, queue, active, cap, generation, phase, startedIn,
                 queue', active', maxConcurrent', generation', phase', startedIn')
      /\ UNCHANGED <<gatewayDraining, nextTask, laneOf, waiter>>
  BY DEF SetConcurrency, DrainLanes, Drained
<1>2. cap \in [Lanes -> Nat \ {0}]
  <2>1. Max2(1, c) \in Nat \ {0}
    BY LanesAssumption DEF Max2
  <2> QED
    BY <2>1 DEF IInv, TypeOK
<1>3. ConservingOutside({l}, queue, active, cap)
  BY DEF IInv, TypeOK, WorkConserving, ConservingOutside
<1> HIDE DEF cap
<1>4. Typed(queue, active, cap, generation, phase, startedIn)
  BY <1>2 DEF IInv, TypeOK, Typed
<1>5. /\ ExactActive(active, generation, phase, laneOf', startedIn)
      /\ ExactQueue(queue, phase, laneOf')
      /\ Ordered(phase, laneOf')
  BY <1>1, IInvParts
<1>6. \A t \in Tasks : phase[t] = "new" <=> t >= nextTask'
  BY <1>1 DEF IInv, NewFromNext
<1>7. /\ nextTask' \in 1 .. MaxTasks + 1 /\ waiter' \in WaiterType
      /\ laneOf' \in [Tasks -> Lanes \cup {NoLane}] /\ gatewayDraining' \in BOOLEAN
  BY <1>1 DEF IInv, TypeOK
<1> QED
  BY <1>1, <1>3, <1>4, <1>5, <1>6, <1>7, DrainStep

LEMMA ResetAllStep ==
  ASSUME IInv, ResetAll
  PROVE  Disciplined
<1> DEFINE D == {l \in Lanes : queue[l] # <<>>}
           a == [l \in Lanes |-> {}]
           g == [l \in Lanes |-> generation[l] + 1]
<1>1. /\ Drained(D, queue, a, maxConcurrent, g, phase, startedIn,
                 queue', active', maxConcurrent', generation', phase', startedIn')
      /\ UNCHANGED <<nextTask, laneOf>>
      /\ gatewayDraining' = FALSE /\ waiter' = [status |-> "idle", ids |-> {}]
  BY DEF ResetAll, DrainLanes, Drained
<1>2. Typed(queue, a, maxConcurrent, g, phase, startedIn)
  BY DEF IInv, TypeOK, Typed
<1>3. ExactActive(a, g, phase, laneOf', startedIn)
  <2>1. ASSUME NEW l \in Lanes, NEW t \in Tasks, phase[t] = "running", laneOf[t] = l
        PROVE  startedIn[t] < g[l] /\ startedIn[t] <= g[l] /\ startedIn[t] # g[l]
    <3>1. startedIn[t] <= generation[l]
      BY <2>1 DEF IInv, StartedBefore
    <3> QED
      BY <3>1 DEF IInv, TypeOK
  <2>2. \A l \in Lanes : a[l] = {}
    OBVIOUS
  <2> HIDE DEF a, g
  <2> QED
    BY <1>1, <2>1, <2>2 DEF ExactActive
<1>4. ConservingOutside(D, queue, a, maxConcurrent)
  BY DEF ConservingOutside
<1>5. \A l \in Lanes : a[l] \subseteq active[l]
  OBVIOUS
<1> HIDE DEF D, a, g
<1>6. ExactQueue(queue, phase, laneOf') /\ Ordered(phase, laneOf')
  BY <1>1, IInvParts
<1>7. \A t \in Tasks : phase[t] = "new" <=> t >= nextTask'
  BY <1>1 DEF IInv, NewFromNext
<1>8. /\ nextTask' \in 1 .. MaxTasks + 1 /\ waiter' \in WaiterType
      /\ laneOf' \in [Tasks -> Lanes \cup {NoLane}] /\ gatewayDraining' \in BOOLEAN
  BY <1>1 DEF IInv, TypeOK, WaiterType
<1> QED
  BY <1>1, <1>2, <1>3, <1>4, <1>5, <1>6, <1>7, <1>8, DrainStep

LEMMA FinishStep ==
  ASSUME IInv, NEW t \in Tasks, NEW o \in {"resolved", "rejected"}, Finish(t, o)
  PROVE  Disciplined
<1> DEFINE l == laneOf[t]
           a == [active EXCEPT ![l] = @ \ {t}]
           ph == [phase EXCEPT ![t] = o]
<1>1. /\ phase[t] = "running" /\ UNCHANGED <<gatewayDraining, nextTask, laneOf, waiter>>
      /\ \A u \in Tasks : ph[u] = IF u = t THEN o ELSE phase[u]
      /\ ph \in [Tasks -> Phases]
  BY DEF Finish, IInv, TypeOK, Phases
<1>2. /\ nextTask' \in 1 .. MaxTasks + 1 /\ waiter' \in WaiterType
      /\ laneOf' \in [Tasks -> Lanes \cup {NoLane}] /\ gatewayDraining' \in BOOLEAN
  BY <1>1 DEF IInv, TypeOK
<1>3. \A u \in Tasks : ph[u] = "new" <=> u >= nextTask'
  BY <1>1 DEF IInv, NewFromNext
<1>4. \A u \in Tasks : phase[u] \in Settled => ph[u] = phase[u]
  BY <1>1 DEF Settled
<1>5. ExactQueue(queue, ph, laneOf')
  <2>1. \A u \in Tasks : ph[u] = "queued" <=> phase[u] = "queued"
    BY <1>1
  <2>2. ExactQueue(queue, phase, laneOf)
    BY IInvParts
  <2> QED
    BY <1>1, <2>1, <2>2 DEF ExactQueue
<1>6. \A k \in Lanes, u \in Tasks :
        /\ u \in active[k] <=>
             phase[u] = "running" /\ laneOf[u] = k /\ startedIn[u] = generation[k]
        /\ phase[u] = "running" /\ laneOf[u] = k => startedIn[u] <= generation[k]
  BY DEF IInv, ActiveExact, StartedBefore
<1>9. Ordered(ph, laneOf')
  <2>1. Ordered(phase, laneOf)
    BY IInvParts
  <2>2. o # "queued" /\ o # "new"
    OBVIOUS
  <2> HIDE DEF ph
  <2> QED
    BY <1>1, <2>1, <2>2 DEF Ordered
<1>7. CASE startedIn[t] = generation[l]
  <2>1. Drained({l}, queue, a, maxConcurrent, generation, ph, startedIn,
                queue', active', maxConcurrent', generation', phase', startedIn')
    BY <1>7 DEF Finish, DrainLanes, Drained
  <2>2. \A k \in Lanes : a[k] = IF k = l THEN active[k] \ {t} ELSE active[k]
    BY DEF IInv, TypeOK
  <2>3. a \in [Lanes -> SUBSET Tasks]
    BY DEF IInv, TypeOK
  <2> HIDE DEF ph, a
  <2>4. Typed(queue, a, maxConcurrent, generation, ph, startedIn)
    BY <1>1, <2>3 DEF IInv, TypeOK, Typed
  <2>5. ExactActive(a, generation, ph, laneOf', startedIn)
    <3>1. ASSUME NEW k \in Lanes, NEW u \in Tasks
          PROVE  /\ u \in a[k] <=> u \in active[k] /\ u # t
                 /\ ph[u] = "running" <=> phase[u] = "running" /\ u # t
      <4>1. u \in a[k] <=> u \in active[k] /\ ~(k = l /\ u = t)
        BY <2>2
      <4>2. t \in active[k] => k = l
        BY <1>6
      <4>3. ph[u] = "running" <=> phase[u] = "running" /\ u # t
        BY <1>1
      <4> QED
        BY <4>1, <4>2, <4>3
    <3>2. \A k \in Lanes : a[k] \subseteq Tasks
      BY <2>3
    <3> QED
      BY <1>1, <1>6, <3>1, <3>2 DEF ExactActive
  <2>6. ConservingOutside({l}, queue, a, maxConcurrent)
    BY <2>2 DEF IInv, WorkConserving, ConservingOutside
  <2>7. \A k \in Lanes : a[k] \subseteq active[k]
    BY <2>2
  <2> QED
    BY <1>2, <1>3, <1>4, <1>5, <1>9, <2>1, <2>4, <2>5, <2>6, <2>7, DrainStep
<1>8. CASE startedIn[t] # generation[l]
  <2>1. phase' = ph /\ UNCHANGED <<queue, active, maxConcurrent, generation, startedIn>>
    BY <1>8 DEF Finish
  <2> HIDE DEF ph
  <2>2. Typed(queue', active', maxConcurrent', generation', phase', startedIn')
    BY <1>1, <2>1 DEF IInv, TypeOK, Typed
  <2>3. ExactActive(active', generation', phase', laneOf', startedIn')
    <3> SUFFICES ASSUME NEW k \in Lanes, NEW u \in Tasks
                 PROVE  /\ u \in active[k] <=>
                             ph[u] = "running" /\ laneOf[u] = k /\ startedIn[u] = generation[k]
                        /\ ph[u] = "running" /\ laneOf[u] = k => startedIn[u] <= generation[k]
      BY <1>1, <2>1 DEF ExactActive, IInv, TypeOK
    <3>1. CASE u = t
      BY <1>1, <1>6, <1>8, <3>1
    <3>2. CASE u # t
      BY <1>1, <1>6, <3>2
    <3> QED
      BY <3>1, <3>2
  <2>4. ExactQueue(queue', phase', laneOf')
    BY <1>5, <2>1
  <2>5. Conserving(queue', active', maxConcurrent')
    BY <2>1, IInvParts
  <2>6. NewFromNext'
    BY <1>3, <2>1 DEF NewFromNext
  <2>7. Ordered(phase', laneOf')
    BY <1>9, <2>1
  <2>8. IInv'
    BY <1>2, <2>2, <2>3, <2>4, <2>5, <2>6, <2>7, IInvPartsNext
  <2> QED
    BY <1>4, <2>1, <2>8 DEF Disciplined
<1> QED
  BY <1>7, <1>8

LEMMA ClearStep ==
  ASSUME IInv, NEW l \in Lanes, Clear(l)
  PROVE  Disciplined
<1>1. /\ queue' = [queue EXCEPT ![l] = <<>>]
      /\ phase' = [t \in Tasks |-> IF t \in Elems(queue[l]) THEN "cleared" ELSE phase[t]]
      /\ UNCHANGED <<gatewayDraining, active, maxConcurrent, generation,
                     nextTask, laneOf, startedIn, waiter>>
  BY DEF Clear, Elems
<1>2. \A k \in Lanes :
        /\ Elems(queue[k]) = {t \in Tasks : phase[t] = "queued" /\ laneOf[t] = k}
        /\ Increasing(queue[k])
  BY IInvParts DEF ExactQueue
<1>3. \A t \in Tasks : phase'[t] = IF phase[t] = "queued" /\ laneOf[t] = l
                                   THEN "cleared" ELSE phase[t]
  BY <1>1, <1>2
<1>4. Typed(queue', active', maxConcurrent', generation', phase', startedIn')
  <2>1. queue' \in [Lanes -> Seq(Tasks)]
    BY <1>1 DEF IInv, TypeOK
  <2>2. phase' \in [Tasks -> Phases]
    BY <1>1 DEF IInv, TypeOK, Phases
  <2> QED
    BY <1>1, <2>1, <2>2 DEF IInv, TypeOK, Typed
<1>5. ExactActive(active', generation', phase', laneOf', startedIn')
  <2>1. \A t \in Tasks : phase'[t] = "running" <=> phase[t] = "running"
    BY <1>3
  <2> QED
    BY <1>1, <2>1 DEF ExactActive, IInv, ActiveExact, StartedBefore
<1>6. ExactQueue(queue', phase', laneOf')
  <2> SUFFICES ASSUME NEW k \in Lanes
               PROVE  /\ Elems(queue'[k]) = {t \in Tasks : phase'[t] = "queued" /\ laneOf[t] = k}
                      /\ Increasing(queue'[k])
    BY <1>1 DEF ExactQueue
  <2>1. CASE k = l
    <3>1. queue'[k] = <<>>
      BY <1>1, <2>1 DEF IInv, TypeOK
    <3>2. Elems(queue'[k]) = {} /\ Increasing(queue'[k])
      BY <3>1 DEF Elems, Increasing
    <3> QED
      BY <1>3, <2>1, <3>2
  <2>2. CASE k # l
    <3>1. queue'[k] = queue[k]
      BY <1>1, <2>2 DEF IInv, TypeOK
    <3>2. \A t \in Tasks : phase'[t] = "queued" /\ laneOf[t] = k
                             <=> phase[t] = "queued" /\ laneOf[t] = k
      BY <1>3, <2>2
    <3> QED
      BY <1>2, <3>1, <3>2
  <2> QED
    BY <2>1, <2>2
<1>7. Conserving(queue', active', maxConcurrent')
  <2>1. \A k \in Lanes : queue'[k] # <<>> => queue'[k] = queue[k]
    BY <1>1 DEF IInv, TypeOK
  <2> QED
    BY <1>1, <2>1 DEF Conserving, IInv, WorkConserving
<1>8. NewFromNext'
  BY <1>1, <1>3 DEF IInv, NewFromNext
<1>9. Ordered(phase', laneOf')
  <2>1. Ordered(phase, laneOf)
    BY IInvParts
  <2> QED
    BY <1>1, <1>3, <2>1 DEF Ordered
<1>10. IInv'
  BY <1>1, <1>4, <1>5, <1>6, <1>7, <1>8, <1>9, IInvPartsNext DEF IInv, TypeOK
<1> QED
  BY <1>1, <1>3, <1>10 DEF Disciplined, Settled

(* Steps that start, end and move no task. *)
LEMMA OtherStep ==
  ASSUME IInv, Refuse \/ BeginDrain \/ (\E e \in BOOLEAN : WaitPoll(e)) \/ UNCHANGED vars
  PROVE  Disciplined
<1>1. UNCHANGED <<queue, active, maxConcurrent, generation, laneOf, startedIn>>
  BY DEF Refuse, BeginDrain, WaitPoll, vars
<1>2. /\ \A t \in Tasks : phase'[t] # phase[t] => phase[t] = "new" /\ phase'[t] = "refused"
      /\ phase' \in [Tasks -> Phases]
      /\ nextTask' \in 1 .. MaxTasks + 1
      /\ NewFromNext'
  <2>1. CASE Refuse
    <3>1. /\ nextTask \in Tasks /\ nextTask' = nextTask + 1
          /\ phase' = [phase EXCEPT ![nextTask] = "refused"]
          /\ nextTask \in Int /\ nextTask <= MaxTasks
      BY <2>1, LanesAssumption DEF Refuse, IInv, TypeOK, Tasks
    <3>2. phase[nextTask] = "new" /\ \A t \in Tasks : phase[t] = "new" <=> t >= nextTask
      BY <3>1 DEF IInv, NewFromNext
    <3>3. \A t \in Tasks : phase'[t] = IF t = nextTask THEN "refused" ELSE phase[t]
      BY <3>1 DEF IInv, TypeOK
    <3>4. \A t \in Tasks : t \in Int
      BY LanesAssumption DEF Tasks
    <3>5. NewFromNext'
      BY <3>1, <3>2, <3>3, <3>4 DEF NewFromNext
    <3>6. nextTask' \in 1 .. MaxTasks + 1
      BY <3>1, LanesAssumption DEF Tasks
    <3>7. phase' \in [Tasks -> Phases]
      BY <3>1 DEF IInv, TypeOK, Phases
    <3> QED
      BY <3>2, <3>3, <3>5, <3>6, <3>7
  <2>2. CASE ~Refuse
    <3>1. UNCHANGED <<phase, nextTask>>
      BY <2>2 DEF BeginDrain, WaitPoll, vars
    <3> QED
      BY <3>1 DEF IInv, TypeOK, NewFromNext
  <2> QED
    BY <2>1, <2>2
<1>3. waiter' \in WaiterType /\ gatewayDraining' \in BOOLEAN
  <2>1. CASE BeginDrain
    <3>1. (UNION {active[l] : l \in Lanes}) \in SUBSET Tasks
      BY DEF IInv, TypeOK
    <3> QED
      BY <2>1, <3>1 DEF BeginDrain, WaiterType
  <2>2. CASE ~BeginDrain
    BY <2>2 DEF IInv, TypeOK, WaiterType, Refuse, WaitPoll, vars
  <2> QED
    BY <2>1, <2>2
<1>4. Typed(queue', active', maxConcurrent', generation', phase', startedIn')
  BY <1>1, <1>2 DEF IInv, TypeOK, Typed
<1>5. \A t \in Tasks : /\ phase'[t] = "running" <=> phase[t] = "running"
                       /\ phase'[t] = "queued" <=> phase[t] = "queued"
  BY <1>2
<1>6. ExactActive(active', generation', phase', laneOf', startedIn')
  BY <1>1, <1>5 DEF ExactActive, IInv, ActiveExact, StartedBefore
<1>7. ExactQueue(queue', phase', laneOf')
  <2>1. ExactQueue(queue, phase, laneOf)
    BY IInvParts
  <2> QED
    BY <1>1, <1>5, <2>1 DEF ExactQueue
<1>8. Conserving(queue', active', maxConcurrent')
  BY <1>1, IInvParts
<1>9. laneOf' \in [Tasks -> Lanes \cup {NoLane}]
  BY <1>1 DEF IInv, TypeOK
<1>10. Ordered(phase', laneOf')
  <2>1. Ordered(phase, laneOf) /\ NoLane \notin Lanes
    BY IInvParts, LanesAssumption
  <2> QED
    BY <1>1, <1>2, <1>5, <2>1 DEF Ordered
<1>11. IInv'
  BY <1>2, <1>3, <1>4, <1>6, <1>7, <1>8, <1>9, <1>10, IInvPartsNext
<1> QED
  BY <1>1, <1>2, <1>11 DEF Disciplined, Settled

LEMMA NextDisciplined ==
  ASSUME IInv, [Next]_vars
  PROVE  Disciplined
<1>1. ASSUME NEW l \in Lanes, Enqueue(l) PROVE Disciplined
  BY <1>1, EnqueueStep
<1>2. ASSUME NEW t \in Tasks, NEW o \in {"resolved", "rejected"}, Finish(t, o)
      PROVE  Disciplined
  BY <1>2, FinishStep
<1>3. ASSUME NEW l \in Lanes, NEW c \in Caps, SetConcurrency(l, c) PROVE Disciplined
  BY <1>3, SetConcurrencyStep
<1>4. ASSUME NEW l \in Lanes, Clear(l) PROVE Disciplined
  BY <1>4, ClearStep
<1>5. CASE ResetAll
  BY <1>5, ResetAllStep
<1>6. CASE Refuse \/ BeginDrain \/ (\E e \in BOOLEAN : WaitPoll(e)) \/ UNCHANGED vars
  BY <1>6, OtherStep
<1> QED
  BY <1>1, <1>2, <1>3, <1>4, <1>5, <1>6 DEF Next

-----------------------------------------------------------------------------
(* The theorems. *)

LEMMA IInvHolds == Spec => []IInv
<1>1. IInv /\ [Next]_vars => IInv'
  BY NextDisciplined DEF Disciplined
<1> QED
  BY <1>1, InitIInv, PTL DEF Spec

(* Every variable of the lanes keeps its type. *)
THEOREM TypeCorrect == Spec => []TypeOK
<1>1. IInv => TypeOK
  BY DEF IInv
<1> QED
  BY <1>1, IInvHolds, PTL

(* activeTaskIds never drifts from the tasks that execute: restarts,       *)
(* errors and late completions leave no slot leaked and none freed twice.  *)
THEOREM ActiveIsExact == Spec => []ActiveExact
<1>1. IInv => ActiveExact
  BY DEF IInv
<1> QED
  BY <1>1, IInvHolds, PTL

(* No entry is lost, duplicated or reordered inside a lane. *)
THEOREM QueueIsExact == Spec => []QueueExact
<1>1. IInv => QueueExact
  BY DEF IInv
<1> QED
  BY <1>1, IInvHolds, PTL

(* Tasks of a lane start in submission order. *)
THEOREM StartsInOrder == Spec => []NoOvertaking
<1>1. IInv => NoOvertaking
  BY DEF IInv
<1> QED
  BY <1>1, IInvHolds, PTL

(* While an entry waits, its lane is full: the pump never misses a wakeup. *)
THEOREM NeverIdleOnWork == Spec => []WorkConserving
<1>1. IInv => WorkConserving
  BY DEF IInv
<1> QED
  BY <1>1, IInvHolds, PTL

(* The restart drain: as long as it waits, each task of its snapshot is     *)
(* settled or still holds its slot.  The generation of a lane cannot change *)
(* meanwhile, since resetAllLanes is reached only when the wait is over.    *)
WaiterInv ==
  /\ waiter.status = "waiting" =>
       \A t \in waiter.ids : phase[t] \in Settled \/ \E l \in Lanes : t \in active[l]
  /\ DrainedIsHonest

(* A slot is only given up by a task that settles, or by a reset. *)
LEMMA SlotsKept ==
  ASSUME IInv, [Next]_vars, ~ResetAll, NEW l \in Lanes, NEW t \in active[l]
  PROVE  t \in active'[l] \/ phase'[t] \in Settled
<1>1. ASSUME NEW k \in Lanes, Enqueue(k) PROVE t \in active'[l]
  BY <1>1 DEF Enqueue, DrainLanes
<1>2. ASSUME NEW k \in Lanes, NEW c \in Caps, SetConcurrency(k, c) PROVE t \in active'[l]
  BY <1>2 DEF SetConcurrency, DrainLanes
<1>3. ASSUME NEW u \in Tasks, NEW o \in {"resolved", "rejected"}, Finish(u, o)
      PROVE  t \in active'[l] \/ phase'[t] \in Settled
  <2>1. CASE t # u
    BY <1>3, <2>1 DEF Finish, DrainLanes, IInv, TypeOK
  <2>2. CASE t = u
    <3>1. phase[u] = "running" /\ \A k \in Lanes : ~(u \in Elems(queue[k]))
      BY <1>3, IInvParts DEF Finish, ExactQueue
    <3>2. phase'[u] = o
      <4>1. CASE startedIn[u] = generation[laneOf[u]]
        <5> DEFINE k == laneOf[u]
                   a == [active EXCEPT ![k] = @ \ {u}]
                   S == [j \in Lanes |->
                          IF j = k THEN Started(queue[j], a[j], maxConcurrent[j]) ELSE {}]
        <5>1. \A j \in Lanes : u \notin S[j]
          <6> TAKE j \in Lanes
          <6>1. /\ queue[j] \in Seq(Tasks) /\ a[j] \in SUBSET Tasks
                /\ maxConcurrent[j] \in Nat /\ Increasing(queue[j])
            BY IInvParts DEF ExactQueue, Typed
          <6> HIDE DEF a
          <6>2. Started(queue[j], a[j], maxConcurrent[j]) \subseteq Elems(queue[j])
            BY <6>1, PumpPartition
          <6> QED
            BY <3>1, <6>2
        <5>2. phase' = [v \in Tasks |-> IF \E j \in Lanes : v \in S[j] THEN "running"
                                        ELSE [phase EXCEPT ![u] = o][v]]
          BY <1>3, <4>1 DEF Finish, DrainLanes
        <5> HIDE DEF S
        <5> QED
          BY <5>1, <5>2 DEF IInv, TypeOK
      <4>2. CASE startedIn[u] # generation[laneOf[u]]
        BY <1>3, <4>2 DEF Finish, IInv, TypeOK
      <4> QED
        BY <4>1, <4>2
    <3> QED
      BY <2>2, <3>2 DEF Settled
  <2> QED
    BY <2>1, <2>2
<1>4. CASE \/ Refuse \/ BeginDrain \/ (\E e \in BOOLEAN : WaitPoll(e))
           \/ (\E k \in Lanes : Clear(k)) \/ UNCHANGED vars
  BY <1>4 DEF Refuse, BeginDrain, WaitPoll, Clear, vars
<1> QED
  BY <1>1, <1>2, <1>3, <1>4 DEF Next

LEMMA WaiterStep ==
  ASSUME IInv, WaiterInv, [Next]_vars
  PROVE  WaiterInv'
<1>1. Disciplined
  BY NextDisciplined
<1>2. \A t \in Tasks : phase[t] \in Settled => phase'[t] \in Settled
  BY <1>1 DEF Disciplined
<1>3. waiter.ids \subseteq Tasks
  BY DEF IInv, TypeOK, WaiterType
<1>4. CASE ResetAll
  <2>1. waiter' = [status |-> "idle", ids |-> {}]
    BY <1>4 DEF ResetAll
  <2> QED
    BY <2>1 DEF WaiterInv, DrainedIsHonest
<1>5. CASE BeginDrain
  <2>1. /\ waiter'.status \in {"idle", "waiting"}
        /\ waiter'.ids = UNION {active[l] : l \in Lanes}
        /\ active' = active /\ phase' = phase
    BY <1>5 DEF BeginDrain
  <2> QED
    BY <2>1 DEF WaiterInv, DrainedIsHonest
<1>6. ASSUME NEW e \in BOOLEAN, WaitPoll(e) PROVE WaiterInv'
  <2>1. /\ waiter.status = "waiting" /\ active' = active /\ phase' = phase
        /\ waiter'.ids = waiter.ids
        /\ waiter'.status \in {"expired", "drained"}
        /\ waiter'.status = "drained" => \A l \in Lanes : active[l] \cap waiter.ids = {}
    BY <1>6 DEF WaitPoll, IInv, TypeOK, WaiterType
  <2> QED
    BY <2>1 DEF WaiterInv, DrainedIsHonest
<1>7. CASE ~ResetAll /\ waiter' = waiter
  <2>1. \A l \in Lanes : \A t \in active[l] : t \in active'[l] \/ phase'[t] \in Settled
    BY <1>7, SlotsKept
  <2> QED
    BY <1>2, <1>3, <1>7, <2>1 DEF WaiterInv, DrainedIsHonest
<1>8. CASE ~ResetAll /\ ~BeginDrain /\ ~(\E e \in BOOLEAN : WaitPoll(e))
  <2>1. waiter' = waiter
    BY <1>8 DEF Next, vars, Refuse, Enqueue, Finish, SetConcurrency, Clear
  <2> QED
    BY <1>7, <1>8, <2>1
<1> QED
  BY <1>4, <1>5, <1>6, <1>8

(* A drain reported as complete is one: every task that was executing when  *)
(* the wait began has settled.                                             *)
THEOREM DrainIsHonest == Spec => []DrainedIsHonest
<1>1. Init => WaiterInv
  BY DEF Init, WaiterInv, DrainedIsHonest
<1>2. IInv /\ WaiterInv /\ [Next]_vars => WaiterInv'
  BY WaiterStep
<1>3. WaiterInv => DrainedIsHonest
  BY DEF WaiterInv
<1> QED
  BY <1>1, <1>2, <1>3, IInvHolds, PTL DEF Spec

(* No step takes a lane above its limit by starting a task. *)
THEOREM StartsRespectCap == Spec => StartsWithinCap
<1>1. IInv /\ [Next]_vars =>
        [\A l \in Lanes :
           active'[l] \ active[l] # {} =>
             Cardinality(active'[l]) <= maxConcurrent'[l]]_vars
  BY NextDisciplined DEF Disciplined
<1> QED
  BY <1>1, IInvHolds, PTL DEF Spec, StartsWithinCap

(* A promise settles once. *)
THEOREM OutcomesAreFinal == Spec => SettledForGood
<1>1. IInv /\ [Next]_vars =>
        [\A t \in Tasks : phase[t] \in Settled => phase'[t] = phase[t]]_vars
  BY NextDisciplined DEF Disciplined
<1> QED
  BY <1>1, IInvHolds, PTL DEF Spec, SettledForGood
=============================================================================
