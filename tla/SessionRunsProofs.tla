-------------------------- MODULE SessionRunsProofs --------------------------
(***************************************************************************)
(* The two lanes of SessionRuns agree, for any runs, sessions, limits and  *)
(* restarts: of the runs of a session at most one is under way, and the    *)
(* session slot is held from the hand-over to the end of the run.          *)
(***************************************************************************)
EXTENDS SessionRuns, FiniteSetTheorems, WellFoundedInduction, TLAPS

Phases == {"new", "queued", "running"} \cup Ended
GlobalLanes == {"main", "cron", "nested"}

(* The lane a task is enqueued in. *)
Home(t) ==
  CASE t[1] = "session" -> SessionOf[t[2]]
    [] t[1] = "global"  -> GlobalLane(t[2])
    [] t[1] = "job"     -> "cron"

PhaseMaps == [Tasks -> Phases]
StartMaps == [Tasks -> Nat]

LaneState ==
  [queue     : [Lanes -> Seq(Tasks)],
   active    : [Lanes -> SUBSET Tasks],
   phase     : [Tasks -> Phases],
   startedIn : [Tasks -> Nat]]

(* The entries of a queue are the queued tasks of the lane, each once.     *)
QueueOK(st, l) ==
  /\ \A i \in 1 .. Len(st.queue[l]) :
       /\ Home(st.queue[l][i]) = l
       /\ st.phase[st.queue[l][i]] = "queued"
  /\ \A i, k \in 1 .. Len(st.queue[l]) : st.queue[l][i] = st.queue[l][k] => i = k

(* The slots of a lane are held by the running tasks that started in it    *)
(* since the last reset, which was the e-th.                               *)
ActiveOK(st, l, e) ==
  /\ IsFiniteSet(st.active[l])
  /\ \A t \in st.active[l] : Home(t) = l /\ st.phase[t] = "running" /\ st.startedIn[t] = e

RunningOK(st, t, e) ==
  /\ st.startedIn[t] <= e
  /\ st.phase[t] = "running" /\ st.startedIn[t] = e => t \in st.active[Home(t)]

(* A session lane has one slot, and uses it. *)
SlotOK(st, s) == \A t, u \in st.active[s] : t = u
BusyOK(st, s) == st.queue[s] # <<>> => st.active[s] # {}

(* A run is handed over when its session task starts, and the session task *)
(* outlives it.                                                            *)
BeforeOK(st, r) ==
  /\ st.phase[Outer(r)] \in {"new", "queued"} => st.phase[Inner(r)] = "new"
  /\ st.phase[Inner(r)] \in {"queued", "running"} => st.phase[Outer(r)] = "running"
HandedOK(st, r) == st.phase[Outer(r)] = "running" => st.phase[Inner(r)] # "new"

(* The lanes after e resets, when the sessions of Y are still to be pumped *)
(* and the runs of X still to be handed over.                              *)
Flow(st, e) ==
  /\ st \in LaneState
  /\ \A l \in Lanes : QueueOK(st, l) /\ ActiveOK(st, l, e)
  /\ \A t \in Tasks : RunningOK(st, t, e)

Core(st, e, X, Y) ==
  /\ Flow(st, e)
  /\ \A s \in Sessions : SlotOK(st, s)
  /\ \A s \in Sessions \ Y : BusyOK(st, s)
  /\ \A r \in Runs : BeforeOK(st, r)
  /\ \A r \in Runs \ X : HandedOK(st, r)

IInv == epoch \in Nat /\ Core(lanes, epoch, {}, {})

-----------------------------------------------------------------------------
(* Folds. *)

(* f computes the fold of PumpedAny over the elements of seq with indices  *)
(* in D.                                                                   *)
Iterates(f, st, seq, D) ==
  f = [s \in SUBSET D |-> IF s = {} THEN st
                          ELSE PumpedAny(f[s \ {Max(s)}], seq[Max(s)])]

LEMMA FoldUnfolds ==
  ASSUME NEW st, NEW seq
  PROVE  FoldLeft(PumpedAny, st, seq)
           = (CHOOSE f : Iterates(f, st, seq, DOMAIN seq))[DOMAIN seq]
BY DEF FoldLeft, MapThenFoldSet, Iterates

LEMMA MaxUpTo ==
  ASSUME NEW n \in Nat, NEW s \in SUBSET (1 .. n), n \in s
  PROVE  Max(s) = n
<1>1. n \in Int /\ \A y \in s : y <= n
  OBVIOUS
<1>2. \A x \in s : (\A y \in s : y <= x) => x = n
  BY <1>1
<1> QED
  BY <1>1, <1>2 DEF Max

-----------------------------------------------------------------------------
(* Tasks and lanes. *)

LEMMA LaneFacts ==
  /\ Lanes = Sessions \cup GlobalLanes
  /\ \A s \in Sessions : s \notin GlobalLanes
  /\ \A r \in Runs : SessionOf[r] \in Sessions /\ GlobalLane(r) \in {"main", "nested"}
  /\ \A l \in Lanes : Cap(l) \in Nat \ {0}
  /\ \A s \in Sessions : Cap(s) = 1
BY SessionRunsAssumption DEF Lanes, GlobalLanes, GlobalLane, ResolveGlobalLane, Cap

LEMMA TaskFacts ==
  /\ \A r \in Runs : /\ Outer(r) \in Tasks /\ Inner(r) \in Tasks
                     /\ Home(Outer(r)) = SessionOf[r] /\ Home(Inner(r)) = GlobalLane(r)
  /\ \A r \in CronRuns : Job(r) \in Tasks /\ Home(Job(r)) = "cron" /\ r \in Runs
  /\ \A r, q \in Runs : /\ Outer(r) # Inner(q) /\ Outer(r) # Job(q) /\ Inner(r) # Job(q)
                        /\ Outer(r) = Outer(q) => r = q
                        /\ Inner(r) = Inner(q) => r = q
BY SessionRunsAssumption DEF Outer, Inner, Job, Tasks, Home

LEMMA TaskCases ==
  ASSUME NEW t \in Tasks
  PROVE  \/ \E r \in Runs : t = Outer(r) \/ t = Inner(r)
         \/ \E r \in CronRuns : t = Job(r)
<1>1. CASE t \in {"session", "global"} \X Runs
  <2>1. t = <<t[1], t[2]>> /\ t[1] \in {"session", "global"} /\ t[2] \in Runs
    BY <1>1
  <2> QED
    BY <2>1 DEF Outer, Inner
<1>2. CASE t \in {"job"} \X CronRuns
  <2>1. t = <<t[1], t[2]>> /\ t[1] = "job" /\ t[2] \in CronRuns
    BY <1>2
  <2> QED
    BY <2>1 DEF Job
<1> QED
  BY <1>1, <1>2 DEF Tasks

LEMMA HomeIsLane == \A t \in Tasks : Home(t) \in Lanes
<1> SUFFICES ASSUME NEW t \in Tasks PROVE Home(t) \in Lanes
  OBVIOUS
<1> QED
  BY TaskCases, TaskFacts, LaneFacts DEF GlobalLanes

(* The tasks of a session lane. *)
LEMMA SessionTask ==
  ASSUME NEW t \in Tasks, Home(t) \in Sessions
  PROVE  \E r \in Runs : t = Outer(r) /\ SessionOf[r] = Home(t)
BY TaskCases, TaskFacts, LaneFacts DEF GlobalLanes

LEMMA GlobalTask ==
  ASSUME NEW t \in Tasks, Home(t) \in GlobalLanes, NEW r \in Runs
  PROVE  t # Outer(r)
BY TaskFacts, LaneFacts

-----------------------------------------------------------------------------
(* Operations on one lane. *)

LEMMA StartCountRange ==
  ASSUME NEW q \in Seq(Tasks), NEW a, IsFiniteSet(a), NEW cap \in Nat
  PROVE  /\ StartCount(q, a, cap) \in 0 .. Len(q)
         /\ cap = 1 /\ a # {} => StartCount(q, a, cap) = 0
         /\ cap = 1 /\ a = {} /\ q # <<>> => StartCount(q, a, cap) = 1
<1>1. Cardinality(a) \in Nat /\ Len(q) \in Nat
  BY FS_CardinalityType
<1>2. a = {} => Cardinality(a) = 0
  BY FS_EmptySet
<1>3. a # {} => Cardinality(a) >= 1
  BY <1>1, FS_EmptySet
<1>4. q # <<>> => Len(q) >= 1
  BY <1>1
<1> DEFINE c == Cardinality(a)
           n == Len(q)
<1>5. StartCount(q, a, cap) = Min2(n, Max2(0, cap - c))
  BY DEF StartCount
<1>6. c \in Nat /\ n \in Nat
  BY <1>1
<1>7. (a = {} => c = 0) /\ (a # {} => c >= 1) /\ (q # <<>> => n >= 1)
  BY <1>2, <1>3, <1>4
<1> HIDE DEF c, n
<1>8. Min2(n, Max2(0, cap - c)) \in 0 .. n
  BY <1>6 DEF Min2, Max2
<1>9. cap = 1 /\ c >= 1 => Min2(n, Max2(0, cap - c)) = 0
  BY <1>6 DEF Min2, Max2
<1>10. cap = 1 /\ c = 0 /\ n >= 1 => Min2(n, Max2(0, cap - c)) = 1
  BY <1>6 DEF Min2, Max2
<1> QED
  BY <1>5, <1>7, <1>8, <1>9, <1>10 DEF n

(* st with lane l and the tasks' records set anew. *)
With(st, l, q, a, p, d) ==
  [st EXCEPT !.queue[l] = q, !.active[l] = a, !.phase = p, !.startedIn = d]

LEMMA WithIs ==
  ASSUME NEW st \in LaneState, NEW l \in Lanes, NEW q \in Seq(Tasks), NEW a \in SUBSET Tasks,
         NEW p \in PhaseMaps, NEW d \in StartMaps
  PROVE  /\ With(st, l, q, a, p, d) \in LaneState
         /\ With(st, l, q, a, p, d).queue[l] = q
         /\ With(st, l, q, a, p, d).active[l] = a
         /\ With(st, l, q, a, p, d).phase = p
         /\ With(st, l, q, a, p, d).startedIn = d
         /\ \A k \in Lanes \ {l} : /\ With(st, l, q, a, p, d).queue[k] = st.queue[k]
                                  /\ With(st, l, q, a, p, d).active[k] = st.active[k]
<1> DEFINE w == With(st, l, q, a, p, d)
           Q == [st.queue EXCEPT ![l] = q]
           A == [st.active EXCEPT ![l] = a]
<1>1. Q \in [Lanes -> Seq(Tasks)] /\ A \in [Lanes -> SUBSET Tasks]
  BY DEF LaneState
<1>2. w = [st EXCEPT !.queue = Q, !.active = A, !.phase = p, !.startedIn = d]
  BY Zenon DEF With
<1>3. /\ Q[l] = q /\ A[l] = a
      /\ \A k \in Lanes : k # l => Q[k] = st.queue[k] /\ A[k] = st.active[k]
  BY DEF LaneState
<1> HIDE DEF Q, A, w
<1>4. /\ w \in LaneState
      /\ w.queue = Q /\ w.active = A /\ w.phase = p /\ w.startedIn = d
  BY <1>1, <1>2 DEF LaneState, PhaseMaps, StartMaps
<1> QED
  BY <1>3, <1>4 DEF w

(* The pump of lane l starts the first tasks of its queue. *)
Starts(st, l) == Started(st.queue[l], st.active[l], Cap(l))

PumpedIn(st, l, e) ==
  With(st, l, Rest(st.queue[l], st.active[l], Cap(l)), st.active[l] \cup Starts(st, l),
       [t \in Tasks |-> IF t \in Starts(st, l) THEN "running" ELSE st.phase[t]],
       [t \in Tasks |-> IF t \in Starts(st, l) THEN e ELSE st.startedIn[t]])

LEMMA PumpedInNow == \A st, l : Pumped(st, l) = PumpedIn(st, l, epoch')
BY DEF Pumped, PumpedIn, With, Starts

(* w is st after that pump. *)
PumpEffect(w, st, l, e) ==
  LET S == Starts(st, l)
      n == StartCount(st.queue[l], st.active[l], Cap(l))
  IN  /\ w \in LaneState
      /\ n \in 0 .. Len(st.queue[l])
      /\ S = {st.queue[l][i] : i \in 1 .. n}
      /\ w.queue[l] = SubSeq(st.queue[l], n + 1, Len(st.queue[l]))
      /\ w.active[l] = st.active[l] \cup S
      /\ \A k \in Lanes \ {l} : w.queue[k] = st.queue[k] /\ w.active[k] = st.active[k]
      /\ \A t \in Tasks : w.phase[t] = IF t \in S THEN "running" ELSE st.phase[t]
      /\ \A t \in Tasks : w.startedIn[t] = IF t \in S THEN e ELSE st.startedIn[t]

LEMMA PumpedIs ==
  ASSUME NEW e \in Nat, NEW st \in LaneState, NEW l \in Lanes, IsFiniteSet(st.active[l])
  PROVE  PumpEffect(PumpedIn(st, l, e), st, l, e)
<1> DEFINE S == Starts(st, l)
           q == st.queue[l]
           n == StartCount(q, st.active[l], Cap(l))
           rest == SubSeq(q, n + 1, Len(q))
           a == st.active[l] \cup S
           p == [t \in Tasks |-> IF t \in S THEN "running" ELSE st.phase[t]]
           d == [t \in Tasks |-> IF t \in S THEN e ELSE st.startedIn[t]]
<1>1. PumpedIn(st, l, e) = With(st, l, rest, a, p, d)
  BY DEF PumpedIn, Rest
<1>2. q \in Seq(Tasks) /\ st.active[l] \in SUBSET Tasks
  BY DEF LaneState
<1>3. n \in 0 .. Len(q)
  BY <1>2, LaneFacts, StartCountRange
<1>4. S = {q[i] : i \in 1 .. n}
  BY DEF Starts, Started
<1> HIDE DEF n, q
<1>5. rest \in Seq(Tasks)
  BY <1>2, <1>3
<1>6. S \in SUBSET Tasks
  BY <1>2, <1>3, <1>4
<1> HIDE DEF S
<1>7. a \in SUBSET Tasks /\ p \in PhaseMaps /\ d \in StartMaps
  BY <1>2, <1>6 DEF LaneState, Phases, PhaseMaps, StartMaps
<1>8. /\ \A t \in Tasks : p[t] = IF t \in S THEN "running" ELSE st.phase[t]
      /\ \A t \in Tasks : d[t] = IF t \in S THEN e ELSE st.startedIn[t]
  OBVIOUS
<1> DEFINE w == With(st, l, rest, a, p, d)
<1> HIDE DEF rest, a, p, d
<1>9. /\ w \in LaneState
      /\ w.queue[l] = rest /\ w.active[l] = a /\ w.phase = p /\ w.startedIn = d
      /\ \A k \in Lanes \ {l} : w.queue[k] = st.queue[k] /\ w.active[k] = st.active[k]
  BY <1>5, <1>7, WithIs
<1> HIDE DEF w
<1>10. PumpedIn(st, l, e) = w
  BY <1>1 DEF w
<1>11. /\ w \in LaneState
       /\ n \in 0 .. Len(q)
       /\ S = {q[i] : i \in 1 .. n}
       /\ w.queue[l] = rest
       /\ w.active[l] = a
       /\ \A k \in Lanes \ {l} : w.queue[k] = st.queue[k] /\ w.active[k] = st.active[k]
       /\ \A t \in Tasks : w.phase[t] = IF t \in S THEN "running" ELSE st.phase[t]
       /\ \A t \in Tasks : w.startedIn[t] = IF t \in S THEN e ELSE st.startedIn[t]
  BY <1>3, <1>4, <1>8, <1>9
<1> QED
  BY <1>10, <1>11, Zenon DEF PumpEffect, rest, a, n, q, S

(* What a lane holds after its pump. *)
LEMMA PumpedFlow ==
  ASSUME NEW e \in Nat, NEW st, Flow(st, e), NEW l \in Lanes
  PROVE  /\ Flow(PumpedIn(st, l, e), e)
         /\ \A t \in Starts(st, l) : t \in Tasks /\ Home(t) = l /\ st.phase[t] = "queued"
<1> DEFINE w == PumpedIn(st, l, e)
           S == Starts(st, l)
           q == st.queue[l]
           n == StartCount(q, st.active[l], Cap(l))
<1>1. st \in LaneState /\ IsFiniteSet(st.active[l])
  BY DEF Flow, ActiveOK
<1>2. /\ w \in LaneState
      /\ n \in 0 .. Len(q)
      /\ S = {q[i] : i \in 1 .. n}
      /\ w.queue[l] = SubSeq(q, n + 1, Len(q))
      /\ w.active[l] = st.active[l] \cup S
      /\ \A k \in Lanes \ {l} : w.queue[k] = st.queue[k] /\ w.active[k] = st.active[k]
      /\ \A t \in Tasks : w.phase[t] = IF t \in S THEN "running" ELSE st.phase[t]
      /\ \A t \in Tasks : w.startedIn[t] = IF t \in S THEN e ELSE st.startedIn[t]
  BY <1>1, PumpedIs DEF PumpEffect
<1>3. q \in Seq(Tasks) /\ Len(q) \in Nat
  BY <1>1 DEF LaneState
<1>4. /\ \A i \in 1 .. Len(q) : Home(q[i]) = l /\ st.phase[q[i]] = "queued"
      /\ \A i, k \in 1 .. Len(q) : q[i] = q[k] => i = k
  BY DEF Flow, QueueOK
<1>5. \A t \in Tasks : st.startedIn[t] \in Nat
  BY <1>1 DEF LaneState
<1> HIDE DEF w, S, q, n
<1>6. \A t \in S : t \in Tasks /\ Home(t) = l /\ st.phase[t] = "queued"
  BY <1>2, <1>3, <1>4
<1>7. ASSUME NEW k \in Lanes PROVE QueueOK(w, k)
  <2>1. QueueOK(st, k) /\ st.queue[k] \in Seq(Tasks)
    BY <1>1 DEF Flow, LaneState
  <2>2. CASE k = l
    <3>1. Len(w.queue[l]) = Len(q) - n
      BY <1>2, <1>3
    <3>2. \A i \in 1 .. Len(q) - n : w.queue[l][i] = q[n + i] /\ n + i \in 1 .. Len(q)
      BY <1>2, <1>3
    <3>3. \A i \in 1 .. Len(q) - n : q[n + i] \notin S /\ q[n + i] \in Tasks
      BY <1>2, <1>3, <1>4, <3>2
    <3>4. \A i \in 1 .. Len(q) - n : /\ Home(w.queue[l][i]) = l
                                     /\ w.phase[w.queue[l][i]] = "queued"
      BY <1>2, <1>4, <3>2, <3>3
    <3>5. \A i, j \in 1 .. Len(q) - n : w.queue[l][i] = w.queue[l][j] => i = j
      BY <1>2, <1>3, <1>4, <3>2
    <3> QED
      BY <2>2, <3>1, <3>4, <3>5 DEF QueueOK
  <2>3. CASE k # l
    <3>1. w.queue[k] = st.queue[k]
      BY <1>2, <2>3
    <3>2. \A i \in 1 .. Len(st.queue[k]) : st.queue[k][i] \in Tasks \ S
      BY <1>6, <2>1, <2>3 DEF QueueOK
    <3> QED
      BY <1>2, <2>1, <3>1, <3>2 DEF QueueOK
  <2> QED
    BY <2>2, <2>3
<1>8. ASSUME NEW k \in Lanes PROVE ActiveOK(w, k, e)
  <2>1. ActiveOK(st, k, e) /\ st.active[k] \subseteq Tasks
    BY <1>1 DEF Flow, LaneState
  <2>2. \A t \in st.active[k] : t \notin S
    BY <1>6, <2>1 DEF ActiveOK
  <2>3. \A t \in st.active[k] : w.phase[t] = "running" /\ w.startedIn[t] = e
    BY <1>2, <2>1, <2>2 DEF ActiveOK
  <2>4. IsFiniteSet(S)
    <3>1. IsFiniteSet(1 .. n)
      BY <1>2, FS_Interval
    <3>2. [i \in 1 .. n |-> q[i]] \in Surjection(1 .. n, S)
      BY <1>2 DEF Surjection
    <3> QED
      BY <3>1, <3>2, FS_Surjection
  <2>5. CASE k = l
    <3>1. IsFiniteSet(w.active[l])
      <4>1. IsFiniteSet(st.active[l])
        BY <2>1, <2>5 DEF ActiveOK
      <4>2. IsFiniteSet(st.active[l] \cup S)
        BY <4>1, <2>4, FS_Union
      <4> QED
        BY <1>2, <4>2
    <3>2. \A t \in S : Home(t) = l /\ w.phase[t] = "running" /\ w.startedIn[t] = e
      BY <1>2, <1>6
    <3> QED
      BY <1>2, <2>1, <2>3, <2>5, <3>1, <3>2 DEF ActiveOK
  <2>6. CASE k # l
    BY <1>2, <2>1, <2>3, <2>6 DEF ActiveOK
  <2> QED
    BY <2>5, <2>6
<1>9. ASSUME NEW t \in Tasks PROVE RunningOK(w, t, e)
  <2>1. RunningOK(st, t, e) /\ Home(t) \in Lanes
    BY HomeIsLane DEF Flow
  <2>2. \A k \in Lanes : st.active[k] \subseteq w.active[k]
    BY <1>2
  <2> QED
    BY <1>2, <1>5, <1>6, <2>1, <2>2 DEF RunningOK
<1>10. Flow(w, e)
  BY <1>2, <1>7, <1>8, <1>9 DEF Flow
<1> QED
  BY <1>6, <1>10 DEF w, S

LEMMA PushedIs ==
  ASSUME NEW st \in LaneState, NEW l \in Lanes, NEW t \in Tasks
  PROVE  LET w == Pushed(st, l, t)
         IN  /\ w \in LaneState
             /\ w.queue[l] = Append(st.queue[l], t)
             /\ \A k \in Lanes \ {l} : w.queue[k] = st.queue[k]
             /\ w.active = st.active /\ w.startedIn = st.startedIn
             /\ \A u \in Tasks : w.phase[u] = IF u = t THEN "queued" ELSE st.phase[u]
<1> DEFINE w == Pushed(st, l, t)
           Q == [st.queue EXCEPT ![l] = Append(@, t)]
           P == [st.phase EXCEPT ![t] = "queued"]
<1>1. w = [st EXCEPT !.queue = Q, !.phase = P]
  BY Zenon DEF Pushed
<1>2. Q \in [Lanes -> Seq(Tasks)] /\ P \in [Tasks -> Phases]
  BY DEF LaneState, Phases
<1>3. /\ Q[l] = Append(st.queue[l], t)
      /\ \A k \in Lanes \ {l} : Q[k] = st.queue[k]
      /\ \A u \in Tasks : P[u] = IF u = t THEN "queued" ELSE st.phase[u]
  BY DEF LaneState
<1> HIDE DEF w, Q, P
<1>4. /\ w \in LaneState
      /\ w.queue = Q /\ w.active = st.active /\ w.startedIn = st.startedIn /\ w.phase = P
  BY <1>1, <1>2 DEF LaneState
<1> QED
  BY <1>3, <1>4 DEF w

(* Only a new task is enqueued. *)
LEMMA PushedFlow ==
  ASSUME NEW e \in Nat, NEW st, Flow(st, e), NEW t \in Tasks, st.phase[t] = "new"
  PROVE  Flow(Pushed(st, Home(t), t), e)
<1> DEFINE l == Home(t)
           w == Pushed(st, l, t)
<1>1. l \in Lanes /\ st \in LaneState
  BY HomeIsLane DEF Flow
<1>2. /\ w \in LaneState
      /\ w.queue[l] = Append(st.queue[l], t)
      /\ \A k \in Lanes \ {l} : w.queue[k] = st.queue[k]
      /\ w.active = st.active /\ w.startedIn = st.startedIn
      /\ \A u \in Tasks : w.phase[u] = IF u = t THEN "queued" ELSE st.phase[u]
  BY <1>1, PushedIs
<1> HIDE DEF w
<1>3. ASSUME NEW k \in Lanes PROVE QueueOK(w, k)
  <2>1. QueueOK(st, k) /\ st.queue[k] \in Seq(Tasks)
    BY <1>1 DEF Flow, LaneState
  <2>2. \A i \in 1 .. Len(st.queue[k]) : st.queue[k][i] \in Tasks \ {t}
    BY <2>1 DEF QueueOK
  <2> DEFINE old == st.queue[k]
             new == w.queue[k]
  <2>3. CASE k = l
    <3>1. new = Append(old, t)
      BY <1>2, <2>3
    <3>2. /\ \A i \in 1 .. Len(old) : Home(old[i]) = k /\ st.phase[old[i]] = "queued"
          /\ \A i, j \in 1 .. Len(old) : old[i] = old[j] => i = j
      BY <2>1 DEF QueueOK
    <3>3. /\ \A i \in 1 .. Len(old) : w.phase[old[i]] = "queued"
          /\ Home(t) = k /\ w.phase[t] = "queued"
      BY <1>2, <2>2, <2>3, <3>2
    <3>4. old \in Seq(Tasks) /\ Len(old) \in Nat /\ \A i \in 1 .. Len(old) : old[i] # t
      BY <2>1, <2>2
    <3> HIDE DEF old, new
    <3>5. /\ Len(new) = Len(old) + 1
          /\ \A i \in 1 .. Len(new) :
               \/ i \in 1 .. Len(old) /\ new[i] = old[i]
               \/ i = Len(old) + 1 /\ new[i] = t
      BY <3>1, <3>4
    <3>6. \A i \in 1 .. Len(new) : Home(new[i]) = k /\ w.phase[new[i]] = "queued"
      BY <3>2, <3>3, <3>5
    <3>7. \A i, j \in 1 .. Len(new) : new[i] = new[j] => i = j
      BY <3>2, <3>4, <3>5
    <3> QED
      BY <3>6, <3>7 DEF QueueOK, new
  <2>4. CASE k # l
    <3>1. new = old
      BY <1>2, <2>4
    <3>2. /\ \A i \in 1 .. Len(old) : Home(old[i]) = k /\ st.phase[old[i]] = "queued"
          /\ \A i, j \in 1 .. Len(old) : old[i] = old[j] => i = j
      BY <2>1 DEF QueueOK
    <3>3. \A i \in 1 .. Len(old) : w.phase[old[i]] = "queued"
      BY <1>2, <2>2, <3>2
    <3> HIDE DEF old, new
    <3>4. /\ \A i \in 1 .. Len(new) : Home(new[i]) = k /\ w.phase[new[i]] = "queued"
          /\ \A i, j \in 1 .. Len(new) : new[i] = new[j] => i = j
      BY <3>1, <3>2, <3>3
    <3> QED
      BY <3>4 DEF QueueOK, new
  <2> QED
    BY <2>3, <2>4
<1>4. ASSUME NEW k \in Lanes PROVE ActiveOK(w, k, e)
  <2>1. ActiveOK(st, k, e) /\ st.active[k] \subseteq Tasks
    BY <1>1 DEF Flow, LaneState
  <2> QED
    BY <1>2, <2>1 DEF ActiveOK
<1>5. ASSUME NEW u \in Tasks PROVE RunningOK(w, u, e)
  <2>1. RunningOK(st, u, e)
    BY DEF Flow
  <2> QED
    BY <1>2, <2>1 DEF RunningOK
<1> QED
  BY <1>2, <1>3, <1>4, <1>5 DEF Flow, w

(* A task that is neither waiting nor running ends up as p at once. *)
Marked(st, t, p) == [st EXCEPT !.phase[t] = p]

LEMMA MarkedIs ==
  ASSUME NEW st \in LaneState, NEW t \in Tasks, NEW p \in Phases
  PROVE  LET w == Marked(st, t, p)
         IN  /\ w \in LaneState
             /\ w.queue = st.queue /\ w.active = st.active /\ w.startedIn = st.startedIn
             /\ \A u \in Tasks : w.phase[u] = IF u = t THEN p ELSE st.phase[u]
<1> DEFINE w == Marked(st, t, p)
           P == [st.phase EXCEPT ![t] = p]
<1>1. w = [st EXCEPT !.phase = P]
  BY Zenon DEF Marked
<1>2. P \in [Tasks -> Phases] /\ \A u \in Tasks : P[u] = IF u = t THEN p ELSE st.phase[u]
  BY DEF LaneState
<1> HIDE DEF w, P
<1>3. /\ w \in LaneState /\ w.phase = P
      /\ w.queue = st.queue /\ w.active = st.active /\ w.startedIn = st.startedIn
  BY <1>1, <1>2 DEF LaneState
<1> QED
  BY <1>2, <1>3 DEF w

LEMMA MarkedFlow ==
  ASSUME NEW e \in Nat, NEW st, Flow(st, e), NEW t \in Tasks, st.phase[t] = "new",
         NEW p \in Ended
  PROVE  Flow(Marked(st, t, p), e)
<1> DEFINE w == Marked(st, t, p)
<1>1. st \in LaneState /\ p \in Phases /\ p # "running" /\ p # "queued"
  BY DEF Flow, Phases, Ended
<1>2. /\ w \in LaneState
      /\ w.queue = st.queue /\ w.active = st.active /\ w.startedIn = st.startedIn
      /\ \A u \in Tasks : w.phase[u] = IF u = t THEN p ELSE st.phase[u]
  BY <1>1, MarkedIs
<1> HIDE DEF w
<1>3. ASSUME NEW k \in Lanes PROVE QueueOK(w, k) /\ ActiveOK(w, k, e)
  <2>1. /\ QueueOK(st, k) /\ st.queue[k] \in Seq(Tasks)
        /\ ActiveOK(st, k, e) /\ st.active[k] \subseteq Tasks
    BY <1>1 DEF Flow, LaneState
  <2>2. \A i \in 1 .. Len(st.queue[k]) : st.queue[k][i] \in Tasks
    BY <2>1
  <2>3. QueueOK(w, k)
    BY <1>2, <2>1, <2>2 DEF QueueOK
  <2>4. ActiveOK(w, k, e)
    BY <1>2, <2>1 DEF ActiveOK
  <2> QED
    BY <2>3, <2>4
<1>4. ASSUME NEW u \in Tasks PROVE RunningOK(w, u, e)
  <2>1. RunningOK(st, u, e)
    BY DEF Flow
  <2> QED
    BY <1>1, <1>2, <2>1 DEF RunningOK
<1> QED
  BY <1>2, <1>3, <1>4 DEF Flow, w

CompletedIn(st, l, t, outcome, e) ==
  [st EXCEPT !.phase[t] = outcome,
             !.active[l] = IF st.startedIn[t] = e THEN @ \ {t} ELSE @]

LEMMA CompletedInNow ==
  \A st, l, t, outcome : Completed(st, l, t, outcome) = CompletedIn(st, l, t, outcome, epoch)
BY DEF Completed, CompletedIn

(* The end of a running task frees its slot, if it still has one. *)
LEMMA CompletedIs ==
  ASSUME NEW e \in Nat, NEW st, Flow(st, e), NEW t \in Tasks, st.phase[t] = "running",
         NEW p \in Ended
  PROVE  LET l == Home(t)
             w == CompletedIn(st, l, t, p, e)
         IN  /\ Flow(w, e)
             /\ w.queue = st.queue
             /\ w.active[l] = st.active[l] \ {t}
             /\ \A k \in Lanes \ {l} : w.active[k] = st.active[k]
             /\ \A u \in Tasks : w.phase[u] = IF u = t THEN p ELSE st.phase[u]
<1> DEFINE l == Home(t)
           w == CompletedIn(st, l, t, p, e)
           A == [st.active EXCEPT ![l] = IF st.startedIn[t] = e THEN @ \ {t} ELSE @]
           P == [st.phase EXCEPT ![t] = p]
<1>1. st \in LaneState /\ l \in Lanes /\ p \in Phases /\ p # "running" /\ p # "queued"
  BY HomeIsLane DEF Flow, Phases, Ended
<1>2. w = [st EXCEPT !.phase = P, !.active = A]
  BY Zenon DEF CompletedIn
<1>3. /\ P \in [Tasks -> Phases] /\ A \in [Lanes -> SUBSET Tasks]
      /\ \A u \in Tasks : P[u] = IF u = t THEN p ELSE st.phase[u]
      /\ \A k \in Lanes \ {l} : A[k] = st.active[k]
      /\ A[l] = IF st.startedIn[t] = e THEN st.active[l] \ {t} ELSE st.active[l]
  BY <1>1 DEF LaneState
<1>4. A[l] = st.active[l] \ {t}
  <2>1. ActiveOK(st, l, e)
    BY <1>1 DEF Flow
  <2>2. t \in st.active[l] => st.startedIn[t] = e
    BY <2>1 DEF ActiveOK
  <2> QED
    BY <1>3, <2>2
<1> HIDE DEF w, A, P, l
<1>5. /\ w \in LaneState /\ w.phase = P /\ w.active = A
      /\ w.queue = st.queue /\ w.startedIn = st.startedIn
  BY <1>1, <1>2, <1>3 DEF LaneState
<1>6. ASSUME NEW k \in Lanes PROVE QueueOK(w, k)
  <2>1. QueueOK(st, k) /\ st.queue[k] \in Seq(Tasks)
    BY <1>1 DEF Flow, LaneState
  <2>2. \A i \in 1 .. Len(st.queue[k]) : st.queue[k][i] \in Tasks \ {t}
    BY <2>1 DEF QueueOK
  <2> QED
    BY <1>3, <1>5, <2>1, <2>2 DEF QueueOK
<1>7. ASSUME NEW k \in Lanes PROVE ActiveOK(w, k, e)
  <2>1. ActiveOK(st, k, e) /\ st.active[k] \subseteq Tasks
    BY <1>1 DEF Flow, LaneState
  <2>2. w.active[k] \subseteq st.active[k] /\ t \notin w.active[k]
    <3>1. k # l => t \notin st.active[k]
      BY <2>1 DEF ActiveOK, l
    <3> QED
      BY <1>3, <1>4, <1>5, <3>1
  <2>3. IsFiniteSet(w.active[k])
    BY <2>1, <2>2, FS_Subset DEF ActiveOK
  <2>4. \A u \in w.active[k] : Home(u) = k /\ w.phase[u] = "running" /\ w.startedIn[u] = e
    BY <1>3, <1>5, <2>1, <2>2 DEF ActiveOK
  <2> QED
    BY <2>3, <2>4 DEF ActiveOK
<1>8. ASSUME NEW u \in Tasks PROVE RunningOK(w, u, e)
  <2>1. RunningOK(st, u, e) /\ Home(u) \in Lanes
    BY HomeIsLane DEF Flow
  <2>2. u # t => (u \in st.active[Home(u)] => u \in w.active[Home(u)])
    BY <1>3, <1>4, <1>5, <2>1
  <2> QED
    BY <1>1, <1>3, <1>5, <2>1, <2>2 DEF RunningOK
<1>9. Flow(w, e)
  BY <1>5, <1>6, <1>7, <1>8 DEF Flow
<1> QED
  BY <1>3, <1>4, <1>5, <1>9, Zenon DEF w, l

-----------------------------------------------------------------------------
(* Operations that keep the two lanes of every run in step. *)

(* The pump of a lane other than the sessions'. *)
LEMMA PumpedCore ==
  ASSUME NEW e \in Nat, NEW st, NEW X, NEW Y, Core(st, e, X, Y), NEW l \in GlobalLanes
  PROVE  Core(PumpedIn(st, l, e), e, X, Y)
<1> DEFINE w == PumpedIn(st, l, e)
           S == Starts(st, l)
<1>1. Flow(st, e) /\ l \in Lanes /\ st \in LaneState /\ IsFiniteSet(st.active[l])
  BY LaneFacts DEF Core, Flow, ActiveOK
<1>2. Flow(w, e) /\ \A t \in S : t \in Tasks /\ Home(t) = l /\ st.phase[t] = "queued"
  BY <1>1, PumpedFlow
<1>3. /\ \A k \in Lanes \ {l} : w.queue[k] = st.queue[k] /\ w.active[k] = st.active[k]
      /\ \A t \in Tasks : w.phase[t] = IF t \in S THEN "running" ELSE st.phase[t]
  BY <1>1, PumpedIs DEF PumpEffect
<1>4. \A s \in Sessions : s \in Lanes \ {l}
  BY LaneFacts
<1>5. \A r \in Runs : Outer(r) \in Tasks /\ Inner(r) \in Tasks /\ Outer(r) \notin S
  BY <1>2, TaskFacts, LaneFacts
<1> HIDE DEF w, S
<1>6. \A s \in Sessions : SlotOK(st, s) => SlotOK(w, s)
  BY <1>3, <1>4 DEF SlotOK
<1>7. \A s \in Sessions : BusyOK(st, s) => BusyOK(w, s)
  BY <1>3, <1>4 DEF BusyOK
<1>8. \A r \in Runs : BeforeOK(st, r) => BeforeOK(w, r)
  BY <1>2, <1>3, <1>5 DEF BeforeOK
<1>9. \A r \in Runs : HandedOK(st, r) => HandedOK(w, r)
  BY <1>2, <1>3, <1>5 DEF HandedOK
<1> QED
  BY <1>2, <1>6, <1>7, <1>8, <1>9 DEF Core, w

(* The body of a session task that has just started hands its run over. *)
HandedIn(st, r, e, stopping) ==
  IF stopping THEN Marked(st, Inner(r), "refused")
  ELSE PumpedIn(Pushed(st, GlobalLane(r), Inner(r)), GlobalLane(r), e)

LEMMA HandedInNow == \A st, r : HandedOver(st, r) = HandedIn(st, r, epoch', draining')
BY PumpedInNow DEF HandedOver, HandedIn, Marked

LEMMA HandedCore ==
  ASSUME NEW e \in Nat, NEW st, NEW X, NEW Y, Core(st, e, X, Y), NEW r \in Runs,
         st.phase[Outer(r)] = "running", st.phase[Inner(r)] = "new", NEW stopping
  PROVE  Core(HandedIn(st, r, e, stopping), e, X \ {r}, Y)
<1> DEFINE g == GlobalLane(r)
           t == Inner(r)
<1>1. Flow(st, e) /\ st \in LaneState
  BY DEF Core, Flow
<1>2. /\ t \in Tasks /\ Home(t) = g /\ g \in Lanes /\ g \in GlobalLanes
      /\ \A q \in Runs : /\ Outer(q) \in Tasks /\ Inner(q) \in Tasks
                         /\ Outer(q) # t
                         /\ q # r => Inner(q) # t
  BY TaskFacts, LaneFacts DEF GlobalLanes
<1>3. \A s \in Sessions : s \in Lanes \ {g}
  BY <1>2, LaneFacts
<1> HIDE DEF g, t
<1>4. CASE stopping
  <2> DEFINE w == Marked(st, t, "refused")
  <2>1. "refused" \in Ended /\ "refused" \in Phases
    BY DEF Ended, Phases
  <2>2. Flow(w, e)
    BY <1>1, <1>2, <2>1, MarkedFlow DEF t
  <2>3. /\ w.queue = st.queue /\ w.active = st.active
        /\ \A u \in Tasks : w.phase[u] = IF u = t THEN "refused" ELSE st.phase[u]
    BY <1>1, <1>2, <2>1, MarkedIs
  <2> HIDE DEF w
  <2>4. \A s \in Sessions : (SlotOK(st, s) => SlotOK(w, s)) /\ (BusyOK(st, s) => BusyOK(w, s))
    BY <2>3 DEF SlotOK, BusyOK
  <2>5. \A q \in Runs : BeforeOK(st, q) => BeforeOK(w, q)
    BY <1>2, <2>3 DEF BeforeOK, t
  <2>6. \A q \in Runs : HandedOK(st, q) => HandedOK(w, q)
    BY <1>2, <2>3 DEF HandedOK, t
  <2>7. HandedOK(w, r)
    BY <1>2, <2>3 DEF HandedOK, t
  <2>8. Core(w, e, X \ {r}, Y)
    BY <2>2, <2>4, <2>5, <2>6, <2>7 DEF Core
  <2> QED
    BY <1>4, <2>8 DEF HandedIn, w, t
<1>5. CASE ~stopping
  <2> DEFINE w == Pushed(st, g, t)
  <2>1. Flow(w, e)
    BY <1>1, <1>2, PushedFlow DEF t
  <2>2. /\ \A k \in Lanes \ {g} : w.queue[k] = st.queue[k]
        /\ w.active = st.active
        /\ \A u \in Tasks : w.phase[u] = IF u = t THEN "queued" ELSE st.phase[u]
    BY <1>1, <1>2, PushedIs
  <2> HIDE DEF w
  <2>3. \A s \in Sessions : (SlotOK(st, s) => SlotOK(w, s)) /\ (BusyOK(st, s) => BusyOK(w, s))
    BY <1>3, <2>2 DEF SlotOK, BusyOK
  <2>4. \A q \in Runs : BeforeOK(st, q) => BeforeOK(w, q)
    BY <1>2, <2>2 DEF BeforeOK, t
  <2>5. \A q \in Runs : HandedOK(st, q) => HandedOK(w, q)
    BY <1>2, <2>2 DEF HandedOK, t
  <2>6. HandedOK(w, r)
    BY <1>2, <2>2 DEF HandedOK, t
  <2>7. Core(w, e, X \ {r}, Y)
    BY <2>1, <2>3, <2>4, <2>5, <2>6 DEF Core
  <2>8. Core(PumpedIn(w, g, e), e, X \ {r}, Y)
    BY <1>2, <2>7, PumpedCore
  <2> QED
    BY <1>5, <2>8 DEF HandedIn, w, g, t
<1> QED
  BY <1>4, <1>5

(* A fold over no run, and over one. *)
LEMMA HandedFold ==
  ASSUME NEW st, NEW E
  PROVE  /\ E = {} => FoldLeft(HandedOver, st, SetToSeq(E)) = st
         /\ \A r : E = {r} => FoldLeft(HandedOver, st, SetToSeq(E)) = HandedOver(st, r)
<1> DEFINE seq == SetToSeq(E)
           D == DOMAIN seq
           IsFold(f) == f = [s \in SUBSET D |-> IF s = {} THEN st
                                                ELSE HandedOver(f[s \ {Max(s)}], seq[Max(s)])]
<1>1. FoldLeft(HandedOver, st, seq) = (CHOOSE f : IsFold(f))[D]
  BY DEF FoldLeft, MapThenFoldSet
<1>2. ASSUME E = {} PROVE FoldLeft(HandedOver, st, seq) = st
  <2>1. D = {}
    <3>1. Cardinality(E) = 0
      BY <1>2, FS_EmptySet
    <3>2. seq = CHOOSE f \in [1 .. 0 -> {}] : IsInjective(f)
      BY <1>2, <3>1 DEF SetToSeq
    <3>3. \E f \in [1 .. 0 -> {}] : IsInjective(f)
      <4>1. [i \in 1 .. 0 |-> i] \in [1 .. 0 -> {}]
        OBVIOUS
      <4>2. IsInjective([i \in 1 .. 0 |-> i])
        BY DEF IsInjective
      <4> QED
        BY <4>1, <4>2
    <3>4. seq \in [1 .. 0 -> {}]
      BY <3>2, <3>3
    <3> QED
      BY <3>4
  <2>2. \A f : IsFold(f) => f[D] = st
    BY <2>1
  <2>3. \E f : IsFold(f)
    <3>1. IsFold([s \in SUBSET D |-> st])
      <4>1. \A s \in SUBSET D : s = {}
        BY <2>1
      <4> QED
        BY <4>1
    <3> QED
      BY <3>1
  <2> QED
    BY <1>1, <2>2, <2>3
<1>3. ASSUME NEW r, E = {r} PROVE FoldLeft(HandedOver, st, seq) = HandedOver(st, r)
  <2>1. D = {1} /\ seq[1] = r
    <3>1. Cardinality(E) = 1
      BY <1>3, FS_Singleton
    <3>2. seq = CHOOSE f \in [1 .. 1 -> {r}] : IsInjective(f)
      BY <1>3, <3>1 DEF SetToSeq
    <3>3. \E f \in [1 .. 1 -> {r}] : IsInjective(f)
      <4>1. [i \in 1 .. 1 |-> r] \in [1 .. 1 -> {r}]
        OBVIOUS
      <4>2. IsInjective([i \in 1 .. 1 |-> r])
        BY DEF IsInjective
      <4> QED
        BY <4>1, <4>2
    <3>4. seq \in [1 .. 1 -> {r}]
      BY <3>2, <3>3
    <3> QED
      BY <3>4
  <2>2. Max({1}) = 1
    BY MaxUpTo
  <2>3. {1} \in SUBSET D /\ {} \in SUBSET D /\ {1} \ {1} = {} /\ {1} # {}
    BY <2>1
  <2>4. \A s \in SUBSET D : s = {} \/ s = {1}
    BY <2>1
  <2> HIDE DEF D, seq
  <2>5. ASSUME NEW f, IsFold(f) PROVE f[D] = HandedOver(st, r)
    <3>1. f[{}] = st
      BY <2>3, <2>5
    <3>2. f[{1}] = HandedOver(f[{1} \ {Max({1})}], seq[Max({1})])
      BY <2>3, <2>5
    <3>3. f[{1}] = HandedOver(f[{}], r)
      BY <2>1, <2>2, <2>3, <3>2
    <3> QED
      BY <2>1, <3>1, <3>3
  <2>6. \E f : IsFold(f)
    <3> DEFINE g == [s \in SUBSET D |-> IF s = {} THEN st ELSE HandedOver(st, r)]
    <3>1. g[{}] = st
      BY <2>3
    <3>2. ASSUME NEW s \in SUBSET D
          PROVE  g[s] = IF s = {} THEN st ELSE HandedOver(g[s \ {Max(s)}], seq[Max(s)])
      <4>1. CASE s = {}
        BY <3>1, <4>1
      <4>2. CASE s = {1}
        <5>1. s \ {Max(s)} = {} /\ seq[Max(s)] = r
          BY <2>1, <2>2, <2>3, <4>2
        <5>2. g[s] = HandedOver(st, r)
          BY <2>3, <4>2
        <5> QED
          BY <2>3, <3>1, <4>2, <5>1, <5>2
      <4> QED
        BY <2>4, <4>1, <4>2
    <3>3. IsFold(g)
      BY <3>2
    <3> QED
      BY <3>3
  <2>7. IsFold(CHOOSE f : IsFold(f))
    BY <2>6
  <2> QED
    BY <1>1, <2>5, <2>7
<1> QED
  BY <1>2, <1>3

(* The runs whose session task a pump of lane s starts. *)
Entered(st, s, e) ==
  {r \in Runs : /\ st.phase[Outer(r)] = "queued"
                /\ PumpedIn(st, s, e).phase[Outer(r)] = "running"}

(* A session lane starts at most one run, and only when it has none. *)
LEMMA SessionPumpStarts ==
  ASSUME NEW e \in Nat, NEW st, NEW Y, Core(st, e, {}, Y), NEW s \in Sessions
  PROVE  /\ Core(PumpedIn(st, s, e), e, Entered(st, s, e), Y \ {s})
         /\ \A r \in Entered(st, s, e) :
              /\ PumpedIn(st, s, e).phase[Outer(r)] = "running"
              /\ PumpedIn(st, s, e).phase[Inner(r)] = "new"
         /\ \A r, q \in Entered(st, s, e) : r = q
<1> DEFINE w == PumpedIn(st, s, e)
           S == Starts(st, s)
           E == Entered(st, s, e)
           q == st.queue[s]
           a == st.active[s]
           n == StartCount(q, a, Cap(s))
<1>1. Flow(st, e) /\ s \in Lanes /\ st \in LaneState /\ IsFiniteSet(a)
  BY LaneFacts DEF Core, Flow, ActiveOK
<1>2. Flow(w, e) /\ \A t \in S : t \in Tasks /\ Home(t) = s /\ st.phase[t] = "queued"
  BY <1>1, PumpedFlow
<1>3. /\ n \in 0 .. Len(q)
      /\ S = {q[i] : i \in 1 .. n}
      /\ w.queue[s] = SubSeq(q, n + 1, Len(q))
      /\ w.active[s] = a \cup S
      /\ \A k \in Lanes \ {s} : w.queue[k] = st.queue[k] /\ w.active[k] = st.active[k]
      /\ \A t \in Tasks : w.phase[t] = IF t \in S THEN "running" ELSE st.phase[t]
  <2>1. PumpEffect(w, st, s, e)
    BY <1>1, PumpedIs
  <2> QED
    BY <2>1 DEF PumpEffect
<1>4. q \in Seq(Tasks) /\ Len(q) \in Nat
  BY <1>1 DEF LaneState
<1>5. (a # {} => n = 0) /\ (a = {} /\ q # <<>> => n = 1)
  BY <1>1, <1>4, LaneFacts, StartCountRange
<1>6. \A r \in Runs : /\ Outer(r) \in Tasks /\ Inner(r) \in Tasks
                      /\ Inner(r) \notin S
  BY <1>2, TaskFacts, LaneFacts DEF GlobalLanes
<1>7. SlotOK(st, s)
  BY DEF Core
<1> HIDE DEF w, S, q, a, n
<1>8. E = {r \in Runs : Outer(r) \in S}
  <2>1. \A r \in Runs : st.phase[Outer(r)] = "queued" /\ w.phase[Outer(r)] = "running"
                          <=> Outer(r) \in S
    BY <1>2, <1>3, <1>6
  <2> QED
    BY <2>1 DEF Entered, w
<1>9. \A t, u \in S : t = u /\ a = {}
  <2>1. a # {} => S = {}
    BY <1>3, <1>5
  <2>2. q = <<>> => S = {}
    BY <1>3, <1>4
  <2>3. n = 1 => \A t, u \in S : t = u
    BY <1>3
  <2> QED
    BY <1>5, <2>1, <2>2, <2>3
<1> HIDE DEF E
<1>10. \A r, p \in E : r = p
  BY <1>8, <1>9, TaskFacts
<1>11. SlotOK(w, s)
  BY <1>3, <1>7, <1>9 DEF SlotOK, a
<1>12. BusyOK(w, s)
  <2>1. w.queue[s] # <<>> => a # {} \/ S # {}
    <3>1. CASE a # {}
      BY <3>1
    <3>2. CASE q = <<>>
      BY <1>3, <1>4, <3>2
    <3>3. CASE a = {} /\ q # <<>>
      <4>1. n = 1 /\ q[1] \in S
        BY <1>3, <1>5, <3>3
      <4> QED
        BY <4>1
    <3> QED
      BY <3>1, <3>2, <3>3
  <2> QED
    BY <1>3, <2>1 DEF BusyOK
<1>13. \A k \in Sessions \ {s} : /\ SlotOK(st, k) => SlotOK(w, k)
                                 /\ BusyOK(st, k) => BusyOK(w, k)
  <2>1. \A k \in Sessions \ {s} : w.queue[k] = st.queue[k] /\ w.active[k] = st.active[k]
    BY <1>3, LaneFacts
  <2> QED
    BY <2>1 DEF SlotOK, BusyOK
<1>14. \A r \in Runs : BeforeOK(st, r) => BeforeOK(w, r)
  BY <1>2, <1>3, <1>6 DEF BeforeOK
<1>15. \A r \in Runs \ E : HandedOK(st, r) => HandedOK(w, r)
  BY <1>3, <1>6, <1>8 DEF HandedOK
<1>16. \A r \in E : w.phase[Outer(r)] = "running" /\ w.phase[Inner(r)] = "new"
  <2>1. \A r \in Runs : BeforeOK(st, r)
    BY DEF Core
  <2> QED
    BY <1>2, <1>3, <1>6, <1>8, <2>1 DEF BeforeOK
<1>17. Core(w, e, E, Y \ {s})
  BY <1>2, <1>11, <1>12, <1>13, <1>14, <1>15 DEF Core
<1> QED
  BY <1>10, <1>16, <1>17 DEF w, E

LEMMA SessionPumpedCore ==
  ASSUME epoch' \in Nat, NEW st, NEW Y, Core(st, epoch', {}, Y), NEW s \in Sessions
  PROVE  Core(SessionPumped(st, s), epoch', {}, Y \ {s})
<1> DEFINE w == PumpedIn(st, s, epoch')
           E == Entered(st, s, epoch')
<1>1. SessionPumped(st, s) = FoldLeft(HandedOver, w, SetToSeq(E))
  BY PumpedInNow DEF SessionPumped, Entered
<1>2. /\ Core(w, epoch', E, Y \ {s})
      /\ \A r \in E : w.phase[Outer(r)] = "running" /\ w.phase[Inner(r)] = "new"
      /\ \A r, q \in E : r = q
  BY SessionPumpStarts
<1>3. E \subseteq Runs
  BY DEF Entered
<1> HIDE DEF w, E
<1>4. CASE E = {}
  BY <1>1, <1>2, <1>4, HandedFold
<1>5. CASE E # {}
  <2>1. PICK r \in E : TRUE
    BY <1>5
  <2>2. E = {r}
    BY <1>2, <2>1
  <2>3. SessionPumped(st, s) = HandedIn(w, r, epoch', draining')
    BY <1>1, <2>2, HandedFold, HandedInNow
  <2>4. Core(HandedIn(w, r, epoch', draining'), epoch', E \ {r}, Y \ {s})
    BY <1>2, <1>3, <2>1, HandedCore
  <2>5. E \ {r} = {}
    BY <2>2
  <2> QED
    BY <2>3, <2>4, <2>5
<1> QED
  BY <1>4, <1>5

-----------------------------------------------------------------------------
(* The actions. *)

(* The call of a run: at most one per run, and only before the hand-over. *)
LEMMA SubmitKeeps ==
  ASSUME IInv, NEW r \in Runs, Submit(r)
  PROVE  IInv'
<1> DEFINE t == Outer(r)
           s == SessionOf[r]
<1>1. epoch' = epoch /\ epoch \in Nat /\ epoch' \in Nat
  BY DEF IInv, Submit
<1>2. Core(lanes, epoch', {}, {}) /\ Flow(lanes, epoch') /\ lanes \in LaneState
  BY <1>1 DEF IInv, Core, Flow
<1>3. /\ t \in Tasks /\ Home(t) = s /\ s \in Sessions /\ s \in Lanes
      /\ lanes.phase[t] = "new"
      /\ \A q \in Runs : /\ Outer(q) \in Tasks /\ Inner(q) \in Tasks
                         /\ Inner(q) # t
                         /\ q # r => Outer(q) # t
  BY TaskFacts, LaneFacts DEF Submit
<1>4. lanes.phase[Inner(r)] = "new"
  <2>1. BeforeOK(lanes, r)
    BY <1>2 DEF Core
  <2> QED
    BY <1>3, <2>1 DEF BeforeOK
<1>5. lanes' = IF draining THEN Marked(lanes, t, "refused")
               ELSE SessionPumped(Pushed(lanes, s, t), s)
  BY DEF Submit, Marked
<1> HIDE DEF s, t
<1>6. CASE draining
  <2> DEFINE w == Marked(lanes, t, "refused")
  <2>1. "refused" \in Ended /\ "refused" \in Phases
    BY DEF Ended, Phases
  <2>2. Flow(w, epoch')
    BY <1>1, <1>2, <1>3, <2>1, MarkedFlow
  <2>3. /\ w.queue = lanes.queue /\ w.active = lanes.active
        /\ \A u \in Tasks : w.phase[u] = IF u = t THEN "refused" ELSE lanes.phase[u]
    BY <1>2, <1>3, <2>1, MarkedIs
  <2> HIDE DEF w
  <2>4. \A k \in Sessions : /\ SlotOK(lanes, k) => SlotOK(w, k)
                            /\ BusyOK(lanes, k) => BusyOK(w, k)
    BY <2>3 DEF SlotOK, BusyOK
  <2>5. \A q \in Runs : /\ BeforeOK(lanes, q) => BeforeOK(w, q)
                        /\ HandedOK(lanes, q) => HandedOK(w, q)
    BY <1>3, <1>4, <2>3 DEF BeforeOK, HandedOK, t
  <2>6. Core(w, epoch', {}, {})
    BY <1>2, <2>2, <2>4, <2>5 DEF Core
  <2> QED
    BY <1>1, <1>5, <1>6, <2>6 DEF IInv, w
<1>7. CASE ~draining
  <2> DEFINE w == Pushed(lanes, s, t)
  <2>1. Flow(w, epoch')
    BY <1>1, <1>2, <1>3, PushedFlow
  <2>2. /\ \A k \in Lanes \ {s} : w.queue[k] = lanes.queue[k]
        /\ w.active = lanes.active
        /\ \A u \in Tasks : w.phase[u] = IF u = t THEN "queued" ELSE lanes.phase[u]
    BY <1>2, <1>3, PushedIs
  <2> HIDE DEF w
  <2>3. \A k \in Sessions : SlotOK(lanes, k) => SlotOK(w, k)
    BY <2>2 DEF SlotOK
  <2>4. \A k \in Sessions \ {s} : BusyOK(lanes, k) => BusyOK(w, k)
    BY <2>2, LaneFacts DEF BusyOK
  <2>5. \A q \in Runs : /\ BeforeOK(lanes, q) => BeforeOK(w, q)
                        /\ HandedOK(lanes, q) => HandedOK(w, q)
    BY <1>3, <1>4, <2>2 DEF BeforeOK, HandedOK, t
  <2>6. Core(w, epoch', {}, {s})
    BY <1>2, <2>1, <2>3, <2>4, <2>5 DEF Core
  <2>7. Core(SessionPumped(w, s), epoch', {}, {s} \ {s})
    BY <1>1, <1>3, <2>6, SessionPumpedCore
  <2>8. {s} \ {s} = {}
    OBVIOUS
  <2> QED
    BY <1>1, <1>5, <1>7, <2>7, <2>8 DEF IInv, w
<1> QED
  BY <1>6, <1>7

(* A manual cron run takes its job's slot. *)
LEMMA SubmitJobKeeps ==
  ASSUME IInv, NEW r \in Runs, SubmitJob(r)
  PROVE  IInv'
<1> DEFINE t == Job(r)
<1>1. epoch' = epoch /\ epoch \in Nat /\ epoch' \in Nat
  BY DEF IInv, SubmitJob
<1>2. Core(lanes, epoch', {}, {}) /\ Flow(lanes, epoch') /\ lanes \in LaneState
  BY <1>1 DEF IInv, Core, Flow
<1>3. /\ t \in Tasks /\ Home(t) = "cron" /\ "cron" \in Lanes /\ "cron" \in GlobalLanes
      /\ lanes.phase[t] = "new"
      /\ \A q \in Runs : /\ Outer(q) \in Tasks /\ Inner(q) \in Tasks
                         /\ Inner(q) # t /\ Outer(q) # t
  BY TaskFacts, LaneFacts DEF SubmitJob, GlobalLanes
<1>4. lanes' = IF draining THEN Marked(lanes, t, "refused")
               ELSE Pumped(Pushed(lanes, "cron", t), "cron")
  BY DEF SubmitJob, Marked
<1> HIDE DEF t
<1>5. CASE draining
  <2> DEFINE w == Marked(lanes, t, "refused")
  <2>1. "refused" \in Ended /\ "refused" \in Phases
    BY DEF Ended, Phases
  <2>2. Flow(w, epoch')
    BY <1>1, <1>2, <1>3, <2>1, MarkedFlow
  <2>3. /\ w.queue = lanes.queue /\ w.active = lanes.active
        /\ \A u \in Tasks : w.phase[u] = IF u = t THEN "refused" ELSE lanes.phase[u]
    BY <1>2, <1>3, <2>1, MarkedIs
  <2> HIDE DEF w
  <2>4. \A k \in Sessions : /\ SlotOK(lanes, k) => SlotOK(w, k)
                            /\ BusyOK(lanes, k) => BusyOK(w, k)
    BY <2>3 DEF SlotOK, BusyOK
  <2>5. \A q \in Runs : /\ BeforeOK(lanes, q) => BeforeOK(w, q)
                        /\ HandedOK(lanes, q) => HandedOK(w, q)
    BY <1>3, <2>3 DEF BeforeOK, HandedOK
  <2>6. Core(w, epoch', {}, {})
    BY <1>2, <2>2, <2>4, <2>5 DEF Core
  <2> QED
    BY <1>1, <1>4, <1>5, <2>6 DEF IInv, w
<1>6. CASE ~draining
  <2> DEFINE w == Pushed(lanes, "cron", t)
  <2>1. Flow(w, epoch')
    <3>1. Flow(Pushed(lanes, Home(t), t), epoch')
      BY <1>1, <1>2, <1>3, PushedFlow
    <3> QED
      BY <1>3, <3>1
  <2>2. /\ \A k \in Lanes \ {"cron"} : w.queue[k] = lanes.queue[k]
        /\ w.active = lanes.active
        /\ \A u \in Tasks : w.phase[u] = IF u = t THEN "queued" ELSE lanes.phase[u]
    BY <1>2, <1>3, PushedIs
  <2> HIDE DEF w
  <2>3. \A k \in Sessions : k \in Lanes \ {"cron"}
    BY LaneFacts DEF GlobalLanes
  <2>4. \A k \in Sessions : /\ SlotOK(lanes, k) => SlotOK(w, k)
                            /\ BusyOK(lanes, k) => BusyOK(w, k)
    BY <2>2, <2>3 DEF SlotOK, BusyOK
  <2>5. \A q \in Runs : /\ BeforeOK(lanes, q) => BeforeOK(w, q)
                        /\ HandedOK(lanes, q) => HandedOK(w, q)
    BY <1>3, <2>2 DEF BeforeOK, HandedOK
  <2>6. Core(w, epoch', {}, {})
    BY <1>2, <2>1, <2>4, <2>5 DEF Core
  <2>7. Core(PumpedIn(w, "cron", epoch'), epoch', {}, {})
    BY <1>1, <1>3, <2>6, PumpedCore
  <2> QED
    BY <1>1, <1>4, <1>6, <2>7, PumpedInNow DEF IInv, w
<1> QED
  BY <1>5, <1>6

(* The end of a task of a lane other than the sessions', and the pump that *)
(* follows it unless a reset came in between.                              *)
LEMMA GlobalTaskEnds ==
  ASSUME IInv, epoch' = epoch, NEW t \in Tasks, Home(t) \in GlobalLanes,
         lanes.phase[t] = "running", NEW p \in Ended,
         lanes' = LET st == Completed(lanes, Home(t), t, p)
                  IN  IF lanes.startedIn[t] = epoch THEN Pumped(st, Home(t)) ELSE st
  PROVE  IInv'
<1> DEFINE l == Home(t)
           w == CompletedIn(lanes, l, t, p, epoch)
<1>1. epoch \in Nat /\ epoch' \in Nat /\ Core(lanes, epoch, {}, {})
  BY DEF IInv
<1>2. Flow(lanes, epoch)
  BY <1>1 DEF Core
<1>3. /\ Flow(w, epoch)
      /\ w.queue = lanes.queue
      /\ \A k \in Lanes \ {l} : w.active[k] = lanes.active[k]
      /\ \A u \in Tasks : w.phase[u] = IF u = t THEN p ELSE lanes.phase[u]
  BY <1>1, <1>2, CompletedIs
<1>4. \A k \in Sessions : k \in Lanes \ {l}
  BY LaneFacts
<1>5. \A r \in Runs : Outer(r) \in Tasks /\ Inner(r) \in Tasks /\ Outer(r) # t
  BY TaskFacts, GlobalTask
<1>6. p \notin {"new", "queued", "running"}
  BY DEF Ended
<1>7. lanes' = IF lanes.startedIn[t] = epoch THEN PumpedIn(w, l, epoch') ELSE w
  BY CompletedInNow, PumpedInNow
<1> HIDE DEF w
<1>8. \A k \in Sessions : /\ SlotOK(lanes, k) => SlotOK(w, k)
                          /\ BusyOK(lanes, k) => BusyOK(w, k)
  BY <1>3, <1>4 DEF SlotOK, BusyOK
<1>9. \A r \in Runs : /\ BeforeOK(lanes, r) => BeforeOK(w, r)
                      /\ HandedOK(lanes, r) => HandedOK(w, r)
  BY <1>3, <1>5, <1>6 DEF BeforeOK, HandedOK
<1>10. Core(w, epoch', {}, {})
  BY <1>1, <1>3, <1>8, <1>9 DEF Core
<1>11. Core(PumpedIn(w, l, epoch'), epoch', {}, {})
  BY <1>1, <1>10, PumpedCore
<1> QED
  BY <1>1, <1>7, <1>10, <1>11 DEF IInv

LEMMA JobSettleKeeps ==
  ASSUME IInv, NEW r \in Runs, JobSettle(r)
  PROVE  IInv'
<1>1. /\ Job(r) \in Tasks /\ Home(Job(r)) = "cron" /\ "cron" \in GlobalLanes
      /\ "ok" \in Ended /\ epoch' = epoch /\ lanes.phase[Job(r)] = "running"
  BY TaskFacts DEF JobSettle, GlobalLanes, Ended
<1>2. lanes' = LET st == Completed(lanes, "cron", Job(r), "ok")
               IN  IF lanes.startedIn[Job(r)] = epoch THEN Pumped(st, "cron") ELSE st
  BY DEF JobSettle
<1> QED
  BY <1>1, <1>2, GlobalTaskEnds

LEMMA FinishInnerKeeps ==
  ASSUME IInv, NEW r \in Runs, NEW outcome \in {"ok", "failed"}, FinishInner(r, outcome)
  PROVE  IInv'
<1>1. /\ Inner(r) \in Tasks /\ Home(Inner(r)) = GlobalLane(r)
      /\ GlobalLane(r) \in GlobalLanes
      /\ outcome \in Ended /\ epoch' = epoch /\ lanes.phase[Inner(r)] = "running"
  BY TaskFacts, LaneFacts DEF FinishInner, GlobalLanes, Ended
<1>2. lanes' = LET st == Completed(lanes, GlobalLane(r), Inner(r), outcome)
               IN  IF lanes.startedIn[Inner(r)] = epoch THEN Pumped(st, GlobalLane(r)) ELSE st
  BY DEF FinishInner
<1> QED
  BY <1>1, <1>2, GlobalTaskEnds

(* The session task sees the end of its run and gives its slot on. *)
LEMMA SettleOuterKeeps ==
  ASSUME IInv, NEW r \in Runs, SettleOuter(r)
  PROVE  IInv'
<1> DEFINE t == Outer(r)
           s == SessionOf[r]
           p == IF lanes.phase[Inner(r)] = "ok" THEN "ok" ELSE "failed"
           w == CompletedIn(lanes, s, t, p, epoch)
<1>1. /\ epoch \in Nat /\ epoch' = epoch /\ epoch' \in Nat
      /\ Core(lanes, epoch, {}, {}) /\ Flow(lanes, epoch)
  BY DEF IInv, Core, SettleOuter
<1>2. /\ t \in Tasks /\ Home(t) = s /\ s \in Sessions /\ s \in Lanes
      /\ lanes.phase[t] = "running" /\ lanes.phase[Inner(r)] \in Ended
      /\ \A q \in Runs : /\ Outer(q) \in Tasks /\ Inner(q) \in Tasks
                         /\ Inner(q) # t
                         /\ q # r => Outer(q) # t
  BY TaskFacts, LaneFacts DEF SettleOuter
<1>3. p \in Ended
  BY DEF Ended
<1>4. /\ Flow(w, epoch)
      /\ w.queue = lanes.queue
      /\ w.active[s] = lanes.active[s] \ {t}
      /\ \A k \in Lanes \ {s} : w.active[k] = lanes.active[k]
      /\ \A u \in Tasks : w.phase[u] = IF u = t THEN p ELSE lanes.phase[u]
  BY <1>1, <1>2, <1>3, CompletedIs
<1>5. lanes' = IF lanes.startedIn[t] = epoch THEN SessionPumped(w, s) ELSE w
  BY CompletedInNow DEF SettleOuter
<1>6. p \notin {"new", "queued", "running"} /\ lanes.phase[Inner(r)] \notin {"new", "queued", "running"}
  BY <1>2, <1>3 DEF Ended
<1>7. lanes.startedIn[t] # epoch => w.active[s] = lanes.active[s]
  <2>1. ActiveOK(lanes, s, epoch)
    BY <1>1, <1>2 DEF Flow
  <2> QED
    BY <1>4, <2>1 DEF ActiveOK
<1> HIDE DEF w, p, t, s
<1>8. \A k \in Sessions : SlotOK(lanes, k) => SlotOK(w, k)
  <2>1. \A k \in Sessions : w.active[k] \subseteq lanes.active[k]
    BY <1>4, LaneFacts
  <2> QED
    BY <2>1 DEF SlotOK
<1>9. \A k \in Sessions \ {s} : BusyOK(lanes, k) => BusyOK(w, k)
  BY <1>4, LaneFacts DEF BusyOK
<1>10. \A q \in Runs : /\ BeforeOK(lanes, q) => BeforeOK(w, q)
                       /\ HandedOK(lanes, q) => HandedOK(w, q)
  BY <1>2, <1>4, <1>6 DEF BeforeOK, HandedOK, t
<1>11. Core(w, epoch', {}, {s})
  BY <1>1, <1>4, <1>8, <1>9, <1>10 DEF Core
<1>12. CASE lanes.startedIn[t] = epoch
  <2>1. Core(SessionPumped(w, s), epoch', {}, {s} \ {s})
    BY <1>1, <1>2, <1>11, SessionPumpedCore
  <2>2. {s} \ {s} = {}
    OBVIOUS
  <2> QED
    BY <1>1, <1>5, <1>12, <2>1, <2>2 DEF IInv
<1>13. CASE lanes.startedIn[t] # epoch
  <2>1. BusyOK(lanes, s) => BusyOK(w, s)
    BY <1>4, <1>7, <1>13 DEF BusyOK
  <2>2. Core(w, epoch', {}, {})
    BY <1>1, <1>2, <1>11, <2>1 DEF Core
  <2> QED
    BY <1>1, <1>5, <1>13, <2>2 DEF IInv
<1> QED
  BY <1>12, <1>13

(* The entries of a cleared session lane were not handed over yet. *)
LEMMA ClearSessionKeeps ==
  ASSUME IInv, NEW s \in Sessions, ClearSession(s)
  PROVE  IInv'
<1> DEFINE C == ToSet(lanes.queue[s])
           Q == [lanes.queue EXCEPT ![s] = <<>>]
           P == [t \in Tasks |-> IF t \in C THEN "cleared" ELSE lanes.phase[t]]
           w == lanes'
<1>1. /\ epoch \in Nat /\ epoch' = epoch /\ epoch' \in Nat /\ s \in Lanes
      /\ Core(lanes, epoch', {}, {}) /\ Flow(lanes, epoch') /\ lanes \in LaneState
  BY LaneFacts DEF IInv, Core, Flow, ClearSession
<1>2. w = [lanes EXCEPT !.queue = Q, !.phase = P]
  BY Zenon DEF ClearSession
<1>3. /\ Q \in [Lanes -> Seq(Tasks)]
      /\ Q[s] = <<>> /\ \A k \in Lanes \ {s} : Q[k] = lanes.queue[k]
  BY <1>1 DEF LaneState
<1>4. P \in [Tasks -> Phases] /\ \A t \in Tasks : P[t] = IF t \in C THEN "cleared" ELSE lanes.phase[t]
  BY <1>1 DEF LaneState, Phases, Ended
<1>5. \A t \in C : t \in Tasks /\ Home(t) = s /\ lanes.phase[t] = "queued"
  <2>1. QueueOK(lanes, s) /\ lanes.queue[s] \in Seq(Tasks)
    BY <1>1 DEF Flow, LaneState
  <2>2. C = {lanes.queue[s][i] : i \in 1 .. Len(lanes.queue[s])}
    BY <2>1 DEF ToSet
  <2> QED
    BY <2>1, <2>2 DEF QueueOK
<1> HIDE DEF w, Q, P, C
<1>6. /\ w \in LaneState /\ w.phase = P /\ w.queue = Q
      /\ w.active = lanes.active /\ w.startedIn = lanes.startedIn
  BY <1>1, <1>2, <1>3, <1>4 DEF LaneState
<1>7. ASSUME NEW k \in Lanes PROVE QueueOK(w, k)
  <2>1. QueueOK(lanes, k) /\ lanes.queue[k] \in Seq(Tasks)
    BY <1>1 DEF Flow, LaneState
  <2>2. CASE k = s
    BY <1>3, <1>6, <2>2 DEF QueueOK
  <2>3. CASE k # s
    <3>1. \A i \in 1 .. Len(lanes.queue[k]) : lanes.queue[k][i] \in Tasks \ C
      BY <1>5, <2>1, <2>3 DEF QueueOK
    <3>2. w.queue[k] = lanes.queue[k]
      BY <1>3, <1>6, <2>3
    <3>3. \A i \in 1 .. Len(lanes.queue[k]) :
            w.phase[lanes.queue[k][i]] = lanes.phase[lanes.queue[k][i]]
      BY <1>4, <1>6, <3>1
    <3> QED
      BY <2>1, <3>2, <3>3 DEF QueueOK
  <2> QED
    BY <2>2, <2>3
<1>8. ASSUME NEW k \in Lanes PROVE ActiveOK(w, k, epoch')
  <2>1. ActiveOK(lanes, k, epoch') /\ lanes.active[k] \subseteq Tasks
    BY <1>1 DEF Flow, LaneState
  <2> QED
    BY <1>4, <1>5, <1>6, <2>1 DEF ActiveOK
<1>9. ASSUME NEW t \in Tasks PROVE RunningOK(w, t, epoch')
  <2>1. RunningOK(lanes, t, epoch')
    BY <1>1 DEF Flow
  <2> QED
    BY <1>4, <1>6, <2>1 DEF RunningOK
<1>10. \A k \in Sessions : /\ SlotOK(lanes, k) => SlotOK(w, k)
                           /\ BusyOK(lanes, k) => BusyOK(w, k)
  <2>1. \A k \in Sessions : k \in Lanes /\ (w.queue[k] # <<>> => lanes.queue[k] # <<>>)
    BY <1>3, <1>6, LaneFacts
  <2> QED
    BY <1>6, <2>1 DEF SlotOK, BusyOK
<1>11. \A r \in Runs : Outer(r) \in Tasks /\ Inner(r) \in Tasks /\ Inner(r) \notin C
  BY <1>5, TaskFacts, LaneFacts DEF GlobalLanes
<1>12. ASSUME NEW r \in Runs PROVE BeforeOK(w, r) /\ HandedOK(w, r)
  <2>1. BeforeOK(lanes, r) /\ HandedOK(lanes, r)
    BY <1>1 DEF Core
  <2> QED
    BY <1>4, <1>5, <1>6, <1>11, <2>1 DEF BeforeOK, HandedOK
<1>13. Core(w, epoch', {}, {})
  BY <1>1, <1>6, <1>7, <1>8, <1>9, <1>10, <1>12 DEF Core, Flow
<1> QED
  BY <1>1, <1>13 DEF IInv, w

-----------------------------------------------------------------------------
(* The reset pumps every lane with work, one after the other. *)

LEMMA Least ==
  ASSUME NEW T \in SUBSET Nat, T # {}
  PROVE  \E x \in T : \A y \in T : x <= y
<1> DEFINE R == OpToRel(<, Nat)
<1>1. IsWellFoundedOn(R, Nat)
  BY NatLessThanWellFounded
<1>2. \A x, y \in Nat : x < y => <<x, y>> \in R
  BY DEF OpToRel
<1> HIDE DEF R
<1>3. PICK x \in T : \A y \in T : ~ (<<y, x>> \in R)
  BY <1>1, WFMin
<1>4. ASSUME NEW y \in T PROVE x <= y
  <2>1. x \in Nat /\ y \in Nat
    OBVIOUS
  <2>2. ~ (y < x)
    BY <1>2, <1>3, <2>1
  <2> QED
    BY <2>1, <2>2
<1> QED
  BY <1>4

(* The recursive function behind the fold exists: the one for k + 1 lanes  *)
(* extends the one for k.                                                  *)
LEMMA FoldExists ==
  ASSUME NEW st, NEW seq, NEW n \in Nat
  PROVE  \E f : Iterates(f, st, seq, 1 .. n)
<1> DEFINE Has(k) == \E f : Iterates(f, st, seq, 1 .. k)
           Bad == {k \in Nat : ~Has(k)}
<1>1. Has(0)
  <2> DEFINE f == [s \in SUBSET (1 .. 0) |-> st]
  <2>1. \A s \in SUBSET (1 .. 0) : s = {}
    OBVIOUS
  <2>2. Iterates(f, st, seq, 1 .. 0)
    BY <2>1 DEF Iterates
  <2> QED
    BY <2>2
<1>2. ASSUME NEW k \in Nat, Has(k) PROVE Has(k + 1)
  <2>1. PICK f : Iterates(f, st, seq, 1 .. k)
    BY <1>2
  <2> DEFINE m == k + 1
             D == 1 .. m
             g == [s \in SUBSET D |-> IF m \in s THEN PumpedAny(f[s \ {m}], seq[m]) ELSE f[s]]
  <2>2. /\ m \in Nat /\ m \notin 1 .. k
        /\ \A s \in SUBSET D : s \ {m} \in SUBSET (1 .. k)
    OBVIOUS
  <2>3. \A s \in SUBSET (1 .. k) :
          f[s] = IF s = {} THEN st ELSE PumpedAny(f[s \ {Max(s)}], seq[Max(s)])
    BY <2>1 DEF Iterates
  <2>4. SUBSET (1 .. k) \subseteq SUBSET D
    OBVIOUS
  <2>5. \A s \in SUBSET (1 .. k) : g[s] = f[s]
    BY <2>2, <2>4
  <2>6. ASSUME NEW s \in SUBSET D
        PROVE  g[s] = IF s = {} THEN st ELSE PumpedAny(g[s \ {Max(s)}], seq[Max(s)])
    <3>1. CASE m \in s
      <4>1. Max(s) = m /\ s # {}
        BY <2>2, <3>1, MaxUpTo
      <4>2. g[s \ {m}] = f[s \ {m}]
        BY <2>2, <2>5
      <4>3. g[s] = PumpedAny(f[s \ {m}], seq[m])
        BY <3>1
      <4> QED
        BY <4>1, <4>2, <4>3
    <3>2. CASE m \notin s
      <4>1. s \in SUBSET (1 .. k) /\ s \ {Max(s)} \in SUBSET (1 .. k)
        BY <2>2, <3>2
      <4>2. g[s] = f[s] /\ g[s \ {Max(s)}] = f[s \ {Max(s)}]
        BY <2>5, <4>1
      <4> QED
        BY <2>3, <4>1, <4>2
    <3> QED
      BY <3>1, <3>2
  <2>7. g = [s \in SUBSET D |-> g[s]]
    OBVIOUS
  <2> HIDE DEF g
  <2>8. Iterates(g, st, seq, D)
    BY <2>6, <2>7 DEF Iterates
  <2> QED
    BY <2>8
<1> HIDE DEF Has
<1>3. Bad = {}
  <2> SUFFICES ASSUME Bad # {} PROVE FALSE
    OBVIOUS
  <2>1. PICK k \in Bad : \A y \in Bad : k <= y
    BY Least
  <2>2. k # 0 /\ k \in Nat /\ ~Has(k)
    BY <1>1, <2>1
  <2>3. k - 1 \in Nat /\ Has(k - 1)
    BY <2>1, <2>2
  <2>4. Has(k - 1 + 1)
    BY <1>2, <2>3
  <2> QED
    BY <2>2, <2>4
<1> QED
  BY <1>3 DEF Has

(* Pumping the lanes of seq in turn serves the sessions among them. *)
LEMMA PumpedAnyCore ==
  ASSUME epoch' \in Nat, NEW st, NEW Y, Core(st, epoch', {}, Y), NEW l \in Lanes
  PROVE  Core(PumpedAny(st, l), epoch', {}, Y \ {l})
<1>1. CASE l \in Sessions
  BY <1>1, SessionPumpedCore DEF PumpedAny
<1>2. CASE l \notin Sessions
  <2>1. l \in GlobalLanes
    BY <1>2, LaneFacts
  <2>2. Core(Pumped(st, l), epoch', {}, Y)
    BY <2>1, PumpedCore, PumpedInNow
  <2>3. Core(Pumped(st, l), epoch', {}, Y \ {l})
    BY <1>2, <2>2 DEF Core
  <2> QED
    BY <1>2, <2>3 DEF PumpedAny
<1> QED
  BY <1>1, <1>2

LEMMA PumpedAllCore ==
  ASSUME epoch' \in Nat, NEW n \in Nat, NEW seq \in [1 .. n -> Lanes], NEW st,
         NEW Y, Y \subseteq {seq[i] : i \in 1 .. n}, Core(st, epoch', {}, Y)
  PROVE  Core(FoldLeft(PumpedAny, st, seq), epoch', {}, {})
<1> DEFINE D == 1 .. n
           f == CHOOSE f : Iterates(f, st, seq, D)
           Left(k) == {seq[i] : i \in k + 1 .. n}
           Served(k) == Core(f[1 .. k], epoch', {}, Left(k))
           Bad == {k \in 0 .. n : ~Served(k)}
<1>1. DOMAIN seq = D
  OBVIOUS
<1>2. FoldLeft(PumpedAny, st, seq) = f[D]
  BY <1>1, FoldUnfolds
<1>3. Iterates(f, st, seq, D)
  BY FoldExists
<1> HIDE DEF f
<1>4. \A s \in SUBSET D :
        f[s] = IF s = {} THEN st ELSE PumpedAny(f[s \ {Max(s)}], seq[Max(s)])
  BY <1>3 DEF Iterates
<1>5. Served(0)
  <2>1. 1 .. 0 = {} /\ {} \in SUBSET D /\ 0 + 1 = 1
    OBVIOUS
  <2>2. f[1 .. 0] = st
    BY <1>4, <2>1
  <2>3. Y \subseteq Left(0)
    BY <2>1
  <2>4. Core(st, epoch', {}, Left(0))
    BY <2>3 DEF Core
  <2> QED
    BY <2>2, <2>4
<1>6. ASSUME NEW k \in 0 .. n - 1, Served(k) PROVE Served(k + 1)
  <2> DEFINE m == k + 1
             s == 1 .. m
  <2>1. /\ m \in Nat /\ m \in 1 .. n
        /\ s \in SUBSET D /\ s # {} /\ m \in s
        /\ s \ {m} = 1 .. k
    <3>1. k \in Nat /\ k + 1 <= n
      OBVIOUS
    <3>2. m \in Nat /\ m \in 1 .. n
      BY <3>1
    <3>3. \A i : i \in s => i \in D
      BY <3>1
    <3>4. m \in s
      BY <3>1
    <3>5. \A i : i \in s \ {m} <=> i \in 1 .. k
      BY <3>1
    <3> QED
      BY <3>2, <3>3, <3>4, <3>5
  <2>2. Max(s) = m
    BY <2>1, MaxUpTo
  <2>3. f[s] = PumpedAny(f[1 .. k], seq[m])
    BY <1>4, <2>1, <2>2
  <2>4. seq[m] \in Lanes
    BY <2>1
  <2>5. Left(k) \ {seq[m]} \subseteq Left(m)
    <3>1. \A i \in k + 1 .. n : i = m \/ i \in m + 1 .. n
      OBVIOUS
    <3> QED
      BY <3>1
  <2> HIDE DEF Left, m, s
  <2>6. Core(PumpedAny(f[1 .. k], seq[m]), epoch', {}, Left(k) \ {seq[m]})
    BY <1>6, <2>4, PumpedAnyCore
  <2>7. Core(f[s], epoch', {}, Left(m))
    BY <2>3, <2>5, <2>6 DEF Core
  <2> QED
    BY <2>7 DEF m, s
<1> HIDE DEF Served
<1>7. Bad = {}
  <2> SUFFICES ASSUME Bad # {} PROVE FALSE
    OBVIOUS
  <2>1. Bad \in SUBSET Nat
    OBVIOUS
  <2>2. PICK k \in Bad : \A y \in Bad : k <= y
    BY <2>1, Least
  <2>3. k # 0 /\ k \in 0 .. n /\ ~Served(k)
    BY <1>5, <2>2
  <2>4. k - 1 \in 0 .. n - 1 /\ Served(k - 1)
    BY <2>2, <2>3
  <2>5. Served(k - 1 + 1)
    BY <1>6, <2>4
  <2>6. k - 1 + 1 = k
    BY <2>3
  <2> QED
    BY <2>3, <2>5, <2>6
<1>8. Served(n) /\ Left(n) = {}
  BY <1>7
<1> QED
  BY <1>2, <1>8 DEF Served

LEMMA ResetKeeps ==
  ASSUME IInv, Reset
  PROVE  IInv'
<1> DEFINE A == [l \in Lanes |-> {}]
           idle == [lanes EXCEPT !.active = A]
           W == {l \in Lanes : lanes.queue[l] # <<>>}
<1>1. /\ epoch \in Nat /\ epoch' = epoch + 1 /\ epoch' \in Nat
      /\ Core(lanes, epoch, {}, {}) /\ Flow(lanes, epoch) /\ lanes \in LaneState
  BY DEF IInv, Core, Flow, Reset
<1>2. PICK order \in SetToSeqs(W) : lanes' = FoldLeft(PumpedAny, idle, order)
  BY DEF Reset
<1>3. /\ IsFiniteSet(W) /\ Cardinality(W) \in Nat /\ W \subseteq Lanes
  <2>1. IsFiniteSet(GlobalLanes)
    <3>1. GlobalLanes = {"main"} \cup {"cron"} \cup {"nested"}
      BY DEF GlobalLanes
    <3>2. IsFiniteSet({"main"}) /\ IsFiniteSet({"cron"}) /\ IsFiniteSet({"nested"})
      BY FS_Singleton
    <3>3. IsFiniteSet({"main"} \cup {"cron"})
      BY <3>2, FS_Union
    <3> QED
      BY <3>1, <3>2, <3>3, FS_Union
  <2>2. IsFiniteSet(Lanes)
    BY <2>1, LaneFacts, SessionRunsAssumption, FS_Union
  <2>3. IsFiniteSet(W) /\ W \subseteq Lanes
    BY <2>2, FS_Subset
  <2> QED
    BY <2>3, FS_CardinalityType
<1> DEFINE n == Cardinality(W)
<1>4. order \in [1 .. n -> W] /\ \A i, j \in 1 .. n : i # j => order[i] # order[j]
  BY <1>2 DEF SetToSeqs
<1> HIDE DEF W
<1>5. W \subseteq {order[i] : i \in 1 .. n}
  <2>1. order \in Injection(1 .. n, W)
    BY <1>4 DEF Injection, IsInjective
  <2>2. IsFiniteSet(1 .. n) /\ Cardinality(1 .. n) = n
    BY <1>3, FS_Interval
  <2>3. order \in Surjection(1 .. n, W)
    BY <1>3, <2>1, <2>2, FS_Injection
  <2> QED
    BY <2>3 DEF Surjection
<1> HIDE DEF n
<1>6. n \in Nat
  BY <1>3 DEF n
<1>7. A \in [Lanes -> SUBSET Tasks] /\ \A l \in Lanes : A[l] = {}
  OBVIOUS
<1> HIDE DEF A
<1>8. /\ idle \in LaneState /\ idle.active = A
      /\ idle.queue = lanes.queue /\ idle.phase = lanes.phase /\ idle.startedIn = lanes.startedIn
  BY <1>1, <1>7 DEF LaneState
<1> HIDE DEF idle
<1>9. Core(idle, epoch', {}, W)
  <2>1. ASSUME NEW l \in Lanes PROVE QueueOK(idle, l) /\ ActiveOK(idle, l, epoch')
    <3>1. QueueOK(lanes, l)
      BY <1>1 DEF Flow
    <3>2. ActiveOK(idle, l, epoch')
      BY <1>7, <1>8, FS_EmptySet DEF ActiveOK
    <3> QED
      BY <1>8, <3>1, <3>2 DEF QueueOK
  <2>2. ASSUME NEW t \in Tasks PROVE RunningOK(idle, t, epoch')
    <3>1. lanes.startedIn[t] \in Nat /\ lanes.startedIn[t] <= epoch
      BY <1>1 DEF Flow, RunningOK, LaneState
    <3> QED
      BY <1>1, <1>8, <3>1 DEF RunningOK
  <2>3. \A s \in Sessions : SlotOK(idle, s)
    BY <1>7, <1>8, LaneFacts DEF SlotOK
  <2>4. \A s \in Sessions \ W : BusyOK(idle, s)
    BY <1>8, LaneFacts DEF BusyOK, W
  <2>5. \A r \in Runs : BeforeOK(idle, r) /\ HandedOK(idle, r)
    BY <1>1, <1>8 DEF Core, BeforeOK, HandedOK
  <2> QED
    BY <1>8, <2>1, <2>2, <2>3, <2>4, <2>5 DEF Core, Flow
<1>10. Core(FoldLeft(PumpedAny, idle, order), epoch', {}, {})
  <2>1. order \in [1 .. n -> Lanes]
    BY <1>3, <1>4 DEF n
  <2>2. W \subseteq {order[i] : i \in 1 .. n}
    BY <1>5 DEF n
  <2> QED
    BY <1>1, <1>6, <1>9, <2>1, <2>2, PumpedAllCore
<1> QED
  BY <1>1, <1>2, <1>10 DEF IInv

LEMMA InitIInv == Init => IInv
<1> SUFFICES ASSUME Init PROVE IInv
  OBVIOUS
<1>1. /\ epoch = 0
      /\ lanes \in LaneState
      /\ \A l \in Lanes : lanes.queue[l] = <<>> /\ lanes.active[l] = {}
      /\ \A t \in Tasks : lanes.phase[t] = "new" /\ lanes.startedIn[t] = 0
  BY DEF Init, LaneState, Phases
<1>2. \A l \in Lanes : QueueOK(lanes, l) /\ ActiveOK(lanes, l, 0)
  <2> SUFFICES ASSUME NEW l \in Lanes PROVE QueueOK(lanes, l) /\ ActiveOK(lanes, l, 0)
    OBVIOUS
  <2>1. lanes.queue[l] = <<>> /\ lanes.active[l] = {}
    BY <1>1
  <2>2. QueueOK(lanes, l)
    BY <2>1 DEF QueueOK
  <2>3. IsFiniteSet({})
    BY FS_EmptySet
  <2> QED
    BY <2>1, <2>2, <2>3 DEF ActiveOK
<1>3. \A t \in Tasks : RunningOK(lanes, t, 0)
  BY <1>1 DEF RunningOK
<1>4. \A s \in Sessions : SlotOK(lanes, s) /\ BusyOK(lanes, s)
  BY <1>1, LaneFacts DEF SlotOK, BusyOK
<1>5. \A r \in Runs : BeforeOK(lanes, r) /\ HandedOK(lanes, r)
  BY <1>1, TaskFacts DEF BeforeOK, HandedOK
<1> QED
  BY <1>1, <1>2, <1>3, <1>4, <1>5 DEF IInv, Core, Flow

LEMMA NextIInv == IInv /\ [Next]_vars => IInv'
<1> SUFFICES ASSUME IInv, [Next]_vars PROVE IInv'
  OBVIOUS
<1>1. ASSUME NEW r \in Runs, SubmitRun(r) PROVE IInv'
  BY <1>1, SubmitKeeps DEF SubmitRun
<1>2. ASSUME NEW r \in Runs, SubmitJob(r) PROVE IInv'
  BY <1>2, SubmitJobKeeps
<1>3. ASSUME NEW r \in Runs, JobDispatch(r) PROVE IInv'
  BY <1>3, SubmitKeeps DEF JobDispatch
<1>4. ASSUME NEW r \in Runs, JobSettle(r) PROVE IInv'
  BY <1>4, JobSettleKeeps
<1>5. ASSUME NEW r \in Runs, NEW outcome \in {"ok", "failed"}, FinishInner(r, outcome)
      PROVE  IInv'
  BY <1>5, FinishInnerKeeps
<1>6. ASSUME NEW r \in Runs, SettleOuter(r) PROVE IInv'
  BY <1>6, SettleOuterKeeps
<1>7. ASSUME NEW s \in Sessions, ClearSession(s) PROVE IInv'
  BY <1>7, ClearSessionKeeps
<1>8. CASE BeginDrain
  BY <1>8 DEF BeginDrain, IInv
<1>9. CASE Reset
  BY <1>9, ResetKeeps
<1>10. CASE UNCHANGED vars
  BY <1>10 DEF vars, IInv
<1> QED
  BY <1>1, <1>2, <1>3, <1>4, <1>5, <1>6, <1>7, <1>8, <1>9, <1>10 DEF Next

LEMMA AlwaysIInv == Spec => []IInv
BY InitIInv, NextIInv, PTL DEF Spec

-----------------------------------------------------------------------------

LEMMA AtMostOne ==
  ASSUME NEW S, \A x, y \in S : x = y
  PROVE  Cardinality(S) <= 1
<1>1. CASE S = {}
  BY <1>1, FS_EmptySet
<1>2. CASE S # {}
  <2>1. PICK x \in S : TRUE
    BY <1>2
  <2>2. S = {x}
    BY <2>1
  <2> QED
    BY <2>2, FS_Singleton
<1> QED
  BY <1>1, <1>2

(* "Only one agent run touches a given session at a time": until the first *)
(* in-process restart, of the runs of a session at most one waits for a    *)
(* global slot or holds one.  The session task of such a run holds the     *)
(* only slot of the session's lane.                                        *)
THEOREM OneRunAtATime == Spec => []OneRunPerSession
<1>1. IInv => OneRunPerSession
  <2> SUFFICES ASSUME IInv, epoch = 0, NEW s \in Sessions
               PROVE  Cardinality({r \in Runs : /\ SessionOf[r] = s
                        /\ lanes.phase[Inner(r)] \in {"queued", "running"}}) <= 1
    BY DEF OneRunPerSession
  <2> DEFINE R == {r \in Runs : /\ SessionOf[r] = s
                                /\ lanes.phase[Inner(r)] \in {"queued", "running"}}
  <2>1. Core(lanes, 0, {}, {})
    BY DEF IInv
  <2>2. ASSUME NEW r \in R PROVE Outer(r) \in lanes.active[s]
    <3>1. lanes.phase[Outer(r)] = "running"
      BY <2>1 DEF Core, BeforeOK
    <3>2. Outer(r) \in Tasks /\ Home(Outer(r)) = s
      BY TaskFacts
    <3>3. RunningOK(lanes, Outer(r), 0) /\ lanes.startedIn[Outer(r)] \in Nat
      BY <2>1, <3>2 DEF Core, Flow, LaneState
    <3> QED
      BY <3>1, <3>2, <3>3 DEF RunningOK
  <2>3. SlotOK(lanes, s)
    BY <2>1 DEF Core
  <2>4. \A r, q \in R : r = q
    BY <2>2, <2>3, TaskFacts DEF SlotOK
  <2> HIDE DEF R
  <2>5. Cardinality(R) <= 1
    BY <2>4, AtMostOne
  <2> QED
    BY <2>5 DEF R
<1> QED
  BY <1>1, AlwaysIInv, PTL

(* Neither lane leaks a slot the other still counts on, whatever restarts  *)
(* and clears intervene: a session slot of this epoch belongs to a run     *)
(* that has been handed over, the lane is never left with work and no      *)
(* holder, and the session task outlives the run it handed over.           *)
THEOREM LanesAgree == Spec => []SlotsAgree
<1>1. IInv => SlotsAgree
  <2> SUFFICES ASSUME IInv PROVE SlotsAgree
    OBVIOUS
  <2>1. Core(lanes, epoch, {}, {}) /\ Flow(lanes, epoch) /\ lanes \in LaneState
    BY DEF IInv, Core, Flow
  <2>2. ASSUME NEW s \in Sessions
        PROVE  /\ Cardinality(lanes.active[s]) <= 1
               /\ lanes.queue[s] # <<>> => lanes.active[s] # {}
    <3>1. SlotOK(lanes, s) /\ BusyOK(lanes, s)
      BY <2>1 DEF Core
    <3> QED
      BY <3>1, AtMostOne DEF SlotOK, BusyOK
  <2>3. ASSUME NEW s \in Sessions, NEW t \in lanes.active[s]
        PROVE  lanes.phase[Inner(t[2])] # "new"
    <3>1. t \in Tasks /\ Home(t) = s /\ lanes.phase[t] = "running"
      BY <2>1, LaneFacts DEF Flow, ActiveOK, LaneState
    <3>2. PICK r \in Runs : t = Outer(r)
      BY <3>1, SessionTask
    <3>3. HandedOK(lanes, r) /\ t[2] = r
      BY <2>1, <3>2 DEF Core, Outer
    <3> QED
      BY <3>1, <3>2, <3>3 DEF HandedOK
  <2>4. ASSUME NEW r \in Runs, lanes.phase[Inner(r)] \in {"queued", "running"}
        PROVE  lanes.phase[Outer(r)] = "running"
    BY <2>1, <2>4 DEF Core, BeforeOK
  <2> QED
    BY <2>2, <2>3, <2>4 DEF SlotsAgree
<1> QED
  BY <1>1, AlwaysIInv, PTL

(* Only the bounded resets advance the epoch. *)
Bounded ==
  /\ draining \in BOOLEAN
  /\ epoch \in 0 .. MaxResets
  /\ draining => epoch < MaxResets

LEMMA AlwaysBounded == Spec => []Bounded
<1>1. Init => Bounded
  <2> SUFFICES ASSUME Init PROVE Bounded
    OBVIOUS
  <2>1. draining = FALSE /\ epoch = 0
    BY DEF Init
  <2>2. epoch \in 0 .. MaxResets
    BY <2>1, SessionRunsAssumption
  <2> QED
    BY <2>1, <2>2, Zenon DEF Bounded
<1>2. Bounded /\ [Next]_vars => Bounded'
  <2> SUFFICES ASSUME Bounded, [Next]_vars PROVE Bounded'
    OBVIOUS
  <2>1. CASE UNCHANGED <<draining, epoch>>
    BY <2>1 DEF Bounded
  <2>2. CASE BeginDrain
    BY <2>2 DEF BeginDrain, Bounded
  <2>3. CASE Reset
    <3>1. draining /\ draining' = FALSE /\ epoch' = epoch + 1
      BY <2>3 DEF Reset
    <3>2. draining => epoch < MaxResets
      BY DEF Bounded
    <3>3. epoch' \in 0 .. MaxResets
      BY <3>1, <3>2, SessionRunsAssumption DEF Bounded
    <3> QED
      BY <3>1, <3>3, Zenon DEF Bounded
  <2>4. Next => UNCHANGED <<draining, epoch>> \/ BeginDrain \/ Reset
    BY DEF Next, SubmitRun, SubmitJob, JobDispatch, Submit, JobSettle, FinishInner,
           SettleOuter, ClearSession
  <2> QED
    BY <2>1, <2>2, <2>3, <2>4 DEF vars
<1> QED
  BY <1>1, <1>2, PTL DEF Spec

(* Every variable stays in its range: a task is in a lane's queue or       *)
(* active set only as a task, and starts in an epoch that has begun.       *)
THEOREM TypeCorrect == Spec => []TypeOK
<1>1. IInv /\ Bounded => TypeOK
  <2> SUFFICES ASSUME IInv, Bounded PROVE TypeOK
    OBVIOUS
  <2>1. lanes \in LaneState
    BY DEF IInv, Core, Flow
  <2>2. \A t \in Tasks : lanes.startedIn[t] \in 0 .. MaxResets
    <3>1. \A t \in Tasks : lanes.startedIn[t] \in Nat /\ lanes.startedIn[t] <= epoch
      BY <2>1 DEF IInv, Core, Flow, RunningOK, LaneState
    <3> QED
      BY <3>1, SessionRunsAssumption DEF Bounded
  <2>3. lanes.startedIn \in [Tasks -> 0 .. MaxResets]
    BY <2>1, <2>2 DEF LaneState
  <2>4. lanes \in LanesType
    BY <2>1, <2>3 DEF LaneState, LanesType, Phases
  <2> QED
    BY <2>4 DEF TypeOK, Bounded
<1> QED
  BY <1>1, AlwaysIInv, AlwaysBounded, PTL

=============================================================================
