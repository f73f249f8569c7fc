------------------------- MODULE HeartbeatWakeProofs -------------------------
(***************************************************************************)
(* What HeartbeatWake does with wakes, batches and cooldowns, for any      *)
(* targets, reasons, delays, lifecycles, requests and failures.            *)
(***************************************************************************)
EXTENDS HeartbeatWake, FiniteSetTheorems, TLAPS

-----------------------------------------------------------------------------
(* Shapes. *)

WakeMaps == UNION {[S -> Reasons] : S \in SUBSET Targets}

BatchShape == [wakes : WakeMaps, todo : SUBSET Targets, call : Targets \cup {None},
               covers : SUBSET Request, delay : 0 .. Retry]

Timer == [kind : {"none", "normal", "retry"}, left : 0 .. Retry, delay : 0 .. Retry]

(* A batch in progress makes a call for one of its wakes, has others to    *)
(* do, and its call answers requests for that target of at most its        *)
(* priority.                                                               *)
BatchOK(b) ==
  batch[b] # NoBatch =>
    /\ batch[b].call \in DOMAIN batch[b].wakes
    /\ batch[b].todo \subseteq DOMAIN batch[b].wakes \ {batch[b].call}
    /\ \A q \in batch[b].covers :
         q.target = batch[b].call /\ Priority[q.reason] <= Priority[batch[b].wakes[batch[b].call]]

Shape ==
  /\ pending \in [Targets -> Reasons \cup {None}]
  /\ timer \in Timer
  /\ running \in BOOLEAN /\ scheduled \in BOOLEAN
  /\ batch \in [Batches -> BatchShape]
  /\ \A b \in Batches : BatchOK(b)
  /\ unserved \subseteq Request
  /\ cooling \in [Targets -> 0 .. Retry]
  /\ outlived \in BOOLEAN /\ hurried \in BOOLEAN

LEMMA WakeMap ==
  ASSUME NEW w \in WakeMaps
  PROVE  DOMAIN w \subseteq Targets /\ \A t \in DOMAIN w : w[t] \in Reasons
BY DEF WakeMaps

LEMMA NoBatchShape == NoBatch \in BatchShape /\ NoBatch.call = None /\ DOMAIN NoBatch.wakes = {}
<1>1. [t \in {} |-> None] \in WakeMaps
  <2>1. [t \in {} |-> None] \in [{} -> Reasons]
    OBVIOUS
  <2> QED
    BY <2>1 DEF WakeMaps
<1>2. 0 \in 0 .. Retry
  BY HeartbeatAssumption
<1> QED
  BY <1>1, <1>2 DEF NoBatch, BatchShape

(* A batch is in progress exactly when it makes a call. *)
LEMMA ActiveIsCalling ==
  ASSUME Shape
  PROVE  \A b \in Batches : b \in Active <=> batch[b].call # None
<1> SUFFICES ASSUME NEW b \in Batches PROVE b \in Active <=> batch[b].call # None
  OBVIOUS
<1>1. ASSUME batch[b] # NoBatch PROVE batch[b].call # None
  <2>1. batch[b].wakes \in WakeMaps
    BY DEF Shape, BatchShape
  <2> QED
    BY <1>1, <2>1, WakeMap, HeartbeatAssumption DEF Shape, BatchOK
<1> QED
  BY <1>1, NoBatchShape DEF Active

LEMMA ScheduleShape ==
  ASSUME NEW tm \in Timer, NEW d \in 0 .. Retry, NEW k \in {"normal", "retry"}
  PROVE  Schedule(tm, d, k) \in Timer
BY DEF Schedule, Timer

LEMMA PutShape ==
  ASSUME NEW p \in [Targets -> Reasons \cup {None}], NEW t \in Targets, NEW r \in Reasons
  PROVE  Put(p, t, r) \in [Targets -> Reasons \cup {None}]
BY DEF Put

LEMMA ShapeInit == Init => Shape
<1> SUFFICES ASSUME Init PROVE Shape
  OBVIOUS
<1>1. 0 \in 0 .. Retry
  BY HeartbeatAssumption
<1>2. timer \in Timer
  BY <1>1 DEF Init, Timer, NoTimer
<1>3. batch \in [Batches -> BatchShape] /\ \A b \in Batches : BatchOK(b)
  BY NoBatchShape DEF Init, BatchOK
<1> QED
  BY <1>1, <1>2, <1>3 DEF Init, Shape

LEMMA CallingIs ==
  ASSUME Shape, NEW x \in BatchShape, NEW t \in DOMAIN x.wakes
  PROVE  /\ Calling(x, t) \in BatchShape
         /\ Calling(x, t).wakes = x.wakes /\ Calling(x, t).todo = x.todo \ {t}
         /\ Calling(x, t).call = t /\ Calling(x, t).covers = Covered(t, x.wakes[t])
         /\ Calling(x, t) # NoBatch
<1>1. t \in Targets
  BY WakeMap DEF BatchShape
<1>2. Covered(t, x.wakes[t]) \subseteq Request
  BY DEF Covered, Shape
<1>3. Calling(x, t).call = t
  BY DEF Calling, BatchShape
<1>4. Calling(x, t) # NoBatch
  BY <1>1, <1>3, NoBatchShape, HeartbeatAssumption
<1> QED
  BY <1>1, <1>2, <1>3, <1>4 DEF Calling, BatchShape

(* What an answer leaves of the batch: its next call, or nothing. *)
LEMMA ContinueShape ==
  ASSUME Shape, NEW b \in Batches, b \in Active,
         NEW pend \in [Targets -> Reasons \cup {None}], NEW tm \in Timer, Continue(b, pend, tm)
  PROVE  /\ pending' \in [Targets -> Reasons \cup {None}]
         /\ timer' \in Timer
         /\ running' \in BOOLEAN
         /\ batch' \in [Batches -> BatchShape]
         /\ \A c \in Batches : BatchOK(c)'
<1>1. batch[b] \in BatchShape /\ batch[b].delay \in 0 .. Retry /\ BatchOK(b) /\ batch[b] # NoBatch
  BY DEF Shape, BatchShape, Active
<1>2. CASE batch[b].todo # {}
  <2>1. PICK t \in batch[b].todo : batch' = [batch EXCEPT ![b] = Calling(batch[b], t)]
    BY <1>2 DEF Continue
  <2>2. t \in DOMAIN batch[b].wakes
    BY <1>1 DEF BatchOK
  <2>3. batch' \in [Batches -> BatchShape] /\ batch'[b] = Calling(batch[b], t)
    BY <1>1, <2>1, <2>2, CallingIs DEF Shape
  <2>4. BatchOK(b)'
    BY <1>1, <2>2, <2>3, CallingIs DEF BatchOK, Covered
  <2>5. \A c \in Batches : c # b => BatchOK(c)'
    BY <2>1 DEF Shape, BatchOK
  <2> QED
    BY <1>2, <2>3, <2>4, <2>5 DEF Continue, Shape
<1>3. CASE batch[b].todo = {}
  <2>1. batch' = [batch EXCEPT ![b] = NoBatch] /\ Finally(b, pend, tm) /\ pending' = pend
    BY <1>3 DEF Continue
  <2>2. batch' \in [Batches -> BatchShape] /\ \A c \in Batches : BatchOK(c)'
    BY <2>1, NoBatchShape DEF Shape, BatchOK
  <2>3. timer' \in Timer /\ running' \in BOOLEAN
    BY <1>1, <2>1, ScheduleShape DEF Finally
  <2> QED
    BY <2>1, <2>2, <2>3
<1> QED
  BY <1>2, <1>3

LEMMA NoTimerShape == NoTimer \in Timer
<1>1. 0 \in 0 .. Retry
  BY HeartbeatAssumption
<1> QED
  BY <1>1 DEF NoTimer, Timer

LEMMA RetryShape == Retry \in 0 .. Retry
BY HeartbeatAssumption

LEMMA DelayShape == Delays \subseteq 0 .. Retry
BY HeartbeatAssumption

LEMMA NewBatchShape ==
  ASSUME Shape
  PROVE  /\ NewBatch \in BatchShape
         /\ NewBatch.wakes = [t \in Waiting |-> pending[t]]
         /\ NewBatch.todo = Waiting
<1>1. [t \in Waiting |-> pending[t]] \in [Waiting -> Reasons]
  BY DEF Shape, Waiting
<1>2. [t \in Waiting |-> pending[t]] \in WakeMaps
  BY <1>1 DEF WakeMaps, Waiting
<1>3. timer.delay \in 0 .. Retry
  BY DEF Shape, Timer
<1> QED
  BY <1>2, <1>3 DEF NewBatch, BatchShape, Waiting

LEMMA FreeBatchIsFree == Fire => FreeBatch \in Batches \ Active
<1>1. Fire => \E b \in Batches : b \notin Active
  BY DEF Fire, Active
<1> QED
  BY <1>1 DEF FreeBatch

LEMMA FireIs ==
  ASSUME Shape, Fire
  PROVE  \E f \in Batches, t \in Waiting :
           f \notin Active /\ batch' = [batch EXCEPT ![f] = Calling(NewBatch, t)]
BY FreeBatchIsFree DEF Fire

LEMMA FireShape ==
  ASSUME Shape, Fire
  PROVE  /\ batch' \in [Batches -> BatchShape]
         /\ \A b \in Batches : BatchOK(b)'
<1>1. PICK f \in Batches, t \in Waiting : batch' = [batch EXCEPT ![f] = Calling(NewBatch, t)]
  BY FireIs
<1>2. t \in DOMAIN NewBatch.wakes /\ t \in Targets
  BY NewBatchShape DEF Waiting
<1>3. batch' \in [Batches -> BatchShape] /\ batch'[f] = Calling(NewBatch, t)
  BY <1>1, <1>2, NewBatchShape, CallingIs DEF Shape
<1>4. BatchOK(f)'
  BY <1>2, <1>3, NewBatchShape, CallingIs DEF BatchOK, Covered
<1>5. \A b \in Batches : b # f => BatchOK(b)'
  BY <1>1 DEF Shape, BatchOK
<1> QED
  BY <1>3, <1>4, <1>5

(* A request leaves every batch what it is, but for what its call covers.  *)
LEMMA RequestKeepsBatches ==
  ASSUME Shape, NEW t \in Targets, NEW r \in Reasons, NEW d, RequestHeartbeatNow(t, r, d)
  PROVE  /\ Active' = Active
         /\ \A b \in Batches :
              /\ batch[b] = NoBatch => batch'[b] = NoBatch
              /\ batch'[b] \in BatchShape /\ batch'[b].wakes = batch[b].wakes
              /\ batch'[b].todo = batch[b].todo /\ batch'[b].call = batch[b].call
              /\ batch'[b].covers = batch[b].covers \ {[target |-> t, reason |-> r]}
<1> DEFINE q == [target |-> t, reason |-> r]
<1>1. batch' = [b \in Batches |-> [batch[b] EXCEPT !.covers = batch[b].covers \ {q}]]
  BY DEF RequestHeartbeatNow
<1>2. \A b \in Batches :
        /\ batch'[b] \in BatchShape /\ batch'[b].wakes = batch[b].wakes
        /\ batch'[b].todo = batch[b].todo /\ batch'[b].call = batch[b].call
        /\ batch'[b].covers = batch[b].covers \ {q}
  BY <1>1 DEF Shape, BatchShape
<1>3. ASSUME NEW b \in Batches, batch[b] = NoBatch PROVE batch'[b] = NoBatch
  <2>1. NoBatch.covers \ {q} = NoBatch.covers
    BY DEF NoBatch
  <2>2. batch'[b] = [NoBatch EXCEPT !.covers = NoBatch.covers]
    BY <1>1, <1>3, <2>1
  <2> QED
    BY <2>2, NoBatchShape DEF BatchShape
<1>4. \A b \in Batches : batch[b] # NoBatch => batch'[b] # NoBatch
  BY <1>2, ActiveIsCalling, NoBatchShape DEF Active
<1>5. Active' = Active
  BY <1>3, <1>4 DEF Active
<1> QED
  BY <1>2, <1>3, <1>5

LEMMA ShapeStep ==
  ASSUME Shape, [Next]_vars
  PROVE  Shape'
<1>1. ASSUME NEW t \in Targets, NEW r \in Reasons, NEW d \in Delays, RequestHeartbeatNow(t, r, d)
      PROVE  Shape'
  <2> DEFINE q == [target |-> t, reason |-> r]
  <2>1. unserved' = unserved \cup {q} /\ batch' \in [Batches -> BatchShape]
    BY <1>1, RequestKeepsBatches DEF RequestHeartbeatNow
  <2>3. ASSUME NEW b \in Batches PROVE BatchOK(b)'
    BY <1>1, RequestKeepsBatches DEF Shape, BatchOK
  <2>4. pending' \in [Targets -> Reasons \cup {None}] /\ timer' \in Timer
    BY <1>1, PutShape, ScheduleShape, DelayShape DEF RequestHeartbeatNow, Shape
  <2>5. unserved' \subseteq Request
    BY <2>1 DEF Shape, Request
  <2> QED
    BY <1>1, <2>1, <2>3, <2>4, <2>5 DEF RequestHeartbeatNow, Shape
<1>2. CASE FireIdle
  BY <1>2, NoTimerShape DEF FireIdle, Shape, BatchOK
<1>3. CASE FireBusy
  <2>1. timer' \in Timer
    <3>1. timer.delay \in 0 .. Retry /\ timer.kind \in {"none", "normal", "retry"}
      BY DEF Shape, Timer
    <3> QED
      BY <1>3, <3>1 DEF FireBusy, Schedule, Timer
  <2> QED
    BY <1>3, <2>1 DEF FireBusy, Shape, BatchOK
<1>4. CASE Fire
  BY <1>4, FireShape, NoTimerShape DEF Fire, Shape
<1>5. ASSUME NEW b \in Batches, Answered(b) PROVE Shape'
  BY <1>5, ContinueShape DEF Answered, Shape
<1>6. ASSUME NEW b \in Batches, Busy(b) PROVE Shape'
  <2>1. batch[b].call \in Targets /\ batch[b].wakes[batch[b].call] \in Reasons
    BY <1>6, WakeMap DEF Busy, Shape, BatchShape, BatchOK, Active
  <2>2. Put(pending, batch[b].call, batch[b].wakes[batch[b].call])
          \in [Targets -> Reasons \cup {None}]
    BY <2>1, PutShape DEF Shape
  <2>3. Schedule(timer, Retry, "retry") \in Timer
    BY ScheduleShape, RetryShape DEF Shape
  <2> QED
    BY <1>6, <2>1, <2>2, <2>3, ContinueShape, RetryShape DEF Busy, Retrying, Shape
<1>7. ASSUME NEW b \in Batches, Throw(b) PROVE Shape'
  <2>1. Schedule(timer, Retry, "retry") \in Timer /\ batch[b].delay \in 0 .. Retry
    BY ScheduleShape, RetryShape DEF Shape, BatchShape
  <2>2. timer' \in Timer /\ running' = FALSE
    BY <1>7, <2>1, ScheduleShape DEF Throw, Finally
  <2>3. batch' \in [Batches -> BatchShape] /\ \A c \in Batches : BatchOK(c)'
    BY <1>7, NoBatchShape DEF Throw, Shape, BatchOK
  <2>4. \A t \in DOMAIN batch[b].wakes : batch[b].wakes[t] \in Reasons
    BY WakeMap DEF Shape, BatchShape
  <2>5. pending' \in [Targets -> Reasons \cup {None}]
    BY <1>7, <2>4 DEF Throw, Shape, Put
  <2> QED
    BY <1>7, <2>2, <2>3, <2>5 DEF Throw, Shape
<1>8. CASE Register
  <2>1. timer' \in Timer
    BY <1>8, HeartbeatAssumption, NoTimerShape, ScheduleShape DEF Register
  <2>2. cooling' \in [Targets -> 0 .. Retry]
    BY <1>8, HeartbeatAssumption DEF Register
  <2>3. outlived' \in BOOLEAN
    BY <1>8 DEF Register
  <2> QED
    BY <1>8, <2>1, <2>2, <2>3 DEF Register, Shape, BatchOK
<1>9. CASE Dispose \/ UNCHANGED vars
  BY <1>9 DEF Dispose, vars, Shape, BatchOK
<1>10. CASE Tick
  <2>1. timer' \in Timer
    <3>1. /\ timer.kind \in {"none", "normal", "retry"}
          /\ timer.left \in 0 .. Retry /\ timer.delay \in 0 .. Retry
      BY DEF Shape, Timer
    <3>2. CASE timer.left > 0
      <4>1. timer.left - 1 \in 0 .. Retry
        BY <3>1, <3>2, HeartbeatAssumption
      <4>2. timer' = [timer EXCEPT !.left = timer.left - 1]
        BY <1>10, <3>2 DEF Tick
      <4> QED
        BY <4>1, <4>2 DEF Shape, Timer
    <3>3. CASE ~(timer.left > 0)
      BY <1>10, <3>3 DEF Tick, Shape
    <3> QED
      BY <3>2, <3>3
  <2>2. cooling' \in [Targets -> 0 .. Retry]
    BY <1>10, HeartbeatAssumption DEF Tick, Shape
  <2> QED
    BY <1>10, <2>1, <2>2 DEF Tick, Shape, BatchOK
<1> QED
  BY <1>1, <1>2, <1>3, <1>4, <1>5, <1>6, <1>7, <1>8, <1>9, <1>10 DEF Next

-----------------------------------------------------------------------------
(* No wake is lost. *)

Enough(r, q) == r # None /\ Priority[r] >= Priority[q.reason]

(* Batch b still has a wake for request q. *)
Has(b, q) ==
  \/ q \in batch[b].covers
  \/ q.target \in batch[b].todo /\ Enough(batch[b].wakes[q.target], q)

LEMMA HeldIs ==
  ASSUME NEW q
  PROVE  Held(q) <=> Enough(pending[q.target], q) \/ \E b \in Batches : b \in Active /\ Has(b, q)
BY DEF Held, Enough, Has, Active

LEMMA PutKeeps ==
  ASSUME NEW p \in [Targets -> Reasons \cup {None}], NEW t \in Targets, NEW r \in Reasons,
         NEW q \in Request
  PROVE  /\ Enough(p[q.target], q) => Enough(Put(p, t, r)[q.target], q)
         /\ q.target = t /\ Priority[q.reason] <= Priority[r] => Enough(Put(p, t, r)[t], q)
<1>1. \A s \in Reasons : Priority[s] \in Int
  BY HeartbeatAssumption
<1>2. r # None
  BY HeartbeatAssumption
<1> QED
  BY <1>1, <1>2 DEF Put, Enough, Request

LEMMA ContinueKeeps ==
  ASSUME Shape, NEW b \in Batches, b \in Active,
         NEW pend, NEW tm, Continue(b, pend, tm), NEW q \in unserved, q \notin batch[b].covers,
         NEW c \in Batches, c \in Active, Has(c, q)
  PROVE  c \in Active' /\ Has(c, q)'
<1>1. CASE c # b
  BY <1>1 DEF Continue, Has, Active, Shape
<1>2. CASE c = b
  <2>1. q.target \in batch[b].todo /\ Enough(batch[b].wakes[q.target], q)
    BY <1>2 DEF Has
  <2>2. PICK t \in batch[b].todo : batch' = [batch EXCEPT ![b] = Calling(batch[b], t)]
    BY <2>1 DEF Continue
  <2>3. t \in DOMAIN batch[b].wakes /\ batch[b] \in BatchShape
    BY DEF Shape, BatchOK, Active
  <2>4. batch'[b] = Calling(batch[b], t)
    BY <2>2 DEF Shape
  <2>5. /\ b \in Active' /\ batch'[b].wakes = batch[b].wakes
        /\ batch'[b].todo = batch[b].todo \ {t}
        /\ batch'[b].covers = Covered(t, batch[b].wakes[t])
    BY <2>3, <2>4, CallingIs DEF Active
  <2>6. CASE q.target = t
    <3>1. Priority[q.reason] <= Priority[batch[b].wakes[t]]
      <4>1. q.reason \in Reasons /\ batch[b].wakes[t] \in Reasons
        BY <2>3, WakeMap DEF Shape, Request, BatchShape
      <4>2. Priority[q.reason] \in Int /\ Priority[batch[b].wakes[t]] \in Int
        BY <4>1, HeartbeatAssumption
      <4> QED
        BY <2>1, <2>6, <4>2 DEF Enough
    <3> QED
      BY <1>2, <2>5, <2>6, <3>1 DEF Has, Covered
  <2>7. CASE q.target # t
    BY <1>2, <2>1, <2>5, <2>7 DEF Has
  <2> QED
    BY <2>6, <2>7
<1> QED
  BY <1>1, <1>2

LEMMA NoWakeLostStep ==
  ASSUME Shape, NoWakeLost, [Next]_vars
  PROVE  NoWakeLost'
<1> SUFFICES ASSUME NEW q \in unserved' PROVE Held(q)'
  BY DEF NoWakeLost
<1>r. ASSUME q \in unserved PROVE Held(q) /\ q \in Request /\ q.target \in Targets
  BY <1>r DEF NoWakeLost, Shape, Request
<1>h. Held(q)' <=> \/ Enough(pending[q.target], q)'
                   \/ \E b \in Batches : b \in Active' /\ Has(b, q)'
  BY DEF Held, Enough, Has, Active
<1>1. ASSUME NEW t \in Targets, NEW r \in Reasons, NEW d \in Delays, RequestHeartbeatNow(t, r, d)
      PROVE  Held(q)'
  <2> DEFINE n == [target |-> t, reason |-> r]
  <2>1. /\ unserved' = unserved \cup {n} /\ pending' = Put(pending, t, r)
    BY <1>1 DEF RequestHeartbeatNow
  <2>2. CASE q = n
    <3>1. q \in Request /\ q.target = t /\ q.reason = r
      BY <2>2 DEF Request
    <3>2. Priority[r] \in Int
      BY HeartbeatAssumption
    <3> QED
      BY <1>h, <2>1, <3>1, <3>2, PutKeeps DEF Shape, Enough
  <2>3. CASE q # n
    <3>1. Held(q) /\ q \in Request
      BY <1>r, <2>1, <2>3
    <3>2. ASSUME NEW b \in Batches, b \in Active, Has(b, q) PROVE b \in Active' /\ Has(b, q)'
      BY <1>1, <2>3, <3>2, RequestKeepsBatches DEF Has
    <3>3. Enough(pending[q.target], q) => Enough(pending[q.target], q)'
      BY <2>1, <3>1, PutKeeps DEF Shape, Enough
    <3> QED
      BY <1>h, <3>1, <3>2, <3>3, HeldIs
  <2> QED
    BY <2>2, <2>3
<1>2. CASE FireIdle \/ FireBusy \/ Register \/ Dispose \/ Tick \/ UNCHANGED vars
  <2>1. UNCHANGED <<pending, batch, unserved>>
    BY <1>2 DEF FireIdle, FireBusy, Register, Dispose, Tick, vars
  <2> QED
    BY <1>h, <1>r, <2>1, HeldIs DEF Enough, Has, Active
<1>3. CASE Fire
  <2>1. PICK f \in Batches, t \in Waiting :
           f \notin Active /\ batch' = [batch EXCEPT ![f] = Calling(NewBatch, t)]
    BY <1>3, FireIs
  <2>2. unserved' = unserved
    BY <1>3 DEF Fire
  <2>3. ASSUME NEW b \in Batches, b \in Active, Has(b, q) PROVE b \in Active' /\ Has(b, q)'
    BY <2>1, <2>3 DEF Has, Active, Shape
  <2>4. t \in DOMAIN NewBatch.wakes /\ t \in Targets
    BY NewBatchShape DEF Waiting
  <2>5. /\ batch'[f].wakes = [u \in Waiting |-> pending[u]] /\ batch'[f].todo = Waiting \ {t}
        /\ batch'[f].covers = Covered(t, pending[t]) /\ f \in Active'
    BY <2>1, <2>4, NewBatchShape, CallingIs DEF Shape, Active
  <2>6. ASSUME Enough(pending[q.target], q) PROVE Has(f, q)'
    <3>1. q.target \in Waiting
      BY <1>r, <2>2, <2>6 DEF Waiting, Enough
    <3>2. q.target = t => Priority[q.reason] <= Priority[pending[t]]
      <4>1. q.reason \in Reasons /\ pending[t] \in Reasons
        BY <1>r, <2>2 DEF Shape, Request, Waiting
      <4>2. Priority[q.reason] \in Int /\ Priority[pending[t]] \in Int
        BY <4>1, HeartbeatAssumption
      <4> QED
        BY <2>6, <4>2 DEF Enough
    <3> QED
      BY <2>2, <2>5, <2>6, <3>1, <3>2 DEF Has, Covered, Enough
  <2> QED
    BY <1>h, <1>r, <2>2, <2>3, <2>5, <2>6, HeldIs
<1>4. ASSUME NEW b \in Batches, Answered(b) PROVE Held(q)'
  <2>1. q \in unserved /\ q \notin batch[b].covers /\ pending' = pending /\ b \in Active
    BY <1>4 DEF Answered, Continue
  <2>2. Continue(b, pending, timer)
    BY <1>4 DEF Answered
  <2> QED
    BY <1>h, <1>r, <2>1, <2>2, ContinueKeeps, HeldIs DEF Enough
<1>5. ASSUME NEW b \in Batches, Busy(b) PROVE Held(q)'
  <2> DEFINE t == batch[b].call
             r == batch[b].wakes[t]
  <2>1. /\ b \in Active /\ unserved' = unserved /\ pending' = Put(pending, t, r)
        /\ Continue(b, Put(pending, t, r), Schedule(timer, Retry, "retry"))
    BY <1>5 DEF Busy, Retrying, Continue
  <2>2. t \in Targets /\ r \in Reasons
    BY <2>1, WakeMap DEF Shape, BatchShape, BatchOK, Active
  <2>3. Enough(pending[q.target], q) => Enough(pending[q.target], q)'
    BY <1>r, <2>1, <2>2, PutKeeps DEF Shape, Enough
  <2>4. ASSUME q \in batch[b].covers PROVE Enough(pending[q.target], q)'
    <3>1. q.target = t /\ Priority[q.reason] <= Priority[r]
      BY <2>1, <2>4 DEF Shape, BatchOK, Active
    <3> QED
      BY <1>r, <2>1, <2>2, <3>1, PutKeeps DEF Shape, Enough
  <2> QED
    BY <1>h, <1>r, <2>1, <2>3, <2>4, ContinueKeeps, HeldIs
<1>6. ASSUME NEW b \in Batches, Throw(b) PROVE Held(q)'
  <2>1. /\ b \in Active /\ unserved' = unserved
        /\ pending' = [t \in Targets |-> IF t \in DOMAIN batch[b].wakes
                                         THEN Put(pending, t, batch[b].wakes[t])[t]
                                         ELSE pending[t]]
        /\ batch' = [batch EXCEPT ![b] = NoBatch]
    BY <1>6 DEF Throw
  <2>2. \A t \in DOMAIN batch[b].wakes : t \in Targets /\ batch[b].wakes[t] \in Reasons
    BY WakeMap DEF Shape, BatchShape
  <2>3. Enough(pending[q.target], q) => Enough(pending[q.target], q)'
    BY <1>r, <2>1, <2>2, PutKeeps DEF Shape, Enough
  <2>4. ASSUME NEW c \in Batches, c \in Active, Has(c, q), c # b PROVE c \in Active' /\ Has(c, q)'
    BY <2>1, <2>4 DEF Shape, Active, Has
  <2>5. ASSUME Has(b, q) PROVE Enough(pending[q.target], q)'
    <3> DEFINE t == q.target
    <3>1. t \in DOMAIN batch[b].wakes
      BY <2>1, <2>5 DEF Has, Shape, BatchOK, Active
    <3>2. Priority[q.reason] <= Priority[batch[b].wakes[t]]
      <4>1. q.reason \in Reasons
        BY <1>r, <2>1 DEF Request
      <4>2. Priority[q.reason] \in Int /\ Priority[batch[b].wakes[t]] \in Int
        BY <2>2, <3>1, <4>1, HeartbeatAssumption
      <4> QED
        BY <2>1, <2>5, <4>2 DEF Has, Enough, Shape, BatchOK, Active
    <3>3. Enough(Put(pending, t, batch[b].wakes[t])[t], q)
      BY <1>r, <2>1, <2>2, <3>1, <3>2, PutKeeps DEF Shape
    <3> QED
      BY <1>r, <2>1, <3>1, <3>3 DEF Enough
  <2> QED
    BY <1>h, <1>r, <2>1, <2>3, <2>4, <2>5, HeldIs
<1> QED
  BY <1>1, <1>2, <1>3, <1>4, <1>5, <1>6 DEF Next

-----------------------------------------------------------------------------
(* One batch at a time. *)

Alone == ~outlived => /\ running <=> Active # {}
                      /\ \A b, c \in Active : b = c

(* An answer ends the batch or leaves it in progress. *)
LEMMA ContinueActive ==
  ASSUME Shape, NEW b \in Batches, b \in Active, NEW pend, NEW tm, Continue(b, pend, tm)
  PROVE  \/ Active' = Active /\ running' = running
         \/ Active' = Active \ {b} /\ running' = FALSE
<1>1. CASE batch[b].todo # {}
  <2>1. PICK t \in batch[b].todo : batch' = [batch EXCEPT ![b] = Calling(batch[b], t)]
    BY <1>1 DEF Continue
  <2>2. t \in DOMAIN batch[b].wakes /\ batch[b] \in BatchShape
    BY DEF Shape, BatchOK, Active
  <2>3. Active' = Active
    BY <2>1, <2>2, CallingIs DEF Active, Shape
  <2> QED
    BY <1>1, <2>3 DEF Continue
<1>2. CASE batch[b].todo = {}
  BY <1>2 DEF Continue, Finally, Active, Shape
<1> QED
  BY <1>1, <1>2

LEMMA AloneStep ==
  ASSUME Shape, Alone, [Next]_vars
  PROVE  Alone'
<1>1. ASSUME NEW t \in Targets, NEW r \in Reasons, NEW d \in Delays, RequestHeartbeatNow(t, r, d)
      PROVE  Alone'
  BY <1>1, RequestKeepsBatches DEF RequestHeartbeatNow, Alone
<1>2. CASE FireIdle \/ FireBusy \/ Dispose \/ Tick \/ UNCHANGED vars
  BY <1>2 DEF FireIdle, FireBusy, Dispose, Tick, vars, Alone, Active
<1>3. CASE Fire
  <2>1. PICK f \in Batches, t \in Waiting : batch' = [batch EXCEPT ![f] = Calling(NewBatch, t)]
    BY <1>3, FireIs
  <2>2. Active' = Active \cup {f}
    BY <2>1, NewBatchShape, CallingIs DEF Active, Shape
  <2> QED
    BY <1>3, <2>2 DEF Fire, MayFire, Alone
<1>4. ASSUME NEW b \in Batches, Answered(b) \/ Busy(b) PROVE Alone'
  <2>1. /\ b \in Active /\ UNCHANGED outlived
        /\ \E pend, tm : Continue(b, pend, tm)
    BY <1>4 DEF Answered, Busy, Retrying
  <2> QED
    BY <2>1, ContinueActive DEF Alone, Shape
<1>5. ASSUME NEW b \in Batches, Throw(b) PROVE Alone'
  BY <1>5 DEF Throw, Finally, Alone, Active, Shape
<1>6. CASE Register
  BY <1>6 DEF Register, Alone, Active
<1> QED
  BY <1>1, <1>2, <1>3, <1>4, <1>5, <1>6 DEF Next

-----------------------------------------------------------------------------
(* The cooldown of a busy target. *)

(* An undisturbed cooldown is guarded by a retry timer that is not due     *)
(* before it ends, and no batch in progress is about to call the target.   *)
Cool ==
  ~hurried /\ ~outlived =>
    \A t \in Targets : cooling[t] > 0 =>
      /\ timer.kind = "retry" /\ timer.left >= cooling[t]
      /\ \A b \in Batches : b \in Active => t \notin batch[b].todo

(* Nothing shortens a retry timer. *)
LEMMA RetryStays ==
  ASSUME NEW tm, NEW d, NEW k, tm.kind = "retry"
  PROVE  Schedule(tm, d, k) = tm
BY DEF Schedule, NoTimer

LEMMA ContinueCool ==
  ASSUME Shape, NEW b \in Batches, b \in Active, NEW pend, NEW tm, Continue(b, pend, tm)
  PROVE  /\ tm.kind = "retry" => timer' = tm
         /\ \A c \in Batches : c \in Active' => c \in Active /\ batch'[c].todo \subseteq batch[c].todo
<1>1. CASE batch[b].todo # {}
  <2>1. PICK t \in batch[b].todo : batch' = [batch EXCEPT ![b] = Calling(batch[b], t)]
    BY <1>1 DEF Continue
  <2>2. t \in DOMAIN batch[b].wakes /\ batch[b] \in BatchShape
    BY DEF Shape, BatchOK, Active
  <2> QED
    BY <1>1, <2>1, <2>2, CallingIs DEF Continue, Active, Shape
<1>2. CASE batch[b].todo = {}
  BY <1>2, RetryStays DEF Continue, Finally, Active, Shape
<1> QED
  BY <1>1, <1>2

LEMMA NothingCools ==
  ASSUME Shape, Cool, TimeUp, ~hurried, ~outlived
  PROVE  \A t \in Targets : cooling[t] = 0
<1>1. \A t \in Targets : cooling[t] \in Nat
  BY HeartbeatAssumption DEF Shape
<1> QED
  BY <1>1 DEF Cool, TimeUp

LEMMA CoolStep ==
  ASSUME Shape, Alone, Cool, [Next]_vars
  PROVE  Cool'
<1> SUFFICES ASSUME ~hurried', ~outlived', NEW u \in Targets, cooling'[u] > 0
             PROVE  /\ timer'.kind = "retry" /\ timer'.left >= cooling'[u]
                    /\ \A c \in Batches : c \in Active' => u \notin batch'[c].todo
  BY DEF Cool
<1>0. cooling[u] \in Nat /\ Retry \in Nat /\ timer.left \in Nat
  BY HeartbeatAssumption DEF Shape, Timer
<1>1. ASSUME NEW t \in Targets, NEW r \in Reasons, NEW d \in Delays, RequestHeartbeatNow(t, r, d)
      PROVE  /\ timer'.kind = "retry" /\ timer'.left >= cooling'[u]
             /\ \A c \in Batches : c \in Active' => u \notin batch'[c].todo
  <2>1. cooling[u] > 0 /\ cooling' = cooling /\ ~hurried /\ ~outlived
    BY <1>1 DEF RequestHeartbeatNow
  <2>2. Active' = Active /\ \A b \in Batches : batch'[b].todo = batch[b].todo
    BY <1>1, RequestKeepsBatches
  <2>5. timer' = timer
    BY <1>1, <2>1, RetryStays DEF RequestHeartbeatNow, Cool
  <2> QED
    BY <2>1, <2>2, <2>5 DEF Cool
<1>2. CASE FireIdle \/ FireBusy \/ Fire
  <2>1. TimeUp /\ ~hurried /\ ~outlived /\ cooling' = cooling
    BY <1>2 DEF FireIdle, FireBusy, Fire
  <2> QED
    BY <2>1, NothingCools
<1>3. ASSUME NEW b \in Batches, Answered(b)
      PROVE  /\ timer'.kind = "retry" /\ timer'.left >= cooling'[u]
             /\ \A c \in Batches : c \in Active' => u \notin batch'[c].todo
  <2>1. /\ b \in Active /\ Continue(b, pending, timer)
        /\ ~hurried /\ ~outlived /\ cooling' = cooling
    BY <1>3 DEF Answered
  <2> QED
    BY <2>1, ContinueCool DEF Cool
<1>4. ASSUME NEW b \in Batches, Busy(b)
      PROVE  /\ timer'.kind = "retry" /\ timer'.left >= cooling'[u]
             /\ \A c \in Batches : c \in Active' => u \notin batch'[c].todo
  <2> DEFINE tm == Schedule(timer, Retry, "retry")
  <2>1. /\ b \in Active /\ \E pend : Continue(b, pend, tm)
        /\ cooling' = [cooling EXCEPT ![batch[b].call] = Retry]
        /\ ~hurried /\ ~outlived /\ tm.kind = "retry" /\ ~(tm.left < Retry)
    BY <1>4 DEF Busy, Retrying
  <2>2. timer' = tm /\ tm.left >= Retry
    <3>1. tm.left \in Nat
      <4>1. tm \in Timer
        BY ScheduleShape, RetryShape DEF Shape
      <4> QED
        BY <4>1, HeartbeatAssumption DEF Timer
    <3> QED
      BY <1>0, <2>1, <3>1, ContinueCool
  <2>3. cooling'[u] <= Retry
    <3>1. cooling[u] <= Retry
      BY HeartbeatAssumption DEF Shape
    <3> QED
      BY <1>0, <2>1, <3>1 DEF Shape
  <2>4. timer'.left >= cooling'[u]
    <3>1. tm.left \in Nat /\ cooling'[u] \in Nat
      <4>1. tm \in Timer
        BY ScheduleShape, RetryShape DEF Shape
      <4> QED
        BY <1>0, <2>1, <4>1, HeartbeatAssumption DEF Timer, Shape
    <3> QED
      BY <1>0, <2>2, <2>3, <3>1
  <2>5. ASSUME NEW c \in Batches, c \in Active' PROVE u \notin batch'[c].todo
    <3>1. c \in Active /\ batch'[c].todo \subseteq batch[c].todo
      BY <2>1, <2>5, ContinueCool
    <3>2. CASE u # batch[b].call
      BY <2>1, <3>1, <3>2 DEF Cool, Shape
    <3>3. CASE u = batch[b].call
      <4>1. c = b
        BY <2>1, <3>1 DEF Alone
      <4> QED
        BY <3>1, <3>3, <4>1 DEF Shape, BatchOK, Active
    <3> QED
      BY <3>2, <3>3
  <2> QED
    BY <2>1, <2>2, <2>4, <2>5
<1>5. ASSUME NEW b \in Batches, Throw(b)
      PROVE  /\ timer'.kind = "retry" /\ timer'.left >= cooling'[u]
             /\ \A c \in Batches : c \in Active' => u \notin batch'[c].todo
  <2>1. cooling[u] > 0 /\ cooling' = cooling /\ ~hurried /\ ~outlived
    BY <1>5 DEF Throw
  <2>2. timer' = timer
    BY <1>5, <2>1, RetryStays DEF Throw, Finally, Cool
  <2>3. \A c \in Batches : c \in Active' => c \in Active /\ batch'[c] = batch[c]
    BY <1>5 DEF Throw, Active, Shape
  <2> QED
    BY <2>1, <2>2, <2>3 DEF Cool
<1>6. CASE Register
  BY <1>6 DEF Register
<1>7. CASE Dispose \/ UNCHANGED vars
  BY <1>7 DEF Dispose, vars, Cool, Active
<1>8. CASE Tick
  <2>1. cooling[u] > 0 /\ cooling'[u] = cooling[u] - 1 /\ UNCHANGED batch
    BY <1>0, <1>8 DEF Tick
  <2>2. timer.kind = "retry" /\ timer.left >= cooling[u] /\ timer.left > 0
    BY <1>0, <1>8, <2>1 DEF Tick, Cool
  <2>3. timer' = [timer EXCEPT !.left = timer.left - 1]
    BY <1>8, <2>2 DEF Tick
  <2>4. timer'.kind = "retry" /\ timer'.left = timer.left - 1
    BY <2>2, <2>3 DEF Shape, Timer
  <2>5. \A c \in Batches : c \in Active' => u \notin batch'[c].todo
    BY <1>8, <2>1 DEF Tick, Cool, Active
  <2> QED
    BY <1>0, <2>1, <2>2, <2>4, <2>5
<1> QED
  BY <1>1, <1>2, <1>3, <1>4, <1>5, <1>6, <1>7, <1>8 DEF Next

-----------------------------------------------------------------------------
IInv == Shape /\ NoWakeLost /\ Alone /\ Cool

LEMMA IInvInit == Init => IInv
<1> SUFFICES ASSUME Init PROVE IInv
  OBVIOUS
<1>1. Active = {} /\ unserved = {} /\ running = FALSE
  BY DEF Init, Active
<1>2. \A t \in Targets : ~(cooling[t] > 0)
  BY DEF Init
<1> QED
  BY <1>1, <1>2, ShapeInit DEF IInv, NoWakeLost, Alone, Cool

LEMMA IInvHolds == Spec => []IInv
<1>1. IInv /\ [Next]_vars => IInv'
  BY ShapeStep, NoWakeLostStep, AloneStep, CoolStep DEF IInv
<1> QED
  BY <1>1, IInvInit, PTL DEF Spec

(* No request is forgotten or downgraded on its way from the caller to the *)
(* handler, whatever is coalesced, retried, thrown or outlives its         *)
(* lifecycle: NoWakeLost.                                                  *)
THEOREM WakesAreKept == Spec => []NoWakeLost
<1>1. IInv => NoWakeLost
  BY DEF IInv
<1> QED
  BY <1>1, IInvHolds, PTL

(* The running flag lets one batch run at a time as long as no batch       *)
(* outlived its lifecycle: OneBatch.                                       *)
THEOREM BatchesRunAlone == Spec => []OneBatch
<1>1. ASSUME IInv PROVE OneBatch
  <2> SUFFICES ASSUME ~outlived PROVE (running <=> Active # {}) /\ Cardinality(Active) <= 1
    BY DEF OneBatch
  <2>1. (running <=> Active # {}) /\ \A b, c \in Active : b = c
    BY <1>1 DEF IInv, Alone
  <2>2. CASE Active = {}
    BY <2>1, <2>2, FS_EmptySet
  <2>3. CASE Active # {}
    <3>1. PICK b \in Active : Active = {b}
      BY <2>1, <2>3
    <3>2. Cardinality(Active) = 1
      BY <3>1, FS_Singleton
    <3> QED
      BY <2>1, <3>2
  <2> QED
    BY <2>2, <2>3
<1> QED
  BY <1>1, IInvHolds, PTL

(* A target that answered busy is not called again before the retry delay, *)
(* if a full retry timer was armed when it answered: CooldownKeptOnceArmed. *)
THEOREM CooldownsAreKept == Spec => CooldownKeptOnceArmed
<1> DEFINE Kept == \A t \in Targets :
                     Calls(t)' \ Calls(t) # {} => cooling[t] = 0 \/ hurried \/ outlived
<1>1. ASSUME IInv, [Next]_vars PROVE [Kept]_vars
  <2> SUFFICES ASSUME NEW u \in Targets, NEW c \in Batches, c \in Active', batch'[c].call = u,
                      ~(c \in Active /\ batch[c].call = u), ~hurried, ~outlived
               PROVE  cooling[u] = 0
    BY DEF Calls, Active
  <2>0. Shape /\ Cool /\ cooling[u] \in Nat
    BY <1>1, HeartbeatAssumption DEF IInv, Shape
  <2>1. ASSUME NEW t \in Targets, NEW r \in Reasons, NEW d \in Delays,
               RequestHeartbeatNow(t, r, d)
        PROVE  FALSE
    BY <2>0, <2>1, RequestKeepsBatches
  <2>2. CASE Fire
    BY <2>0, <2>2, NothingCools DEF Fire
  <2>3. ASSUME NEW b \in Batches, Answered(b) \/ Busy(b) PROVE cooling[u] = 0
    <3>1. b \in Active /\ \E pend, tm : Continue(b, pend, tm)
      BY <2>3 DEF Answered, Busy, Retrying
    <3>2. CASE batch[b].todo # {}
      <4>1. PICK t \in batch[b].todo : batch' = [batch EXCEPT ![b] = Calling(batch[b], t)]
        BY <3>1, <3>2 DEF Continue
      <4>2. t \in DOMAIN batch[b].wakes /\ batch[b] \in BatchShape
        BY <2>0, <3>1 DEF Shape, BatchOK, Active
      <4>3. c = b /\ u = t
        BY <2>0, <4>1, <4>2, CallingIs DEF Shape, Active
      <4> QED
        BY <2>0, <3>1, <4>3 DEF Cool
    <3>3. CASE batch[b].todo = {}
      BY <2>0, <3>1, <3>3 DEF Continue, Active, Shape
    <3> QED
      BY <3>2, <3>3
  <2>4. ASSUME NEW b \in Batches, Throw(b) PROVE FALSE
    BY <2>0, <2>4 DEF Throw, Active, Shape
  <2>5. CASE FireIdle \/ FireBusy \/ Register \/ Dispose \/ Tick \/ UNCHANGED vars
    BY <2>5 DEF FireIdle, FireBusy, Register, Dispose, Tick, vars, Active
  <2> QED
    BY <1>1, <2>1, <2>2, <2>3, <2>4, <2>5 DEF Next
<1>2. Spec => [][Kept]_vars
  BY <1>1, IInvHolds, PTL DEF Spec
<1> QED
  BY <1>2 DEF CooldownKeptOnceArmed
=============================================================================
