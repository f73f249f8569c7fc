---------------------------- MODULE HeartbeatWake ----------------------------
(***************************************************************************)
(* The wake layer of the heartbeats (src/infra/heartbeat-wake.ts).         *)
(* Requests to wake an agent are coalesced per target; one timer, normal   *)
(* or retry, hands them in batches to the handler that the heartbeat       *)
(* runner of the current lifecycle has registered.  The module state       *)
(* outlives an in-process restart, and so do the calls of a batch that was *)
(* in progress when the next runner registered.                            *)
(***************************************************************************)
EXTENDS Integers, FiniteSets

CONSTANTS
  Targets,      \* agent and session a wake is for
  Reasons,      \* wake reasons
  Priority,     \* resolveReasonPriority: Reasons -> 0 .. 3
  Delays,       \* values of coalesceMs, in ticks
  Coalesce,     \* DEFAULT_COALESCE_MS, in ticks
  Retry,        \* DEFAULT_RETRY_MS, in ticks
  Batches,      \* bound: batches in progress at once
  MaxRequests,  \* bound: requests
  MaxHandlers,  \* bound: runners, one per lifecycle
  MaxFailures   \* bound: calls that answer busy or throw

None    == "none"

ASSUME HeartbeatAssumption ==
  /\ None \notin Targets /\ None \notin Reasons
  /\ Priority \in [Reasons -> 0 .. 3]
  /\ Retry \in Nat /\ Delays \subseteq 0 .. Retry /\ Coalesce \in 0 .. Retry
  /\ Batches \subseteq Nat /\ Batches # {}
  /\ MaxRequests \in Nat /\ MaxHandlers \in Nat /\ MaxFailures \in Nat

VARIABLES
  pending,             \* pendingWakes: target -> reason or None
  timer,               \* timer, timerDueAt and timerKind, and the closure's delay
  running, scheduled,
  handler,             \* the generation that is registered; 0 for null
  handlerGeneration,
  batch,               \* the timer callbacks suspended in a handler call
  unserved,            \* history: requests not yet handed over
  outlived,            \* history: a batch was in progress when a runner registered
  cooling,             \* history: ticks left until a busy target may be called again
  hurried,             \* history: a busy answer did not leave a full retry timer
  requests, failures   \* counters against the bounds

vars == <<pending, timer, running, scheduled, handler, handlerGeneration, batch,
          unserved, outlived, cooling, hurried, requests, failures>>

-----------------------------------------------------------------------------

NoTimer == [kind |-> "none", left |-> 0, delay |-> 0]
NoBatch == [wakes |-> [t \in {} |-> None], todo |-> {}, call |-> None,
            covers |-> {}, delay |-> 0]

Request == [target : Targets, reason : Reasons]

Active == {b \in Batches : batch[b] # NoBatch}

\* Broken form: the latest reason wins.
Put_Latest(p, t, r) == [p EXCEPT ![t] = r]

(* queuePendingWakeReason: a pending reason gives way to one of its own    *)
(* priority (requestedAt is the current time) or a higher one.             *)
Put(p, t, r) ==
  IF p[t] = None \/ Priority[r] >= Priority[p[t]] THEN [p EXCEPT ![t] = r] ELSE p

\* Broken form: a sooner request preempts the retry timer.
Schedule_Preempt(tm, delay, kind) ==
  IF tm # NoTimer /\ tm.left <= delay THEN tm ELSE [kind |-> kind, left |-> delay, delay |-> delay]

(* schedule *)
Schedule(tm, delay, kind) ==
  IF tm # NoTimer /\ (tm.kind = "retry" \/ tm.left <= delay)
  THEN tm
  ELSE [kind |-> kind, left |-> delay, delay |-> delay]

Init ==
  /\ pending = [t \in Targets |-> None]
  /\ timer = NoTimer
  /\ running = FALSE /\ scheduled = FALSE
  /\ handler = 0 /\ handlerGeneration = 0
  /\ batch = [b \in Batches |-> NoBatch]
  /\ unserved = {} /\ outlived = FALSE
  /\ cooling = [t \in Targets |-> 0] /\ hurried = FALSE
  /\ requests = 0 /\ failures = 0

-----------------------------------------------------------------------------

RequestHeartbeatNow(t, r, delay) ==
  /\ requests < MaxRequests
  /\ requests' = requests + 1
  /\ pending' = Put(pending, t, r)
  /\ timer' = Schedule(timer, delay, "normal")
  /\ LET q == [target |-> t, reason |-> r] IN
       /\ unserved' = unserved \cup {q}
       /\ batch' = [b \in Batches |-> [batch[b] EXCEPT !.covers = @ \ {q}]]
  /\ UNCHANGED <<running, scheduled, handler, handlerGeneration, outlived,
                 cooling, hurried, failures>>

(* The requests a call made now for wake (t, r) answers. *)
Covered(t, r) ==
  {q \in unserved : q.target = t /\ Priority[q.reason] <= Priority[r]}

(* A batch with its next call made. *)
Calling(b, t) ==
  [b EXCEPT !.todo = @ \ {t}, !.call = t, !.covers = Covered(t, b.wakes[t])]

Waiting == {t \in Targets : pending[t] # None}

(* Everything pending becomes a batch. *)
NewBatch == [wakes |-> [t \in Waiting |-> pending[t]], todo |-> Waiting, call |-> None,
             covers |-> {}, delay |-> timer.delay]

FreeBatch == CHOOSE b \in Batches : b \notin Active

TimeUp == timer # NoTimer /\ timer.left = 0

(* The timer fires with nobody registered, or with nothing to hand over. *)
FireIdle ==
  /\ TimeUp
  /\ \/ handler = 0
     \/ ~running /\ Waiting = {}
  /\ timer' = NoTimer
  /\ scheduled' = FALSE
  /\ UNCHANGED <<pending, running, handler, handlerGeneration, batch, unserved,
                 outlived, cooling, hurried, requests, failures>>

(* The timer fires while a batch is in progress. *)
FireBusy ==
  /\ TimeUp /\ handler # 0 /\ running
  /\ scheduled' = TRUE
  /\ timer' = Schedule(NoTimer, timer.delay, timer.kind)
  /\ UNCHANGED <<pending, running, handler, handlerGeneration, batch, unserved,
                 outlived, cooling, hurried, requests, failures>>

\* Broken form: the guard on running is missing.
MayFire_Always == handler # 0

MayFire == handler # 0 /\ ~running

(* The timer fires: everything pending becomes a batch, and the first call *)
(* is made.                                                                *)
Fire ==
  /\ TimeUp /\ MayFire
  /\ Active # Batches
  /\ \E t \in Waiting : batch' = [batch EXCEPT ![FreeBatch] = Calling(NewBatch, t)]
  /\ pending' = [t \in Targets |-> None]
  /\ timer' = NoTimer
  /\ running' = TRUE /\ scheduled' = FALSE
  /\ UNCHANGED <<handler, handlerGeneration, unserved, outlived, cooling, hurried,
                 requests, failures>>

(* The finally block of batch b. *)
Finally(b, pend, tm) ==
  /\ running' = FALSE
  /\ timer' = IF scheduled \/ \E t \in Targets : pend[t] # None
              THEN Schedule(tm, batch[b].delay, "normal") ELSE tm

(* The current call of b is answered: make the next one or finish. *)
Continue(b, pend, tm) ==
  /\ pending' = pend
  /\ IF batch[b].todo # {}
     THEN /\ \E t \in batch[b].todo : batch' = [batch EXCEPT ![b] = Calling(@, t)]
          /\ timer' = tm
          /\ UNCHANGED running
     ELSE /\ batch' = [batch EXCEPT ![b] = NoBatch]
          /\ Finally(b, pend, tm)

Answered(b) ==
  /\ b \in Active
  /\ unserved' = unserved \ batch[b].covers
  /\ Continue(b, pending, timer)
  /\ UNCHANGED <<scheduled, handler, handlerGeneration, outlived, cooling, hurried,
                 requests, failures>>

(* What a busy answer does besides queueing the wake again. *)
Retrying(b, pend) ==
  LET tm == Schedule(timer, Retry, "retry") IN
  /\ failures < MaxFailures /\ failures' = failures + 1
  /\ Continue(b, pend, tm)
  /\ cooling' = [cooling EXCEPT ![batch[b].call] = Retry]
  /\ hurried' = (hurried \/ tm.kind # "retry" \/ tm.left < Retry)
  /\ UNCHANGED <<scheduled, handler, handlerGeneration, unserved, outlived, requests>>

(* The handler skips with requests-in-flight. *)
Busy(b) ==
  /\ b \in Active
  /\ Retrying(b, Put(pending, batch[b].call, batch[b].wakes[batch[b].call]))

(* The handler throws: the whole batch is queued again. *)
Throw(b) ==
  /\ b \in Active /\ failures < MaxFailures
  /\ failures' = failures + 1
  /\ LET pend == [t \in Targets |->
                    IF t \in DOMAIN batch[b].wakes
                    THEN Put(pending, t, batch[b].wakes[t])[t] ELSE pending[t]]
     IN pending' = pend /\ Finally(b, pend, Schedule(timer, Retry, "retry"))
  /\ batch' = [batch EXCEPT ![b] = NoBatch]
  /\ UNCHANGED <<scheduled, handler, handlerGeneration, unserved, outlived,
                 cooling, hurried, requests>>

\* Broken form: what is pending is left to the next request's timer.
Register_NoTimer ==
  /\ handlerGeneration < MaxHandlers
  /\ handlerGeneration' = handlerGeneration + 1 /\ handler' = handlerGeneration'
  /\ timer' = NoTimer
  /\ running' = FALSE /\ scheduled' = FALSE
  /\ outlived' = (outlived \/ Active # {})
  /\ cooling' = [t \in Targets |-> 0]
  /\ UNCHANGED <<pending, batch, unserved, hurried, requests, failures>>

(* setHeartbeatWakeHandler, by the runner of a new lifecycle. *)
Register ==
  /\ handlerGeneration < MaxHandlers
  /\ handlerGeneration' = handlerGeneration + 1
  /\ handler' = handlerGeneration'
  /\ timer' = IF Waiting # {} THEN Schedule(NoTimer, Coalesce, "normal") ELSE NoTimer
  /\ running' = FALSE /\ scheduled' = FALSE
  /\ outlived' = (outlived \/ Active # {})
  /\ cooling' = [t \in Targets |-> 0]
  /\ UNCHANGED <<pending, batch, unserved, hurried, requests, failures>>

(* The disposer of the registered handler; a stale one does nothing.       *)
(* Another lifecycle follows (the bound must leave room for it).           *)
Dispose ==
  /\ handler = handlerGeneration /\ handler # 0
  /\ handlerGeneration + 2 <= MaxHandlers
  /\ handlerGeneration' = handlerGeneration + 1
  /\ handler' = 0
  /\ UNCHANGED <<pending, timer, running, scheduled, batch, unserved, outlived,
                 cooling, hurried, requests, failures>>

Tick ==
  /\ timer.left > 0 \/ \E t \in Targets : cooling[t] > 0
  /\ timer' = IF timer.left > 0 THEN [timer EXCEPT !.left = @ - 1] ELSE timer
  /\ cooling' = [t \in Targets |-> IF cooling[t] > 0 THEN cooling[t] - 1 ELSE 0]
  /\ UNCHANGED <<pending, running, scheduled, handler, handlerGeneration, batch,
                 unserved, outlived, hurried, requests, failures>>

Next ==
  \/ \E t \in Targets, r \in Reasons, d \in Delays : RequestHeartbeatNow(t, r, d)
  \/ FireIdle \/ FireBusy \/ Fire
  \/ \E b \in Batches : Answered(b) \/ Busy(b) \/ Throw(b)
  \/ Register \/ Dispose \/ Tick

Spec == Init /\ [][Next]_vars

(* Timers fire, handler calls return, and a lifecycle that ended without a *)
(* successor has one: the run loop starts the gateway again.               *)
Fairness ==
  /\ WF_vars(Tick)
  /\ WF_vars(FireIdle \/ FireBusy \/ Fire)
  /\ \A b \in Batches : WF_vars(Answered(b))
  /\ WF_vars(handler = 0 /\ Register)

FairSpec == Spec /\ Fairness

-----------------------------------------------------------------------------

TypeOK ==
  /\ pending \in [Targets -> Reasons \cup {None}]
  /\ timer \in [kind : {"none", "normal", "retry"}, left : 0 .. Retry, delay : 0 .. Retry]
  /\ running \in BOOLEAN /\ scheduled \in BOOLEAN
  /\ handler \in {0, handlerGeneration} /\ handlerGeneration \in 0 .. MaxHandlers
  /\ \A b \in Active :
       /\ batch[b].todo \subseteq DOMAIN batch[b].wakes \ {batch[b].call}
       /\ batch[b].call \in DOMAIN batch[b].wakes
       /\ batch[b].covers \subseteq Request
  /\ unserved \subseteq Request

(* Some batch, or the pending map, still holds a wake for request q of at  *)
(* least its priority.                                                     *)
Held(q) ==
  LET Enough(r) == r # None /\ Priority[r] >= Priority[q.reason] IN
  \/ Enough(pending[q.target])
  \/ \E b \in Active : \/ q \in batch[b].covers
                       \/ q.target \in batch[b].todo /\ Enough(batch[b].wakes[q.target])

(* No request is forgotten or downgraded while it is coalesced, queued     *)
(* again after a busy answer or a throw, or handed to a batch that         *)
(* outlives its lifecycle.                                                 *)
NoWakeLost == \A q \in unserved : Held(q)

(* As long as no batch outlived its lifecycle, one batch runs at a time    *)
(* and the running flag says so.                                           *)
OneBatch ==
  ~outlived => /\ running <=> Active # {}
               /\ Cardinality(Active) <= 1

Calls(t) == {b \in Active : batch[b].call = t}

(* A target that answered busy is not called again before the retry delay, *)
(* unless a timer was already armed when the busy answer came; requests    *)
(* that arrive later do not shorten the delay.                             *)
CooldownKeptOnceArmed ==
  [][\A t \in Targets :
       Calls(t)' \ Calls(t) # {} => cooling[t] = 0 \/ hurried \/ outlived]_vars

(* Every request is handed over in the end, across restarts.               *)
EveryWakeServed == \A q \in Request : []<>(q \notin unserved)
=============================================================================
