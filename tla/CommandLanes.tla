---------------------------- MODULE CommandLanes ----------------------------
(***************************************************************************)
(* The command lanes of src/process/command-queue.ts: every agent run,     *)
(* cron job and subagent run of the gateway is a task pushed on a lane, a  *)
(* lane runs at most maxConcurrent tasks at a time, and the restart        *)
(* coordinator (src/cli/gateway-cli/run-loop.ts) drains and resets all     *)
(* lanes.                                                                  *)
(*                                                                         *)
(* JavaScript handlers run to completion, so each exported function and    *)
(* each promise continuation is one step.  The flag LaneState.draining is  *)
(* set and cleared inside one such step and is FALSE between steps: it has *)
(* no variable.  A lane is created on demand with default contents, so a   *)
(* lane never mentioned is a lane in its initial state.                    *)
(***************************************************************************)
EXTENDS LanePump

CONSTANTS
  Lanes,      \* lane names after lane.trim() || "main"
  NoLane,     \* the lane of a task not yet submitted
  MaxTasks,   \* bound: calls of enqueueCommandInLane
  Caps,       \* arguments given to setCommandLaneConcurrency
  MaxResets   \* bound: calls of resetAllLanes

ASSUME LanesAssumption ==
  /\ MaxTasks \in Nat
  /\ MaxResets \in Nat
  /\ Caps \subseteq Int
  /\ NoLane \notin Lanes

VARIABLES
  gatewayDraining, \* queueState.gatewayDraining
  queue,           \* per lane: tasks pushed and not started, oldest first
  active,          \* per lane: activeTaskIds
  maxConcurrent,   \* per lane
  generation,      \* per lane: bumped by resetAllLanes
  nextTask,        \* the task the next enqueue call submits
  phase,           \* per task: where its promise stands
  laneOf,          \* per task: the lane it was pushed on
  startedIn,       \* per task: taskGeneration of its closure
  waiter           \* the pending or last waitForActiveTasks call

vars == <<gatewayDraining, queue, active, maxConcurrent, generation,
          nextTask, phase, laneOf, startedIn, waiter>>

-----------------------------------------------------------------------------
(* Types.  A task id is drawn when a task starts and is never drawn again, *)
(* so the task itself stands for its id.                                   *)

Tasks == 1 .. MaxTasks

Phases == {"new",      \* not submitted
           "refused",  \* rejected with GatewayDrainingError
           "queued", "running",
           "resolved", "rejected",
           "cleared"}  \* rejected with CommandLaneClearedError

Settled == {"refused", "resolved", "rejected", "cleared"}

WaiterType == [status : {"idle", "waiting", "drained", "expired"},
               ids    : SUBSET Tasks]  \* activeAtStart

-----------------------------------------------------------------------------

(* drainLane of every lane in D, over the given lane and task state.  A    *)
(* task that throws before its first await completes inside the pump that  *)
(* started it: that is a start followed at once by its Finish.             *)
DrainLanes(D, q, a, cap, g, ph) ==
  LET S == [l \in Lanes |-> IF l \in D THEN Started(q[l], a[l], cap[l]) ELSE {}]
  IN  /\ queue' = [l \in Lanes |-> IF l \in D THEN Rest(q[l], a[l], cap[l]) ELSE q[l]]
      /\ active' = [l \in Lanes |-> a[l] \cup S[l]]
      /\ maxConcurrent' = cap
      /\ generation' = g
      /\ phase' = [t \in Tasks |->
                     IF \E l \in Lanes : t \in S[l] THEN "running" ELSE ph[t]]
      /\ startedIn' = [t \in Tasks |->
                         IF \E l \in Lanes : t \in S[l]
                         THEN g[CHOOSE l \in Lanes : t \in S[l]]
                         ELSE startedIn[t]]

-----------------------------------------------------------------------------

Init ==
  /\ gatewayDraining = FALSE
  /\ queue = [l \in Lanes |-> <<>>]
  /\ active = [l \in Lanes |-> {}]
  /\ maxConcurrent = [l \in Lanes |-> 1]
  /\ generation = [l \in Lanes |-> 0]
  /\ nextTask = 1
  /\ phase = [t \in Tasks |-> "new"]
  /\ laneOf = [t \in Tasks |-> NoLane]
  /\ startedIn = [t \in Tasks |-> 0]
  /\ waiter = [status |-> "idle", ids |-> {}]

(* enqueueCommandInLane while markGatewayDraining is in force. *)
Refuse ==
  /\ nextTask <= MaxTasks
  /\ gatewayDraining
  /\ nextTask' = nextTask + 1
  /\ phase' = [phase EXCEPT ![nextTask] = "refused"]
  /\ UNCHANGED <<gatewayDraining, queue, active, maxConcurrent, generation,
                 laneOf, startedIn, waiter>>

\* Broken form: the entry is unshifted instead of pushed.
Enqueue_AtHead(l) ==
  /\ nextTask <= MaxTasks /\ ~gatewayDraining /\ nextTask' = nextTask + 1
  /\ laneOf' = [laneOf EXCEPT ![nextTask] = l]
  /\ DrainLanes({l}, [queue EXCEPT ![l] = <<nextTask>> \o @], active,
                maxConcurrent, generation, [phase EXCEPT ![nextTask] = "queued"])
  /\ UNCHANGED <<gatewayDraining, waiter>>

(* enqueueCommandInLane: push, then drain the lane. *)
Enqueue(l) ==
  /\ nextTask <= MaxTasks
  /\ ~gatewayDraining
  /\ nextTask' = nextTask + 1
  /\ laneOf' = [laneOf EXCEPT ![nextTask] = l]
  /\ DrainLanes({l}, [queue EXCEPT ![l] = Append(@, nextTask)], active,
                maxConcurrent, generation,
                [phase EXCEPT ![nextTask] = "queued"])
  /\ UNCHANGED <<gatewayDraining, waiter>>

\* Broken form: the catch branch does not pump.
Finish_NoPumpOnError(t, outcome) ==
  LET l == laneOf[t] IN
  /\ phase[t] = "running"
  /\ DrainLanes(IF outcome = "resolved" /\ startedIn[t] = generation[l] THEN {l} ELSE {},
                queue, [active EXCEPT ![l] = @ \ {t}], maxConcurrent, generation,
                [phase EXCEPT ![t] = outcome])
  /\ UNCHANGED <<gatewayDraining, nextTask, laneOf, waiter>>

(* A task ends.  Its closure frees the slot and pumps only if the lane is  *)
(* still in the generation the task started in; its promise settles anyway. *)
Finish(t, outcome) ==
  LET l == laneOf[t] IN
  /\ phase[t] = "running"
  /\ IF startedIn[t] = generation[l]
     THEN DrainLanes({l}, queue, [active EXCEPT ![l] = @ \ {t}],
                     maxConcurrent, generation,
                     [phase EXCEPT ![t] = outcome])
     ELSE /\ phase' = [phase EXCEPT ![t] = outcome]
          /\ UNCHANGED <<queue, active, maxConcurrent, generation, startedIn>>
  /\ UNCHANGED <<gatewayDraining, nextTask, laneOf, waiter>>

(* setCommandLaneConcurrency: config load and hot reload. *)
SetConcurrency(l, c) ==
  /\ DrainLanes({l}, queue, active,
                [maxConcurrent EXCEPT ![l] = Max2(1, c)], generation, phase)
  /\ UNCHANGED <<gatewayDraining, nextTask, laneOf, waiter>>

(* clearCommandLane: the queued entries are rejected, running tasks stay. *)
Clear(l) ==
  /\ queue[l] # <<>>
  /\ queue' = [queue EXCEPT ![l] = <<>>]
  /\ phase' = [t \in Tasks |->
                 IF \E i \in 1 .. Len(queue[l]) : queue[l][i] = t
                 THEN "cleared" ELSE phase[t]]
  /\ UNCHANGED <<gatewayDraining, active, maxConcurrent, generation,
                 nextTask, laneOf, startedIn, waiter>>

(* The run loop starts a restart in one synchronous stretch:               *)
(* markGatewayDraining, getActiveTaskCount, and the snapshot of            *)
(* waitForActiveTasks when that count is positive.                         *)
BeginDrain ==
  LET running == UNION {active[l] : l \in Lanes} IN
  /\ ~gatewayDraining
  /\ gatewayDraining' = TRUE
  /\ waiter' = [status |-> IF running = {} THEN "idle" ELSE "waiting",
                ids    |-> running]
  /\ UNCHANGED <<queue, active, maxConcurrent, generation, nextTask, phase,
                 laneOf, startedIn>>

\* Broken form: the deadline branch resolves { drained: true }.
WaitPoll_ExpiredIsDrained(expired) ==
  /\ waiter.status = "waiting"
  /\ (\E l \in Lanes : active[l] \cap waiter.ids # {}) => expired
  /\ waiter' = [waiter EXCEPT !.status = "drained"]
  /\ UNCHANGED <<gatewayDraining, queue, active, maxConcurrent, generation,
                 nextTask, phase, laneOf, startedIn>>

(* One check() of the poll: the ids are tested before the deadline. *)
WaitPoll(expired) ==
  LET pending == \E l \in Lanes : active[l] \cap waiter.ids # {} IN
  /\ waiter.status = "waiting"
  /\ pending => expired
  /\ waiter' = [waiter EXCEPT !.status = IF pending THEN "expired" ELSE "drained"]
  /\ UNCHANGED <<gatewayDraining, queue, active, maxConcurrent, generation,
                 nextTask, phase, laneOf, startedIn>>

\* Broken form: the generation is not bumped.
ResetAll_NoBump ==
  /\ gatewayDraining /\ waiter.status # "waiting"
  /\ gatewayDraining' = FALSE
  /\ DrainLanes({l \in Lanes : queue[l] # <<>>}, queue, [l \in Lanes |-> {}],
                maxConcurrent, generation, phase)
  /\ waiter' = [status |-> "idle", ids |-> {}]
  /\ UNCHANGED <<nextTask, laneOf>>

\* Broken form: the second loop, which drains the lanes, is missing.
ResetAll_NoPump ==
  /\ gatewayDraining /\ waiter.status # "waiting"
  /\ \A l \in Lanes : generation[l] < MaxResets
  /\ gatewayDraining' = FALSE
  /\ active' = [l \in Lanes |-> {}]
  /\ generation' = [l \in Lanes |-> generation[l] + 1]
  /\ waiter' = [status |-> "idle", ids |-> {}]
  /\ UNCHANGED <<queue, maxConcurrent, phase, startedIn, nextTask, laneOf>>

(* resetAllLanes, at the top of the next iteration of the run loop, which  *)
(* is reached only after the wait has returned.                            *)
ResetAll ==
  /\ gatewayDraining
  /\ waiter.status # "waiting"
  /\ \A l \in Lanes : generation[l] < MaxResets
  /\ gatewayDraining' = FALSE
  /\ DrainLanes({l \in Lanes : queue[l] # <<>>}, queue, [l \in Lanes |-> {}],
                maxConcurrent, [l \in Lanes |-> generation[l] + 1], phase)
  /\ waiter' = [status |-> "idle", ids |-> {}]
  /\ UNCHANGED <<nextTask, laneOf>>

Next ==
  \/ Refuse
  \/ \E l \in Lanes : Enqueue(l)
  \/ \E t \in Tasks, outcome \in {"resolved", "rejected"} : Finish(t, outcome)
  \/ \E l \in Lanes, c \in Caps : SetConcurrency(l, c)
  \/ \E l \in Lanes : Clear(l)
  \/ BeginDrain
  \/ \E expired \in BOOLEAN : WaitPoll(expired)
  \/ ResetAll

Spec == Init /\ [][Next]_vars

(* A task is an agent turn or a job with a timeout of its own: it ends.    *)
(* The poll of a wait is re-armed by setTimeout until it returns.          *)
Fairness ==
  /\ \A t \in Tasks : WF_vars(\E o \in {"resolved", "rejected"} : Finish(t, o))
  /\ WF_vars(\E expired \in BOOLEAN : WaitPoll(expired))

FairSpec == Spec /\ Fairness

-----------------------------------------------------------------------------
(* Properties. *)

TypeOK ==
  /\ gatewayDraining \in BOOLEAN
  /\ queue \in [Lanes -> Seq(Tasks)]
  /\ active \in [Lanes -> SUBSET Tasks]
  /\ maxConcurrent \in [Lanes -> Nat \ {0}]
  /\ generation \in [Lanes -> Nat]
  /\ nextTask \in 1 .. MaxTasks + 1
  /\ phase \in [Tasks -> Phases]
  /\ laneOf \in [Tasks -> Lanes \cup {NoLane}]
  /\ startedIn \in [Tasks -> Nat]
  /\ waiter \in WaiterType

(* activeTaskIds, the count every scheduling decision reads, is exactly    *)
(* the set of tasks of the current generation that are still executing: no *)
(* completion, reset or late callback of an interrupted task makes it      *)
(* drift (the bug the generation counter was added for).                   *)
ActiveExact ==
  \A l \in Lanes :
    active[l] = {t \in Tasks : /\ phase[t] = "running"
                               /\ laneOf[t] = l
                               /\ startedIn[t] = generation[l]}

(* The lane never sleeps on work: while an entry waits, every slot is      *)
(* taken.  Nothing but the end of a task, a reset, a config change or the  *)
(* next enqueue pumps a lane, so a missing pump is a lost wakeup.          *)
WorkConserving ==
  \A l \in Lanes : queue[l] # <<>> => Cardinality(active[l]) >= maxConcurrent[l]

(* A queued task is in its lane's queue, and only there and once: a reset  *)
(* keeps every queued entry and a cleared or started entry leaves no copy. *)
QueueExact ==
  \A l \in Lanes :
    /\ {queue[l][i] : i \in 1 .. Len(queue[l])} =
          {t \in Tasks : phase[t] = "queued" /\ laneOf[t] = l}
    /\ \A i, j \in 1 .. Len(queue[l]) : i < j => queue[l][i] < queue[l][j]

(* Tasks of one lane start in submission order, across clears, resets and  *)
(* concurrency changes.                                                    *)
NoOvertaking ==
  \A t, u \in Tasks :
    (t < u /\ laneOf[t] = laneOf[u] /\ phase[t] = "queued") =>
      phase[u] \in {"new", "queued"}

(* A start never takes a lane above its limit (a lowered limit may leave   *)
(* the lane above it until tasks end, but starts nothing).                 *)
StartsWithinCap ==
  [][\A l \in Lanes :
       active'[l] \ active[l] # {} =>
         Cardinality(active'[l]) <= maxConcurrent'[l]]_vars

(* Every promise settles once: a cleared or finished task is never started *)
(* again, nor its outcome overwritten.                                     *)
SettledForGood ==
  [][\A t \in Tasks : phase[t] \in Settled => phase'[t] = phase[t]]_vars

(* { drained: true } is only reported when every task that was executing   *)
(* when the wait began has really ended.                                   *)
DrainedIsHonest ==
  waiter.status = "drained" => \A t \in waiter.ids : phase[t] \in Settled

(* Every queued entry eventually starts or is cleared, whatever resets,    *)
(* clears and concurrency changes happen meanwhile.                        *)
EveryQueuedTaskLeaves ==
  \A t \in Tasks : phase[t] = "queued" ~> phase[t] # "queued"
=============================================================================
