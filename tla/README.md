# Verification of the OpenClaw gateway's scheduling and delivery core

OpenClaw is a personal-assistant gateway: one Node process receives messages
from chat channels, runs agent turns for them, fires cron jobs and heartbeats,
and sends replies out. The process is single-threaded, but nearly every
operation is cut into pieces by `await`, timers and promise reactions; the
gateway restarts *inside* its process (SIGUSR1) with old promises still
pending; and it can crash with state half written. This directory holds TLA+
models of the parts where those cuts matter, TLC runs that explore them, and
TLAPS proofs of the strongest results.

Contents: [inventory](#1-inventory) · [plan](#2-plan) · [modules](#3-modules-and-the-code) ·
[runs](#4-runs-and-bounds) · [fairness](#5-fairness) · [proofs](#6-proofs) ·
[disagreements with the code](#7-disagreements-found) · [limits](#8-what-is-not-covered)

Paths are relative to the repository. `PROJECT.json` ties every definition to
source lines, every hazard to the properties that cover it, and every property
to a mutation of the code's model that breaks it (the operators commented
"Broken form").

## 1. Inventory

### Modelled

| Component | Source | State | Operations | What is hard | What must hold |
|---|---|---|---|---|---|
| Command lanes | `process/command-queue.ts`, drain part of `cli/gateway-cli/run-loop.ts` | per lane: queue, active task ids, limit, generation; the draining flag | enqueue, pump, complete, set limit, clear, reset all, wait for active tasks | completions of tasks from before an in-process restart; wakeups that only a completion gives; limits lowered under load | exact slot accounting, no lost wakeup, submission order, outcomes settle once, an honest drain |
| Embedded agent runs | `agents/pi-embedded-runner/run.ts`, `lanes.ts`, `process/command-queue.ts`, manual runs of `cron/service/ops.ts` | a task on the session lane that holds its slot while a second task waits for a global lane | submit, hand over, finish, settle, clear, restart | nested slots, a cron job that awaits a run, restart between the two tasks | one run per session, slots of both lanes agree, no cycle of held slots |
| Followup queue | `auto-reply/reply/queue/*`, `utils/queue-helpers.ts`, `get-reply-run.ts`, `agent-runner.ts` | a queue object per session key, registry and callback maps, a cache of recent ids that forgets | enqueue with drop policy, drain loop, finalize, clear | "run active" is read several awaits before the enqueue; the drain splices by position after an await; the object may be replaced under it | nothing repeated while its id is remembered, nothing reordered or lost short of overflow and clears; a non-empty queue always has somebody to drain it |
| Outbound delivery queue | `infra/outbound/delivery-queue.ts`, `deliver.ts` | one JSON file per message, its `.delivered` marker, `failed/` | enqueue, send, two-phase ack, fail (read then write), recovery pass, set aside | crash between any two file operations; recovery next to live deliveries; failing I/O | an accepted message is owed until reached, abandoned or set aside; not sent again after the ack; never retried for ever |
| Heartbeat wake layer | `infra/heartbeat-wake.ts` | pending wakes per target, one timer of two kinds, `running`, `scheduled`, handler generation | request, fire, answer (done, busy, throw), register, dispose | requests during a batch, busy retries against earlier timers, handler replaced while a batch awaits | no wake lost or downgraded, one batch at a time, cooldown kept, every wake served |
| Cron service | `cron/service/{timer,ops,jobs,locked,store,state}.ts` | stored jobs with slot, marker, error count; timer; tick flag | start and catch-up, tick, outcome, add, update, remove, list, manual run, crash | jobs execute outside the lock; several parties reserve them; markers on disk survive a crash; many recomputes of slots | no overlap, no leaked marker, a timer always armed, due slots not skipped, backoff respected |
| Channel manager and health monitor | `gateway/server-channels.ts`, `channel-health-monitor.ts`, `restartChannel` of `server-reload-handlers.ts` | per account: task, abort controller, manual-stop mark, attempts, status | start, restart after a crash, stop, reload, monitor check | a start awaits `isConfigured` and a stop awaits a hook and the old task, with other callers in between | one instance, no stop that waits for ever, a stopped account stays stopped, a crashed one comes back |
| Gateway lifecycle | `gateway/config-reload.ts`, `server-reload-handlers.ts`, `infra/restart.ts`, `cli/gateway-cli/run-loop.ts` | configuration file and what the watcher believes is applied; restart timer and polls; the run loop's phase, lock, server | edit, debounce, hot reload, deferred and scheduled restart, drain, close that may throw, respawn or restart in the process, failed start | scheduler and loop outlive the server, the watcher does not, unless the close failed before it; edits during each of these | an edit ends up in the server; the lock is held, and the old server closed unless its close threw, before the next one starts |
| Subagent registry and announce | `agents/subagent-registry*.ts`, `subagent-announce.ts`, `subagent-control.ts`, `subagent-spawn.ts` | records in memory and in `runs.json`, open waits, error timers, announce flows, resume timers | spawn, register, complete, announce, retry, expire, wake, steer, kill, sweep, crash and restore | three sources of a completion, a parent that ends before its children, records replaced under an open await | announced once, a parent after its children, every record resolved |

Interactions. A chat message enters `getReply`: it is either run at once
(through `runEmbeddedPiAgent`, hence the lanes) or put on the followup queue,
whose drain runs the same path later. Replies leave through the delivery
queue. Cron's manual runs execute on the `cron` lane and their agent turns
through the lanes; main-session jobs request heartbeats. Heartbeats ask the
lanes whether the main lane is busy and answer `requests-in-flight` if so. The
run loop drains the lanes before an in-process restart and resets them after
it; the new server instance registers a new heartbeat handler, starts a new
cron service and starts one recovery pass of the delivery queue. An edit of the
configuration reaches them through the watcher of the server: a hot reload stops
and starts channels, replaces the cron service and updates heartbeats; anything
else asks for a restart, at once or when a poll finds the gateway idle. A
subagent is an agent run started over the gateway; its end comes back to the
registry as an event and as the answer of `agent.wait`, and its result goes to
the session that asked for it as another agent run.

### Not modelled yet, planned

| Component | Source | State and operations | Hard behaviour | Properties wanted |
|---|---|---|---|---|
| Gateway instance lock | `infra/gateway-lock.ts` | lock file with owner, port probe; acquire, remove stale, release | two starters remove the same stale lock; release unlinks whatever is there | at most one holder; release never removes another's lock |
| Heartbeat runner | `infra/heartbeat-runner.ts` | due time per agent; interval wake, targeted wake, config update | busy main lane, wakes to a stopped runner | each enabled agent beats again and again |
| Session write lock | `agents/session-write-lock.ts` | reentrant file lock, watchdog | stale detection against a slow holder, release by count | mutual exclusion among live holders |
| Session store | `config/sessions/store.ts` | lock queue per file, cache | a timeout of a queued task against its start | read-modify-write atomicity |
| ACP session manager | `acp/control-plane/*` | actor queue per session, runtime cache | cancel against turn, idle eviction against use | an evicted runtime has no turn |
| Process supervisor | `process/supervisor/*` | run records, two timeouts, exit wait | timeout, cancel and exit in any order | one exit reason, settled once |
| Exec approvals | `gateway/exec-approval-manager.ts`, … | pending entries with a timer and grace period | decision against timeout, late wait | one decision per request |
| Node registry | `gateway/node-registry.ts` | connected nodes, pending invokes | disconnect, timeout and result in any order | an invoke settles once, never for another connection |
| Device and node pairing | `infra/device-pairing.ts`, … | pending and paired files under a lock | approve against re-request and expiry | a token only for an approved key |
| Auth profiles, model fallback | `agents/auth-profiles/*`, `model-fallback.ts` | cooldown windows, order | window renewal while active | a profile in cooldown is not preferred |
| Auth rate limiter | `gateway/auth-rate-limit.ts` | sliding windows | window edges, prune | lockout lasts as stated |
| Inbound debounce, block replies, system events | `auto-reply/inbound-debounce.ts`, `block-reply-pipeline.ts`, `infra/system-events.ts` | buffers, timers, ordered sends | flush against new input, abort | order, no loss |

### Not planned

| Component | Why |
|---|---|
| Agent attempt (model streaming, tools, compaction) | Its state is a transcript and remote calls; its only scheduling effect, "a run lasts and ends", is in `SessionRuns`. |
| Memory index, media, browser control, secrets | Retrieval, conversion, drivers of external programs, sequential resolution; no shared state a model tells apart. |
| Plugin loading, routing, logging, markdown, terminal | Sequential or pure. |
| Channels and extensions | Adapters to external services; seen from the core as a send that succeeds, fails or fails for good. |
| CLI, wizard, TUI, daemon installation | User interfaces, except the run loop (modelled with the lanes). |
| Companion apps, UI, skills, vendored code | Other programs and assets. |

## 2. Plan

Done, in this order: `LanePump`, `CommandLanes` (everything else runs on it),
`SessionRuns` (composition of lanes), `FollowupQueue`, `Outbox` with
`DeliveryQueue`, `HeartbeatWake`, `CronService`; proofs of every safety property
of `CommandLanes` and `DeliveryQueue`, with the refinement
`DeliveryQueue => Outbox`; then `ChannelManager`, `GatewayLifecycle` and
`SubagentRegistry`; proofs of every safety property of `ChannelManager`,
`HeartbeatWake`, `CronService`, `FollowupQueue`, `SessionRuns` and
`SubagentRegistry`, and of the handover in `GatewayLifecycle`.

Next:

1. `GatewayLock`: two starters and a dead owner.
2. `CronService` with two services on one store (config reload: `stop()` only
   clears the timer), which also covers disable/enable during a run and the
   order of catch-up and edits as properties.
3. `HeartbeatRunner` over `HeartbeatWake`; an abstract "every wake is served"
   specification for the two.
4. `SessionWriteLock`, `SessionStore`; both against one abstract lock.
5. `Supervisor`, `ExecApprovals`, `NodeRegistry`: three users of the pattern
   "pending entry, timer, answer"; one abstract specification (settles exactly
   once) they are all shown to implement.
6. `AcpSessions`.

Abstract specifications: `Outbox` (done); a serial executor per session that
`SessionRuns` implements up to the first restart; settle-once; a lock.

Theorems still to prove: that `SessionRuns` implements a serial executor per
session. Every safety property of a passing run is proved. No module declares a
RECURSIVE operator, so all of them are open to proof.

A run answers a question about the system. A disagreement keeps a run of its own
only while no module is waiting for its place; the others are described in
section 7.

## 3. Modules and the code

| Module | Role |
|---|---|
| `LanePump` | What the loop of `drainLane` takes from a queue: `Started` and `Rest`, shared by the two lane modules. |
| `CommandLanes` | The lanes. `queue`, `active`, `maxConcurrent`, `generation`, `gatewayDraining` are the fields of the code; `phase`, `laneOf`, `startedIn` describe each task's closure; `waiter` is the run loop's `waitForActiveTasks`. |
| `CommandLanesProofs` | Theorems about `CommandLanes`. |
| `SessionRuns` | `runEmbeddedPiAgent`: `enqueueSession(() => enqueueGlobal(...))`, and cron jobs awaiting such a run. |
| `SessionRunsProofs` | The two lanes of every run agree; one run per session. |
| `FollowupQueue` | One session key: queue objects, the `FOLLOWUP_QUEUES` and callback maps, the agent run of the session, messages on their way from the decision to the enqueue. |
| `FollowupQueueProofs` | Every safety property of `FollowupQueue`. |
| `Outbox` | Abstract: what a durable outbound queue promises. |
| `DeliveryQueue` | Files, live deliveries and a recovery pass as workers whose program counter moves at every file operation. |
| `DeliveryQueueProofs` | `DeliveryQueue` implements `Outbox`; an acknowledged entry stays acknowledged; the bound of the failure counters, and why entries are set aside. |
| `HeartbeatWake` | Pending map, timer, up to two batches (an old one can outlive its handler). |
| `CronService` | Jobs, runs in their stages, timer, tick and startup phases, a clock. |
| `ChannelManager` | One account. `task`, `abort`, `manuallyStopped`, `restartAttempts`, `running` and `restartPending` are the code's; `inst` is the promise chain of each `startAccount`; `phase` and `awaited` are where the user, the reload and the monitor stand in `stopChannel` or in their own code. |
| `GatewayLifecycle` | Writes to the configuration numbered in order, the watcher of the listening server (`currentConfig`, `debounce`, `reload`, `again`), the scheduler (`timer`, `polls`), the reload handlers (`checking`, `restartQueued`, `restartPending`), the run loop (`loop`, `closing`, `restartResolver`, `lock`, `server`). |
| `SubagentRegistry` | A tree of sessions, each with a bounded number of runs. `subagentRuns` and `disk` are the records; `grace`, `waiting`, `completing`, `flow`, `timers`, `steer`, `killing` are the open callbacks of the modules around them. |
| `GatewayHandover` | The variables of `GatewayLifecycle` that a handover from one server to the next is about, and `CleanHandover`, so that its proof can share a module with that of the channels. |
| `HeartbeatWakeProofs`, `CronServiceProofs`, `SubagentRegistryProofs` | Theorems about the module of that name. |
| `GatewayProofs` | Theorems about `ChannelManager` and `GatewayLifecycle`. |
| `MC…` | Instances for TLC: functions that a cfg cannot write. |

How actions were cut. JavaScript runs a synchronous stretch to its end, so an
action is one stretch: from where a callback, timer or promise reaction enters
to the next `await` or return, with everything it calls. Consequences:

- `CommandLanes`: every action that frees a slot also pumps (`drainLane` is
  called synchronously); a task's body may finish at any later time. A
  completion compares `startedIn` with the lane's generation as `completeTask`
  does. Resetting pumps every lane with a non-empty queue in the same step.
- `SessionRuns`: starting a session task enqueues the global task in the same
  step; the end of the global task reaches the session lane in a later step.
- `FollowupQueue`: the drain of an object is cut at the debounce wait and at
  the followup run. Between them the same array is pushed to, dropped from and
  cleared. A message's decision (`isActive`) and its enqueue are separate steps
  because awaits lie between them. Prompts are the set of messages they carry.
  A message is one delivery by the channel; `IdOf` gives its id, if it has one,
  and a redelivery is another delivery with the same id. The cache of recent ids
  drops the ids in `Expiring` at any time (`Forget`: five minutes have passed, or
  ten thousand ids came later), and never holds a delivery without an id.
- `DeliveryQueue`: rename, unlink, the read and the write of `failDelivery`
  are separate steps, each of which may fail (`MaxFaults`) or be followed by a
  crash. `retry` is the counter in the file, `seen` the stale copy a worker has
  read. A payload that fails under bestEffort is swallowed: a live
  delivery with an `onError` counts it as a failure, anybody else acknowledges.
  What fails outside the handling of payloads, such as a channel that cannot be
  set up, is thrown whatever the caller asked for, and may be permanent.
  The directory scan is one step; backoff is a choice (`Defer`). One
  recovery pass at a time; a restart in order happens only with no delivery in
  progress, a crash at any time. `overlapped` marks entries a pass had already
  loaded while their live delivery was in progress: they may be sent twice, and
  are the one exemption of `AckedNotReplayed`.
- `HeartbeatWake`: timers count ticks; the order in which a batch takes its
  targets is free; the handler's answer is a choice.
- `CronService`: everything under `locked(...)` is one step and ends with a
  persist, so `jobs` stands for memory and disk. Executions have stages:
  `checked` (a manual run between its two locked sections), `marked`,
  `executing`, `ended`. One budget (`MaxEvents`) pays for edits, manual runs and
  crashes. `skipped` and `permanent` results and `every` schedules are part of
  the module; the cfg keeps the two kinds and two results that interact most.
  A run is `freed` when the code takes its marker away while it executes
  (disabled, stuck, outcome of a namesake): the exemption of `NoOverlap`.
  `hold` is a history variable: the end of a job's error backoff.
- `ChannelManager`: `startChannelInternal` is one step when `isConfigured`
  answers at once, and two when it waits (a property of the plugin, chosen in
  `Init`); `stopChannel` is cut at the plugin's hook and at the wait for the
  task it read before that. The hook answers or rejects; then `stopChannel`
  rejects before it waits and deletes, and its caller does not go on to the start
  (`HookFails`). Promise chains run before the next timer or caller
  does: `Quiet`. A start by an instance that restarts itself keeps the marks.
- `GatewayLifecycle`: emission, authorisation and handler of a SIGUSR1 are one
  synchronous call, hence one step (`Emit`). Delays and cooldowns are any delay.
  A new server starts with a watcher that compares with the configuration read
  when the start began; closing a server turns what its handlers had under way
  into polls of nobody's. A close may throw (`CloseFails`), before its watcher is
  stopped or after: the loop goes on without the server, which listens on, and
  `watching` says whether a watcher survives; such a watcher serves the configuration in
  `currentConfig`, and `bootConfig` is what the next server will start with.
  `lost` records the valid writes that were missed, whose reload or restart failed,
  or that a surviving watcher swallowed: the exemption of `EditApplied`. `bootRestart`
  records that a restart was asked for during a start, the exemption of both.
- `SubagentRegistry`: completion, cleanup and announce are cut where they await
  the frozen reply, the announce flow and the bookkeeping. A run that starts
  again (steer, wake) is a new record `<<session, number>>`. `disk` differs
  from `subagentRuns` between a change and the persist after it; a crash
  restores `disk`. A step may drop callbacks that can change nothing any more.
  `exempt` records the runs that `ParentLast` does not speak of: killed ones,
  those registered when the run that spawned them had ended or was no longer its
  session's latest (the parent could not know of them), and those that go on
  with such a run, or with one whose record a sweep or a kill had removed.

## 4. Runs and bounds

`tlc -config X.cfg M` in this directory; all finish within five minutes.
`CHECK_DEADLOCK FALSE` is set everywhere: the system is idle when nobody sends
anything, and a bounded model stops when its bounds are used up. What a
deadlock check would find is covered by the liveness properties and by
`WorkConserving`, `DrainAlive` and `SchedulerAlive`.

Each module states its `TypeOK`. For the two lane modules, the followup queue,
the delivery queue, the channel manager and the subagent registry it is
proved; the run `delivery` also checks it, since there it bounds the failure
counters. The other type invariants were checked with TLC on the same instances
but are no part of the runs, which are kept for what could go wrong.

| Run | Bounds | Shows |
|---|---|---|
| `lanes` | 2 lanes, 3 tasks, limits 0 (stored as 1) and 2, 2 resets | Exact accounting, no lost wakeup, order, honest drain, starts within the limit, every queued entry leaves. Two resets are the fewest that let a task of generation 0 complete in generation 2; three tasks on one lane of limit 2 give a queue behind a full lane. |
| `runs` | 4 runs (2 of one session, 1 competitor, 1 cron), global limit 1, 1 reset | One run per session before a restart, slots of the two lanes agree also after it, no cycle of held slots, preserved work starts. |
| `followup` | 4 deliveries (2 of which can start a run directly; the third redelivers the second message, whose id the cache may drop; the fourth has no id and another thread), collect and followup modes with caps 1 and 2 and all drop policies, one failing run, one clear, 2 queue objects | Nothing run twice while its id is remembered, nothing reordered, nothing lost short of overflow and clears, a drain always alive, cleared messages never run, a queued message gets a run. |
| `followup_cleared` | 3 messages, no overflow, one clear, 3 objects | **Violation** of `OnlyClearedVanish`. |
| `delivery` | 2 messages (one bestEffort with an `onError`), failures swallowed or thrown, permanent or not, 2 retries, 2 crashes, 1 failing file operation | Refinement of `Outbox`, set aside only for cause, no resend after ack, every entry resolved. Two messages make recovery order matter; two crashes reach recovery of a recovery. |
| `delivery_besteffort` | 1 bestEffort message, 1 crash | **Violation** of `FailedNotAcked`. |
| `heartbeat` | 2 targets, 2 priorities, delays 0 and 1, retry 2, 3 requests, 3 handlers, 2 busy or throwing answers | No wake lost or downgraded, no overlap of batches of one handler, an armed cooldown kept, every wake served. Three handlers give old batch, replaced handler, and replacement of the replacement. |
| `cron` | a recurring job (period 2) and a one-shot, clock to 3, 2 events, results ok and transient | No overlap, no leaked marker, timer armed, slots kept, backoff kept. Two events are enough for manual run against crash, edit against manual run and two crashes; clock 3 sees a slot, its backoff and the next slot. Further instances checked while developing: `every` with `cron`, results `skipped` and `permanent`, a one-shot kept after its run. |
| `channels` | 2 instances at once, 1 restart attempt (10 in the code), monitor on, all four kinds of plugin, a hook that answers or rejects | One instance, stops heard, stopped stays stopped, a crashed account comes back. Two instances are what the overtaken starts can leave; the number of attempts only decides when the instance gives up to the monitor, and 1 has a restart and a giving up. |
| `lifecycle` | 3 edits of every kind, 1 requested restart, 1 scheduler poll, 3 failures (reload, check, start, close) | Every edit ends up in the server unless missed, failed or swallowed, the lock is held, and the old server closed if its close worked, when the next one starts. Three edits give one applied, one in progress and one noticed meanwhile; an edit and the request give a restart during a restart; three failures give a failed close, the failed start that follows it and one more. |
| `subagents` | a run of the user that may run twice and one child run in delete mode, 2 announce retries (3 in the code), 1 disturbance (error, failed call, steer, kill, sweep, crash) | Nothing announced twice, a parent's result after its children's, every record resolved. One disturbance at every point of every interleaving; two disturbances, with runs that both may go on once, were checked while developing (6.6 million states). |
| `subagents_delete` | same, no disturbance | **Violation** of `FailedRetried`. |

Larger bounds only repeat the same situations: tasks, messages and jobs are
treated alike apart from the roles named above, and each role has a member. For
the properties proved in section 6 there are no bounds at all.

## 5. Fairness

Weak fairness stands for the Node event loop and for the timeouts the code
gives its operations; strong fairness is named where it is used.

- `CommandLanes`: a task ends (agent turns and jobs have timeouts), and the
  poll of a wait is re-armed by `setTimeout`. Nobody is obliged to submit,
  restart or change limits.
- `SessionRuns`: the next step of a run happens, except that a run interrupted
  by a restart owes nothing; a restart once begun reaches its reset because its
  drain has a timeout.
- `FollowupQueue`: awaits resolve and runs end.
- `DeliveryQueue`: workers go on; the gateway comes up again after a crash.
  Entries are retried only by recovery at startup, so that an entry is ever
  resolved depends on the environment restarting the gateway again and again,
  not always before an entry's backoff has passed: strong fairness of `Replay`
  and `GiveUp` says exactly that. It is an assumption on operators, not on the
  code.
- `HeartbeatWake`: timers fire, calls return with something other than
  "busy" at last (the busy answers are bounded), and a stopped lifecycle has a
  successor, which the run loop starts.
- `CronService`: no liveness is claimed; `SchedulerAlive` is the safety
  property that would make it true.
- `ChannelManager`: an instance that was aborted ends, `isConfigured` and the stop hook answer or reject,
  the monitor's interval goes on. These are strong, because the promise chains
  that run first (`Quiet`) disable them for a moment again and again while the
  event loop keeps their timers and answers. Users, edits and crashes owe nothing.
- `GatewayLifecycle`: some system step is taken while one can be (weak). Every
  behaviour within the bounds is finite, so nothing pending is left out. Nobody
  has to edit the file or to ask for a restart.
- `SubagentRegistry`: runs end, waits and calls answer, flows and timers go on,
  each session's by itself (weak). The half hour after which an announcement is
  given up ends also while its flow alternates between trying and waiting
  (strong, `FlowExpires`). Users, sweeps and crashes owe nothing.

## 6. Proofs

`tlapm M.tla` checks them; no step is left unproved.

`CommandLanesProofs` assumes only `LanesAssumption` (limits are integers, the
bounds are naturals, `NoLane` is no lane), so the results hold for any set of
lanes and any number of tasks and resets.

- `TypeCorrect`, `ActiveIsExact`, `QueueIsExact`, `NeverIdleOnWork`: the
  invariants `TypeOK`, `ActiveExact`, `QueueExact`, `WorkConserving`.
- `StartsInOrder`, `DrainIsHonest`: the invariants `NoOvertaking` and
  `DrainedIsHonest`.
- `StartsRespectCap`, `OutcomesAreFinal`: the action properties
  `StartsWithinCap`, `SettledForGood` (the latter is proved and in no run).

The argument. The inductive invariant `IInv` is `TypeOK`, `ActiveExact`,
`QueueExact`, `WorkConserving`, `NoOvertaking` and three facts that make them
inductive: `StartedBefore` (a task's generation stamp is never later than its
lane's, so that a reset makes every executing task old), `NewFromNext` (ids not
handed out yet are `new`, so that an appended id is the largest) and `Placed` (a
queued task has a lane, an id not handed out has none). The heart is one
lemma family about `DrainLanes`: started tasks are a prefix of the queue, as
long as the free slots allow, so that afterwards the queue is empty or the lane
full. Without `ActiveExact` in the invariant `WorkConserving` is not
inductive: a slot counted for a task that has ended would never be given back.
`DrainIsHonest` uses `IInv` and one invariant more, `WaiterInv`: while a wait is
on, each task of its snapshot has settled or still holds its slot. A slot is
given up only by settling or by a reset, and the run loop resets the lanes only
after its wait is over.

`DeliveryQueueProofs` proves `OutboxImplemented` (`Spec => Promise!Spec`) for
every set of messages and any number of retries, crashes and faults, from
`DeliveryAssumption` (ids are naturals, `MaxRetries` is at least 2: it is 5 in the code). Its invariant `RInv` is `Shape` (types and what each
program counter implies) and `AckJustified` (a worker about to rename an entry
away works on one whose recipient was reached, whose caller aborted, or whose
failures the caller asked to ignore). Without the second part a rename is not
known to be an allowed `Settle`.

`AckedStaysAcked` is the action property `AckedNotReplayed`. Its invariant `AInv`
adds to `RInv` that two workers are at one entry only if `overlapped` notes it,
that an acknowledged entry outside `overlapped` has no `.json` file and is on no
pass's list, and that its workers, if any, are about to unlink: nobody is left
who could write the file again.

The same module proves `CountersBounded` (`TypeOK`, whose content is that
no counter on disk, in a worker's memory or in a pass's list passes
`MaxRetries`) and `SetAsideOnlyForCause` (`SetAsideForCause`). `failDelivery`
reads the count, then writes it plus one, and a live delivery and a pass may do
so for one entry at once. `CInv` shows why this is harmless: a live delivery
counts at most one failure, and while it is in progress at most one pass gets at
its entry and counts at most one, so where two workers meet the counter is still
0 or 1, and a worker alone holds the latest count. With at least two retries no
stale write takes an entry past the limit or back from it; `MaxRetries >= 2` is needed here and the code has 5.

`HeartbeatWakeProofs` proves `WakesAreKept`, `BatchesRunAlone` and
`CooldownsAreKept` (`NoWakeLost`, `OneBatch`, `CooldownKeptOnceArmed`) from
`HeartbeatAssumption`: reasons have a priority of at most 3, and the delays that
callers and the coalescing use are at most the retry delay (1 s in the code; a
wake with a longer delay would still be kept, but not its cooldown). `IInv` is
`Shape` (types, and what a batch in progress calls, has yet to call and
answers), `NoWakeLost`, `Alone` (`running` says whether a batch is in progress,
and there is one at most, unless one outlived its handler) and `Cool` (while
nothing hurries it, a target that cools has a retry timer at least as long, and
no batch is about to call it). `Cool` is what makes the cooldown inductive: the property speaks
of calls, and whether one comes too early was decided when the timer was armed.

`SessionRunsProofs` proves `OneRunAtATime` (`OneRunPerSession`), `LanesAgree`
(`SlotsAgree`) and `TypeCorrect` from `SessionRunsAssumption`: finitely many
sessions with names other than the global lanes', a positive limit. The runs, the
cron jobs among them and the resets are any. `IInv` says of the lanes of the
present epoch: a lane's queue holds tasks of that lane which are queued, each once
(`QueueOK`); a slot is held by a running task that started in it since the last
reset, and every such task holds one (`ActiveOK`, `RunningOK`); a session lane
has one slot, and uses it while it has work (`SlotOK`, `BusyOK`); a run is handed
over when its session task starts and not before, and the session task outlives
it (`HandedOK`, `BeforeOK`). The operations are functions on the lanes' state, so
the lemmas are about functions: what one pump starts, that a session's pump
starts at most one run and hands it over, and what a task's end gives back. In
the middle of an operation some sessions are still to be pumped and some runs to
be handed over; `Core(st, e, X, Y)` is the invariant up to those, and each pump
takes its session out of `Y`. The reset folds the pump over all lanes with work:
that the fold's recursive function exists, and that after `k` lanes only the
sessions of the others are left in `Y`, are two inductions on `k`.

`FollowupQueueProofs` proves the five safety properties of its run, `RunsOnce`
(`RunOnce`), `RunsInOrder` (`InOrder`), `NothingLost` (`NoSilentLoss`),
`DrainStaysAlive` (`DrainAlive`) and `ClearedNeverRuns` (`ClearedStaysCleared`),
and `TypeCorrect` (`TypeOK`), for any messages, modes, caps, drop policies,
routes, failing runs, clears and queue objects. The argument turns on the splice
by position: a drain copies items, awaits the run, then removes as many from the
front as it copied, while others append, drop and clear. `Removable` is what makes
that right: what is left of a batch lies within the first positions of the array.
The rest of `IInv`: each message is in one queue object (`Apart`); until a clear
only the mapped object has work or a drain (`OneDrain`); until an overflow or a
clear the batch is a prefix of the array and every accepted message has been run
or is in the mapped queue (`Kept`); log, batch and array follow the order of
acceptance (`Ordered`). None of these survives an overflow and a clear together,
and the properties do not claim it; `RunOnce` and `ClearedStaysCleared` hold
beyond them because `Removable` and `Apart` do. That two deliveries of one id are
not both run needs `Remembered` besides: an id of a delivery that was accepted is in the
cache or has been forgotten, so that a second delivery is accepted only after it
was forgotten (`Fresh`).

`CronServiceProofs` proves `OneExecutionPerJob` (`NoOverlap`) and
`EveryMarkerIsOwned` (`MarkerOwned`) from `CronAssumption`, for any jobs,
schedules and constants and without a bound on the clock. `IInv` is `Shape` and
`Safe`: a run that was reserved and not freed has its job's marker (`Guarded`),
there is one such run per job (`Single`), a marker has a run while the process is
up (`Owned`), and a process that is down has no runs. `Guarded` is the part
neither property mentions and both need: a tick or a manual run reserves a job
only where it finds no marker, and that excludes another protected run only
because of `Guarded`. The many recomputes are handled once: `Kept` says what the
maintenance of the slots may do to a marker, `After` what an edit, an outcome and
the maintenance together may, and `AfterStep` proves every such step safe.

The same module proves `TimerStaysArmed` (`SchedulerAlive`), `BackoffIsKept`
(`BackoffKept`) and `DueSlotsAreKept` (`SlotKept`) from a second invariant,
`SInv`, on top of `IInv`. `AllGood`: an enabled job without a slot is a one-shot
that ran, and a job in its backoff has no slot before the backoff's end.
`Windows`: a job a tick has reserved is past its backoff, and unused ids have
none. `Silent`: if the scheduler is up without a timer and not in the `finally`
that arms one, no enabled job has a slot. `Clock` keeps times positive, so that
`None` and time 0 are not confused. A recomputation takes the least slot over all
jobs; that the least exists for any finite or infinite set of times is proved from
the well-foundedness of the naturals.

`GatewayProofs` proves `AtMostOneInstance`, `EveryStopIsHeard` and
`StopsAreKept` (`OneInstance`, `StopsAreHeard`, `StoppedStaysStopped`) from
`ChannelAssumption` (finitely many instances with names of their own), for any
number of instances and attempts. `IInv` is `TypeOK`, `Entries` (the two entries
of the account belong to one instance that is up or sleeps), `StopsAreHeard`,
`NothingWaits` where neither `isConfigured` nor a hook waits, `MonitorOnce` (the
monitor starts the account at most once at a time) and `StopHolds` while the
user's stop holds. `NothingWaits` carries the argument for one instance: between
the end of an instance and the end of the stop that waited for it, no other can
have been started. Without `MonitorOnce` an old start of the monitor could pass
for one that overtook the stop.

The same module proves `HandoverIsClean` (`CleanHandover`) of
`GatewayLifecycle`, with no assumption on the bounds. `IInv` is that a process that has exited does not listen and, unless
a restart was asked for during a start (`bootRestart`), `RestartApart` and
`LockKept`, and `NoServerBetween` until a close has thrown: the loop is in its
starting phases only when no close is in progress, only a failed start leaves a
living process without the lock, and no server listens between a close and the
next start. `LockKept` does not need the closes to succeed, because the lock is
given back and taken again by the loop and not by the server.

`SubagentRegistryProofs` proves `AnnouncedAtMostOnce` (`AnnouncedOnce`),
`ChildrenFirst` (`ParentLast`) and `TypeCorrect` (`TypeOK`) from
`SubagentAssumption`, for any tree of sessions, any number of runs, retries and
disturbances. The argument for one announcement is about what a record may be
while a flow works on it (`RecordOK`, of the records in memory and of those on
disk, since a crash turns the latter into the former): a flow holds
`cleanupHandled` and gives it back only before the delivery, a delivered record
is handled or done, and a kill closes a record that no flow has. A completion
takes the kill back only from such a record, so that it cannot open one that was
announced. `FreshOK` says that a run nobody has registered was not announced
either, which the records of steers and wakes need.

The argument for the order: a flow that has found no pending descendant delivers
at a later step, or asks for a wake first. `WaitedFor` says that from then on
every run it waits for that is not exempt stays ended and done, and needs what
keeps new ones from appearing: the run is over and stays over (`StartedStays`); a spawn
names the latest run of its session, which executes; a child registered late is
exempt unless that run still executes; and a steer or a wake replaces only a run
that is not done (`SteerOK` says so of the run that is steered), which a settled
parent has none of. An earlier `exempt` knew
only killed runs and late registrations, and with two disturbances TLC found
parents told first: the records that took the place of an exempt or a removed one
were not in it. A step changes one record and one flow, or resumes many:
`Changes` and `Prepares` say what such a step may do, and `Good` what it may do to
one record.

Only model-checked: all liveness (`EveryQueuedTaskLeaves`, `EveryRunSettles`,
`QueuedWorkStarts`, `QueuedGetsRun`, `EveryEntryResolved`, `EveryWakeServed`,
`CrashedComesBack`, `EditApplied`, `EveryRunResolved`).

Out of the prover's reach: liveness under fairness and ENABLED; the library's
induction theorems, since they take an operator parameter that none of the
installed provers instantiates; and modules with RECURSIVE operators, which
therefore are not used. Where an induction over numbers is needed (the folds of
`SessionRuns`, the least slot of `CronService`) it is made over a set instead:
the least counterexample in a set of naturals, from `WFMin`.

## 7. Disagreements found

Each has a run whose counterexample shows it, and an entry in `findings` with
the quoted text.

| Run | Where | What |
|---|---|---|
| `followup_cleared` | `auto-reply/reply/queue/drain.ts:172` | The drain of a cleared queue object deletes whatever the key maps to, including the successor with a new message. |
| `delivery_besteffort` | `infra/outbound/deliver.ts:505` | Recovery passes no `onError`, so a failed bestEffort replay is acknowledged. |
| `subagents_delete` | `agents/subagent-announce.ts:1479` | In delete mode the child session is deleted even when the announcement failed, so that the retry finds no session and prunes the run: the result is never announced. |

Also met while reading, without a run of their own yet:

- Followup: overflow while a batch is in flight makes the splice by position
  remove other items than those sent, and lists an answered message as dropped
  (this is why `NoSilentLoss` speaks of executions without overflow). A message
  enqueued after finalize with no cached callback stays until the next one. A
  message redelivered after its id has left the cache (five minutes, ten thousand
  ids, `enqueue.ts:14`), and one without an id, is answered again. In
  followup mode the summary run consumes the head item's text.
- Followup mode, items empty, something dropped: the drain reschedules itself
  for ever and the summary is never sent (`drain.ts:174`, against
  docs/concepts/queue.md:69).
- Restart: `resetAllLanes` frees session slots but keeps queued global tasks, so
  that two runs of one session can execute together (`command-queue.ts:256`,
  against docs/concepts/queue.md:83); `OneRunPerSession` therefore speaks of runs
  before a reset. "All active work drained" speaks of the tasks that were active when
  the wait began (`run-loop.ts:151`); queued entries started since may be active.
- Heartbeat: a normal timer armed during the call is due before the retry
  cooldown and wins (`heartbeat-wake.ts:173`, against lines 123-124). The
  `finally` of a batch that outlived its handler clears `running` of the new
  handler's batch; wakes a stopped runner still receives are answered "disabled".
- Cron: the last section of `start()` advances slots that became due during the
  catch-up (`ops.ts:119`, against `timer.ts:986`). The catch-up's put-off list is
  a snapshot (`timer.ts:981`), so a put-off job that ran meanwhile gets another
  slot inside its backoff; the backoff at a restart counts from the start of the
  failed run (`timer.ts:817`); disabling and enabling a job during its run lets
  it run twice (`ops.ts:303`); `add()`
  skips other jobs' due slots (`ops.ts:245`), and when its save fails leaves a
  job in memory with a slot and arms no timer (`ops.ts:247`); `stop()` is undone by a tick in
  flight (`ops.ts:134`); an interrupted one-shot executes again at the first
  tick although the startup itself skips it
  (`service.restart-catchup.test.ts:195`).
- Channels: two starts that both wait for `isConfigured` start two instances,
  one of which no stop finds (`tasks.has` is read before the await); the
  unconditional delete at the end of `stopChannel` (`server-channels.ts:443`)
  does the same to an instance started during the plugin's hook; hence the
  premise of `OneInstance`. A stop that finds nothing leaves no mark, a start
  during a stop is dropped, a monitor in the middle of its own stop starts again
  what the user has stopped meanwhile (the exemption `overtaken`). A stop hook
  that rejects (`server-channels.ts:427`) leaves the account marked as stopped
  by hand, so that neither the reload that asked for the stop nor the monitor
  starts it again. Attempts are
  not reset by a successful automatic restart, although the comment at line 140
  says so, and a restart that throws is not tried again, although line 378
  says the next crash will.
- Lifecycle: an edit made while a server starts is not noticed by its watcher
  (against docs/gateway/configuration.md:57); a hot reload or a restart check
  that fails leaves the edit marked as current, so it is not tried again; a restart
  requested during a start is swallowed, or starts a second server; a failed start
  in the process loses the gateway lock for good; a close that throws
  (`run-loop.ts:165`) leaves a server listening that the loop has forgotten: the
  next start fails on its port and gives the lock away, and, when the close failed before the watcher was
  stopped (`server-close.ts:68`), the old watcher keeps its mark of a queued restart
  (`config-reload.ts:108`) and swallows every later edit that needs one; a poll that survives its server
  emits a second restart.
- Subagents: a kill during the wait of a steer is undone when the record is
  replaced (against docs/tools/subagents.md:286); a crash during an announcement
  leaves `cleanupHandled` on disk and the result is never announced; a crash
  during a steer leaves the mark "steer-restart" for ever; records restored at
  start-up wait through a server that does not listen yet (`server.impl.ts:509`);
  the sweeper removes a run after an hour even if it is active; `runs.json` is
  overwritten in place.

## 8. What is not covered

- Components listed as planned or not planned in section 1.
- In the modelled ones: logging, wait warnings, metrics, formatting; the steer
  and interrupt modes of followups (they bypass the queue); when the id cache forgets is a choice; chunking and
  channel adapters (the outcome of a send is a choice); a recovery pass that
  runs into its time budget is a choice to defer; failing writes of the cron
  store (`TimerStaysArmed` speaks of a store that can be written), a second cron service on the same store, uncomputable schedules,
  failure alerts, the session reaper, and a timed-out job core that goes on.
- Channel manager: one account (accounts share nothing but the monitor's
  snapshot), `markChannelLoggedOut` and what a plugin itself writes into the
  status; the monitor's cooldown and hourly limit only delay it.
- Gateway lifecycle: reload modes other than "hybrid"; a missing file is a broken
  one; a read in progress ends before its server is closed; which component a
  hot reload restarts (channels are in `ChannelManager`).
- Subagents: two levels of nesting, one steer per session at a time, orphan
  recovery, the announce queue of a busy requester (an announcement arrives or
  fails, and when it fails the child's session may be deleted or not, also where the code keeps
  it because the requester is gone, `subagent-announce.ts:1375`), attachments and hooks except as the await before the bookkeeping; a
  silent reply counts as delivered; a sweep persists in one step; a run whose
  cleanup is complete is not followed further; two timers of one run due at the same instant
  count as one.
- Real time: clocks are counters of ticks, intervals are small numbers that
  keep the order of the code's constants where properties depend on it.
- Memory effects of JavaScript do not occur: there is one thread, and state
  shared between processes is files only.
