---------------------------- MODULE CronService ----------------------------
(***************************************************************************)
(* The cron scheduler of one gateway process (src/src/cron/service):       *)
(* timer.ts (ticks, outcomes, catch-up after a restart), ops.ts (start,    *)
(* add, update, remove, list, manual runs) and the slot arithmetic of      *)
(* jobs.ts.                                                                *)
(*                                                                         *)
(* Every section of the code under locked(...) is one atomic action:       *)
(* sections on one store are serialised and end with a persist, so memory  *)
(* and disk agree between them and "jobs" stands for both.  Jobs execute   *)
(* OUTSIDE the lock, for any length of time: that gap, and a crash in it,  *)
(* is what the marker "running" (runningAtMs) has to survive.              *)
(*                                                                         *)
(* Schedules are slots: a cron job is due at every multiple of Period, an  *)
(* every-job has its anchor at 0, an at-job has one time.  Time is counted *)
(* from 1 in ticks; a timer may fire any time after its deadline.          *)
(***************************************************************************)
EXTENDS Integers, FiniteSets

CONSTANTS
    Jobs,            \* job ids; an id is used once, as the code's UUIDs are
    Kind,            \* [Jobs -> {"cron", "every", "at"}]
    KeepAfterRun,    \* the at-jobs created with deleteAfterRun = false
    Period,          \* slot distance of cron and every-jobs
    Gap,             \* MIN_REFIRE_GAP_MS
    Recheck,         \* MAX_TIMER_DELAY_MS
    Stagger,         \* missedJobStaggerMs
    BackoffStep,     \* first error backoff; it doubles once, then stays
    Stuck,           \* STUCK_RUN_MS
    MaxAttempts,     \* retry.maxAttempts of at-jobs
    MaxMissed,       \* maxMissedJobsPerRestart
    Concurrency,     \* maxConcurrentRuns
    Results,         \* how an execution can end
    MaxTime,         \* bound: the clock
    MaxEvents        \* bound: edits, manual runs and crashes, together

None == -1
AllResults == {"ok", "skipped", "transient", "permanent"}
Failures == {"transient", "permanent"}
Kinds == {"cron", "every", "at"}

ASSUME CronAssumption ==
    /\ Kind \in [Jobs -> Kinds]
    /\ KeepAfterRun \subseteq Jobs
    /\ Results \subseteq AllResults
    /\ Period \in Nat \ {0} /\ Gap \in Nat \ {0} /\ Recheck \in Nat \ {0}
    /\ Stagger \in Nat \ {0} /\ BackoffStep \in Nat \ {0} /\ Stuck \in Nat \ {0}
    /\ MaxAttempts \in Nat /\ MaxMissed \in Nat /\ MaxTime \in Nat /\ MaxEvents \in Nat
    /\ Concurrency \in Nat \ {0}
    /\ MaxAttempts <= 2    \* error counts are kept up to 2

VARIABLES
    now,          \* the clock
    jobs,         \* store.jobs: a function whose domain is the stored ids
    used,         \* ids ever created
    runs,         \* executions in some stage between reservation and outcome
    timer,        \* deadline of state.timer, or None
    tick,         \* state.running with the place onTimer has reached
    phase,        \* the process and how far start() has come
    interrupted,  \* startupInterruptedJobIds
    deferred,     \* plan.deferredJobIds
    hold,         \* history: end of the job's error backoff window
    events        \* edits, manual runs and crashes so far

vars == <<now, jobs, used, runs, timer, tick, phase, interrupted, deferred, hold,
          events>>
startup == <<interrupted, deferred>>

Times == 1 .. MaxTime
Later == 1 .. (2 * MaxTime + Period + Gap + Recheck + 2 * BackoffStep
                          + Stagger * Cardinality(Jobs))
JobRec == [enabled : BOOLEAN, at : Later, next : Later \cup {None},
           running : Times \cup {None}, lastRun : Times \cup {None},
           status : {"none", "ok", "skipped", "error"}, errs : 0 .. 2]
RunRec == [job : Jobs, by : {"tick", "manual", "catchup"},
           stage : {"checked", "marked", "executing", "done"},
           began : Times, ended : Times \cup {None}, result : Results \cup {"none"},
           force : BOOLEAN, freed : BOOLEAN]

-----------------------------------------------------------------------------
(* Slot arithmetic *)

Bigger(a, b) == IF a > b THEN a ELSE b
Smaller(a, b) == IF a < b THEN a ELSE b

SlotAfter(t) == (t \div Period + 1) * Period
SlotBefore(t) == ((t - 1) \div Period) * Period
AnchorSlot(t) == Bigger(1, (t + Period - 1) \div Period) * Period

Backoff(errs) == IF errs <= 1 THEN BackoffStep ELSE 2 * BackoffStep

\* When an enabled job is due next.
NextRun(j, r, t) ==
    CASE ~ r.enabled -> None
      [] r.enabled /\ Kind[j] = "cron" -> SlotAfter(t)
      [] r.enabled /\ Kind[j] = "every" ->
            IF r.lastRun # None /\ r.lastRun + Period > t
              THEN r.lastRun + Period ELSE AnchorSlot(t)
      [] r.enabled /\ Kind[j] = "at" ->
            IF r.status = "ok" /\ r.at <= r.lastRun THEN None ELSE r.at

IsStuck(r, t) == r.running # None /\ t - r.running > Stuck

\* normalizeJobTickState
Normalised(r, t) ==
    IF ~ r.enabled THEN [r EXCEPT !.next = None, !.running = None]
    ELSE IF IsStuck(r, t) THEN [r EXCEPT !.running = None]
    ELSE r

Walked(J, t, Refresh(_)) ==
    [j \in DOMAIN J |->
        LET r == Normalised(J[j], t)
        IN  IF r.enabled /\ Refresh(r) THEN [r EXCEPT !.next = NextRun(j, r, t)] ELSE r]

\* recomputeNextRuns: every missing or past-due slot is recomputed.
Recomputed(J, t) == Walked(J, t, LAMBDA r : r.next = None \/ t >= r.next)

\* recomputeNextRunsForMaintenance: a past-due slot is kept unless it ran.
SlotRan(r) == r.running = None /\ r.lastRun # None /\ r.lastRun >= r.next

Maintained(J, t, expired) ==
    Walked(J, t, LAMBDA r : \/ r.next = None
                            \/ expired /\ t >= r.next /\ SlotRan(r))

\* armTimer: the deadline for the earliest slot, never in the past, never
\* later than the recheck interval.
Armed(J) ==
    LET due == {J[j].next : j \in {i \in DOMAIN J : J[i].enabled /\ J[i].next # None}}
    IN  IF due = {} THEN None
        ELSE LET first == CHOOSE t \in due : \A u \in due : t <= u
             IN  IF first <= now THEN now + Smaller(Gap, Recheck)
                                 ELSE Smaller(first, now + Recheck)

-----------------------------------------------------------------------------
(* Outcomes *)

\* Broken form: a failed job goes back to its schedule at once.
RecurringNext_NoBackoff(j, r, run, lastRun) ==
    NextRun(j, [r EXCEPT !.lastRun = lastRun], run.ended)

\* applyJobResult for a recurring job: the natural next slot, pushed out by
\* the error backoff or by the refire gap of cron jobs.
RecurringNext(j, r, run, lastRun) ==
    LET natural == NextRun(j, [r EXCEPT !.lastRun = lastRun], run.ended)
    IN  CASE ~ r.enabled -> None
          [] r.enabled /\ run.result \in Failures ->
                Bigger(natural, run.ended + Backoff(r.errs))
          [] r.enabled /\ run.result \notin Failures ->
                IF Kind[j] = "cron" THEN Bigger(natural, run.ended + Gap) ELSE natural

\* applyJobResult: the marker goes, the error count follows the result, and
\* an at-job is retried or disabled.
Applied(j, old, run) ==
    LET failed == run.result \in Failures
        errs == IF failed THEN old.errs + 1 ELSE 0
        r == [old EXCEPT !.running = None, !.lastRun = run.began,
                         !.status = IF failed THEN "error" ELSE run.result,
                         !.errs = Smaller(errs, 2)]
        lastRun == IF run.force /\ Kind[j] = "every" THEN old.lastRun ELSE run.began
    IN  IF Kind[j] = "at"
          THEN IF run.result = "transient" /\ errs <= MaxAttempts
                 THEN [r EXCEPT !.next = run.ended + Backoff(errs)]
                 ELSE [r EXCEPT !.enabled = FALSE, !.next = None]
          ELSE [r EXCEPT !.next = RecurringNext(j, r, run, lastRun)]

Deletes(j, run) == Kind[j] = "at" /\ j \notin KeepAfterRun /\ run.result = "ok"

\* applyOutcomeToStoredJob for a set of finished runs of different jobs; the
\* outcome of a job that was removed meanwhile is discarded.
Outcomes(J, fin) ==
    LET Run(j) == CHOOSE run \in fin : run.job = j
        finished == {run.job : run \in fin}
        kept == {j \in DOMAIN J : j \in finished => ~ Deletes(j, Run(j))}
    IN  [j \in kept |-> IF j \in finished THEN Applied(j, J[j], Run(j)) ELSE J[j]]

\* History: the backoff window a failed job is in after its outcome, until an
\* update of the job or the catch-up gives it another slot.
Held(J, fin) ==
    [j \in Jobs |->
        IF \E run \in fin : run.job = j
          THEN LET run == CHOOSE x \in fin : x.job = j
               IN  IF run.result \in Failures /\ j \in DOMAIN J
                     THEN run.ended + Backoff(J[j].errs) ELSE 0
          ELSE hold[j]]

\* History: a run is freed when its job's marker goes away under it for one of
\* the reasons the code means it to: the job was removed or disabled, the
\* marker was stuck, or another run of the same job ended.
Freed(rs, J, finished) ==
    {[run EXCEPT !.freed =
        \/ @
        \/ /\ run.stage # "checked"
           /\ run.job \in DOMAIN jobs => jobs[run.job].running # None
           /\ \/ run.job \notin DOMAIN J
              \/ J[run.job].running = None
           /\ \/ run.job \notin DOMAIN J
              \/ ~ J[run.job].enabled
              \/ run.job \in DOMAIN jobs /\ IsStuck(jobs[run.job], now)
              \/ run.job \in finished] : run \in rs}

NewRun(j, by, stage, force) ==
    [job |-> j, by |-> by, stage |-> stage, began |-> now, ended |-> None,
     result |-> "none", force |-> force, freed |-> FALSE]

RunsOf(by) == {run \in runs : run.by = by}

-----------------------------------------------------------------------------
(* Startup: ops.ts start() and the catch-up of timer.ts *)

FreshJob(at) == [enabled |-> TRUE, at |-> at, next |-> None, running |-> None,
                 lastRun |-> None, status |-> "none", errs |-> 0]

Created(j, at) == [FreshJob(at) EXCEPT !.next = NextRun(j, FreshJob(at), now)]

Init ==
    /\ now = 1
    /\ used \in SUBSET Jobs
    /\ jobs = [j \in used |-> Created(j, 1)]
    /\ runs = {} /\ timer = None /\ tick = "idle" /\ phase = "down"
    /\ interrupted = {} /\ deferred = {}
    /\ hold = [j \in Jobs |-> 0]
    /\ events = 0

\* What users and failures do to a running process, within the bound.
Event == phase # "down" /\ events < MaxEvents /\ events' = events + 1

\* Broken form: startup takes the markers it finds at their word.
Start_KeepsMarkers ==
    /\ phase = "down"
    /\ phase' = "plan"
    /\ interrupted' = {j \in DOMAIN jobs : jobs[j].running # None}
    /\ UNCHANGED <<now, jobs, used, runs, timer, tick, deferred, hold, events>>

\* Markers left by the process that died are cleared, and their jobs are kept
\* out of the catch-up.
Start ==
    /\ phase = "down"
    /\ phase' = "plan"
    /\ interrupted' = {j \in DOMAIN jobs : jobs[j].running # None}
    /\ jobs' = [j \in DOMAIN jobs |-> [jobs[j] EXCEPT !.running = None]]
    /\ UNCHANGED <<now, used, runs, timer, tick, deferred, hold, events>>

BackoffPending(j, r) ==
    /\ Kind[j] # "at" /\ r.status = "error" /\ r.lastRun # None
    /\ now < r.lastRun + Backoff(r.errs)

\* isRunnableJob, as the tick calls it.
Due(j) ==
    LET r == jobs[j]
    IN  r.enabled /\ r.running = None /\ r.next # None /\ now >= r.next

\* isRunnableJob, as the catch-up calls it: a one-shot that ran counts only as
\* a pending retry, a cron job also when the slot before now did not run.
Missed(j) ==
    LET r == jobs[j]
        ranOnce == Kind[j] = "at" /\ r.status # "none"
        waiting == r.next # None /\ r.next > now /\ BackoffPending(j, r)
    IN  /\ r.enabled /\ r.running = None /\ j \notin interrupted
        /\ \/ ranOnce /\ r.status = "error" /\ Due(j) /\ r.next > r.lastRun
           \/ ~ ranOnce /\ Due(j)
           \/ /\ Kind[j] = "cron" /\ ~ waiting
              /\ r.lastRun # None /\ SlotBefore(now) > r.lastRun

\* planStartupCatchup: the earliest MaxMissed missed jobs are reserved at once,
\* the others are put off.
Plan ==
    /\ phase = "plan"
    /\ LET missed == {j \in DOMAIN jobs : Missed(j)}
       IN \E first \in SUBSET missed :
            /\ Cardinality(first) = Smaller(MaxMissed, Cardinality(missed))
            /\ \A i \in first, j \in missed \ first : jobs[i].next <= jobs[j].next
            /\ phase' = IF missed = {} THEN "finish" ELSE "catchup"
            /\ deferred' = missed \ first
            /\ runs' = runs \cup {NewRun(j, "catchup", "marked", FALSE) : j \in first}
            /\ jobs' = [j \in DOMAIN jobs |->
                          IF j \in first THEN [jobs[j] EXCEPT !.running = now] ELSE jobs[j]]
    /\ UNCHANGED <<now, used, timer, tick, interrupted, hold, events>>

\* applyStartupCatchupOutcomes: outcomes first, then every put-off job that is
\* still there gets a slot of its own after now.
CatchApply ==
    /\ phase = "catchup"
    /\ \A run \in RunsOf("catchup") : run.stage = "done"
    /\ LET fin == RunsOf("catchup")
           after == Outcomes(jobs, fin)
           late == {j \in deferred \cap DOMAIN after : after[j].enabled}
       IN \E rank \in [late -> 1 .. Cardinality(late)] :
            /\ \A i, j \in late : i # j => rank[i] # rank[j]
            /\ jobs' = Maintained([j \in DOMAIN after |->
                           IF j \in late
                             THEN [after[j] EXCEPT !.next = now + rank[j] * Stagger]
                             ELSE after[j]], now, FALSE)
            /\ runs' = Freed(runs \ fin, jobs', {run.job : run \in fin})
            /\ hold' = [j \in Jobs |-> IF j \in late THEN 0 ELSE Held(after, fin)[j]]
    /\ phase' = "caughtup"
    /\ UNCHANGED <<now, used, timer, tick, startup, events>>

\* The last section of start(): full recompute, arm.
FinishStart ==
    /\ phase \in {"finish", "caughtup"}
    /\ phase' = "up"
    /\ jobs' = Recomputed(jobs, now)
    /\ runs' = Freed(runs, jobs', {})
    /\ timer' = Armed(jobs')
    /\ interrupted' = {} /\ deferred' = {}
    /\ UNCHANGED <<now, used, tick, hold, events>>

\* The process dies: markers of running jobs stay on disk.
Crash ==
    /\ Event
    /\ phase' = "down" /\ timer' = None /\ tick' = "idle" /\ runs' = {}
    /\ interrupted' = {} /\ deferred' = {}
    /\ UNCHANGED <<now, jobs, used, hold>>

-----------------------------------------------------------------------------
(* Ticks: onTimer *)

\* Broken form: the early return while a tick is in progress leaves no timer.
TimerFires_NoRecheck ==
    /\ phase # "down" /\ timer # None /\ now >= timer
    /\ timer' = IF tick = "idle" THEN now + Recheck ELSE None
    /\ tick' = IF tick = "idle" THEN "scan" ELSE tick
    /\ UNCHANGED <<now, jobs, used, runs, phase, startup, hold, events>>

\* While a tick is in progress the timer is only armed again for a recheck.
TimerFires ==
    /\ phase # "down" /\ timer # None /\ now >= timer
    /\ timer' = now + Recheck
    /\ tick' = IF tick = "idle" THEN "scan" ELSE tick
    /\ UNCHANGED <<now, jobs, used, runs, phase, startup, hold, events>>

\* First locked section: reserve every due job, or repair slots.
TickScan ==
    /\ tick = "scan"
    /\ LET due == {j \in DOMAIN jobs : Due(j)}
       IN IF due = {}
            THEN /\ jobs' = Maintained(jobs, now, TRUE)
                 /\ runs' = Freed(runs, jobs', {})
                 /\ tick' = "end"
            ELSE /\ jobs' = [j \in DOMAIN jobs |->
                               IF j \in due THEN [jobs[j] EXCEPT !.running = now] ELSE jobs[j]]
                 /\ runs' = runs \cup {NewRun(j, "tick", "marked", FALSE) : j \in due}
                 /\ tick' = "run"
    /\ UNCHANGED <<now, used, timer, phase, startup, hold, events>>

Executing(by) == {run \in RunsOf(by) : run.stage = "executing"}

\* A worker of the tick, or the catch-up loop, takes the next reserved job.
\* runDueJob renews the marker on the job object it was handed, outside the
\* lock: a write that is lost when the store was reloaded in between.
ExecStart(run) ==
    /\ run.stage = "marked"
    /\ Cardinality(Executing(run.by)) < (IF run.by = "tick" THEN Concurrency ELSE 1)
    /\ runs' = (runs \ {run}) \cup {[run EXCEPT !.stage = "executing", !.began = now]}
    /\ \/ UNCHANGED jobs
       \/ /\ run.by = "tick" /\ run.job \in DOMAIN jobs
          /\ jobs' = [jobs EXCEPT ![run.job].running = now]
    /\ UNCHANGED <<now, used, timer, tick, phase, startup, hold, events>>

\* The job's core returns, throws or is timed out.
ExecEnd(run) ==
    /\ run.stage = "executing"
    /\ \E result \in Results :
         runs' = (runs \ {run}) \cup
                   {[run EXCEPT !.stage = "done", !.ended = now, !.result = result]}
    /\ UNCHANGED <<now, jobs, used, timer, tick, phase, startup, hold, events>>

\* Broken form: the full recompute after the outcomes.
TickApply_FullRecompute ==
    /\ tick = "run"
    /\ \A run \in RunsOf("tick") : run.stage = "done"
    /\ LET fin == RunsOf("tick")
           after == Outcomes(jobs, fin)
       IN /\ jobs' = Recomputed(after, now)
          /\ runs' = Freed(runs \ fin, jobs', {run.job : run \in fin})
          /\ hold' = Held(after, fin)
    /\ tick' = "end"
    /\ UNCHANGED <<now, used, timer, phase, startup, events>>

\* Second locked section: outcomes on a reloaded store, maintenance only.
TickApply ==
    /\ tick = "run"
    /\ \A run \in RunsOf("tick") : run.stage = "done"
    /\ LET fin == RunsOf("tick")
           after == Outcomes(jobs, fin)
       IN /\ jobs' = Maintained(after, now, FALSE)
          /\ runs' = Freed(runs \ fin, jobs', {run.job : run \in fin})
          /\ hold' = Held(after, fin)
    /\ tick' = "end"
    /\ UNCHANGED <<now, used, timer, phase, startup, events>>

\* The finally block, after the session reaper was awaited.
TickEnd ==
    /\ tick = "end"
    /\ tick' = "idle"
    /\ timer' = Armed(jobs)
    /\ UNCHANGED <<now, jobs, used, runs, phase, startup, hold, events>>

-----------------------------------------------------------------------------
(* Operations of users: ops.ts *)

Add(j) ==
    /\ Event /\ j \notin used
    /\ used' = used \cup {j}
    /\ jobs' = Recomputed([i \in DOMAIN jobs \cup {j} |->
                              IF i = j THEN Created(j, now + 1) ELSE jobs[i]], now)
    /\ runs' = Freed(runs, jobs', {})
    /\ timer' = Armed(jobs')
    /\ UNCHANGED <<now, tick, phase, startup, hold>>

\* update(): a change of "enabled" or of the schedule computes the job's slot
\* anew, disabling takes its marker away.
Update(j) ==
    /\ Event /\ j \in DOMAIN jobs
    /\ \E enabled \in BOOLEAN, at \in {jobs[j].at, now + 1} :
         LET r == [jobs[j] EXCEPT !.enabled = enabled, !.at = at]
         IN /\ at # jobs[j].at => Kind[j] = "at"
            /\ jobs' = [jobs EXCEPT ![j] =
                 IF enabled THEN [r EXCEPT !.next = NextRun(j, r, now)]
                            ELSE [r EXCEPT !.next = None, !.running = None]]
    /\ runs' = Freed(runs, jobs', {})
    /\ timer' = Armed(jobs')
    /\ hold' = [hold EXCEPT ![j] = 0]
    /\ UNCHANGED <<now, used, tick, phase, startup>>

Remove(j) ==
    /\ Event /\ j \in DOMAIN jobs
    /\ jobs' = [i \in DOMAIN jobs \ {j} |-> jobs[i]]
    /\ runs' = Freed(runs, jobs', {})
    /\ timer' = Armed(jobs')
    /\ UNCHANGED <<now, used, tick, phase, startup, hold>>

\* status(), list(), listPage(), and the first look of a queued manual run.
Read ==
    /\ phase # "down"
    /\ jobs' = Maintained(jobs, now, FALSE)
    /\ jobs' # jobs
    /\ runs' = Freed(runs, jobs', {})
    /\ UNCHANGED <<now, used, timer, tick, phase, startup, hold, events>>

\* inspectManualRunPreflight; the Cron lane admits Concurrency manual runs.
ManualCheck(j, force) ==
    /\ Event
    /\ Cardinality(RunsOf("manual")) < Concurrency
    /\ j \in DOMAIN jobs
    /\ jobs' = Maintained(jobs, now, FALSE)
    /\ LET r == jobs'[j]
       IN /\ r.running = None
          /\ force \/ (r.enabled /\ r.next # None /\ now >= r.next)
    /\ runs' = Freed(runs, jobs', {}) \cup {NewRun(j, "manual", "checked", force)}
    /\ UNCHANGED <<now, used, timer, tick, phase, startup, hold>>

\* Broken form: the check made in the first section is trusted.
ManualReserve_NoRecheck(run) ==
    /\ run.stage = "checked"
    /\ IF run.job \in DOMAIN jobs
         THEN /\ jobs' = [jobs EXCEPT ![run.job].running = run.began]
              /\ runs' = (runs \ {run}) \cup {[run EXCEPT !.stage = "executing"]}
         ELSE /\ runs' = runs \ {run}
              /\ UNCHANGED jobs
    /\ UNCHANGED <<now, used, timer, tick, phase, startup, hold, events>>

\* Second locked section of prepareManualRun: the marker is looked at again.
ManualReserve(run) ==
    /\ run.stage = "checked"
    /\ IF run.job \in DOMAIN jobs /\ jobs[run.job].running = None
         THEN /\ jobs' = [jobs EXCEPT ![run.job].running = run.began]
              /\ runs' = (runs \ {run}) \cup {[run EXCEPT !.stage = "executing"]}
         ELSE /\ runs' = runs \ {run}
              /\ UNCHANGED jobs
    /\ UNCHANGED <<now, used, timer, tick, phase, startup, hold, events>>

\* finishPreparedManualRun: nothing at all when the job is gone.
ManualFinish(run) ==
    /\ run.by = "manual" /\ run.stage = "done"
    /\ IF run.job \in DOMAIN jobs
         THEN LET after == Outcomes(jobs, {run})
              IN /\ jobs' = Maintained(after, now, TRUE)
                 /\ timer' = Armed(jobs')
                 /\ hold' = Held(after, {run})
         ELSE UNCHANGED <<jobs, timer, hold>>
    /\ runs' = Freed(runs \ {run}, jobs', {run.job})
    /\ UNCHANGED <<now, used, tick, phase, startup, events>>

Advance ==
    /\ now < MaxTime
    /\ now' = now + 1
    /\ UNCHANGED <<jobs, used, runs, timer, tick, phase, startup, hold, events>>

Next ==
    \/ Start \/ Plan \/ CatchApply \/ FinishStart \/ Crash
    \/ TimerFires \/ TickScan \/ TickApply \/ TickEnd
    \/ \E run \in runs : \/ ExecStart(run) \/ ExecEnd(run)
                         \/ ManualReserve(run) \/ ManualFinish(run)
    \/ \E j \in Jobs : \/ Add(j) \/ Update(j) \/ Remove(j)
                       \/ \E force \in BOOLEAN : ManualCheck(j, force)
    \/ Read
    \/ Advance

Spec == Init /\ [][Next]_vars

-----------------------------------------------------------------------------
(* Properties *)

\* Types, and that a disabled job never keeps a slot, which would arm the timer
\* for a job no tick may run.
TypeOK ==
    /\ now \in Times
    /\ used \subseteq Jobs /\ DOMAIN jobs \subseteq used
    /\ \A j \in DOMAIN jobs : /\ jobs[j] \in JobRec
                              /\ ~ jobs[j].enabled => jobs[j].next = None
    /\ runs \subseteq RunRec
    /\ timer \in Later \cup {None}
    /\ tick \in {"idle", "scan", "run", "end"}
    /\ phase \in {"down", "plan", "catchup", "caughtup", "finish", "up"}
    /\ interrupted \subseteq Jobs /\ deferred \subseteq Jobs
    /\ hold \in [Jobs -> Later \cup {0}]

\* A job is executed by one party at a time (tick, catch-up or a manual run),
\* however their locked sections and executions interleave: two runs of a job
\* coexist only when the marker was taken from the older one on purpose.
NoOverlap ==
    \A a, b \in {run \in runs : run.stage # "checked" /\ ~ run.freed} :
        a.job = b.job => a = b

\* No marker leaks: while the process is up, a job marked as running has a run
\* whose outcome will take the marker away, so no job is blocked for ever.
MarkerOwned ==
    phase # "down" =>
        \A j \in DOMAIN jobs : jobs[j].running # None =>
            \E run \in runs : run.job = j /\ run.stage # "checked"

\* The scheduler never falls silent: once started, a service with a job to run
\* has a timer armed, also while a tick is executing jobs, or is in the finally
\* block that arms it.
SchedulerAlive ==
    phase = "up" /\ (\E j \in DOMAIN jobs : jobs[j].enabled /\ jobs[j].next # None)
        => timer # None \/ tick = "end"

\* j's past-due slot is moved to a later time or dropped in this step.
SlotMoved(j) ==
    /\ j \in DOMAIN jobs /\ j \in DOMAIN jobs'
    /\ jobs[j].enabled /\ jobs'[j].enabled
    /\ jobs[j].running = None
    /\ jobs[j].next # None /\ now >= jobs[j].next
    /\ jobs'[j].next = None \/ jobs'[j].next > jobs[j].next

SlotRanBy(j) ==
    \/ jobs'[j].lastRun # None /\ jobs'[j].lastRun >= jobs[j].next
    \/ \E run \in runs \ runs' : run.job = j

\* The user moved the slot: an update of the job itself.
MovedByUser(j) ==
    /\ events' # events /\ used' = used
    /\ DOMAIN jobs' = DOMAIN jobs
    /\ \A i \in DOMAIN jobs \ {j} : jobs'[i] = jobs[i]
    /\ ~ \E run \in runs' \ runs : run.stage = "checked"

\* A due slot is never advanced without having been executed: not by a tick
\* that finds nothing, not by the outcome of another job, not by a read, a
\* manual run or the removal of another job.  start() and add() are left out
\* (both recompute every past-due slot); put-off jobs get their slot from the catch-up.
SlotKept ==
    [][\A j \in Jobs :
         SlotMoved(j) => \/ SlotRanBy(j) \/ MovedByUser(j) \/ j \in deferred
                         \/ phase' # phase \/ used' # used]_vars

\* A tick never runs a job inside the error backoff window of its last failure.
BackoffKept ==
    [][\A run \in runs' \ runs :
         run.stage = "marked" /\ run.by = "tick" => now >= hold[run.job]]_vars

=============================================================================
