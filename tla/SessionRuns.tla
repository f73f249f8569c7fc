----------------------------- MODULE SessionRuns -----------------------------
(***************************************************************************)
(* Embedded agent runs on two lanes (runEmbeddedPiAgent of                 *)
(* src/agents/pi-embedded-runner/run.ts): a run is a task of its session's *)
(* lane whose body enqueues a second task on a global lane and awaits it,  *)
(* so a session slot is held while the run waits for a global slot.  A     *)
(* manual cron run is a task of the cron lane that dispatches such a run   *)
(* and awaits it.                                                          *)
(*                                                                         *)
(* Starting a session task enqueues the global task in the same            *)
(* synchronous stretch; the end of the global task reaches the session     *)
(* lane in a later microtask.  Those are the steps of this module.         *)
(***************************************************************************)
EXTENDS LanePump, SequencesExt

CONSTANTS
  Runs,       \* bound: the runs that are ever submitted
  CronRuns,   \* those dispatched by a manual cron run
  Sessions,
  SessionOf,  \* the session of each run
  MainCap,    \* agents.defaults.maxConcurrent: limit of the main lane
  MaxResets   \* bound: calls of resetAllLanes

ASSUME SessionRunsAssumption ==
  /\ CronRuns \subseteq Runs
  /\ SessionOf \in [Runs -> Sessions]
  /\ MainCap \in Nat \ {0}
  /\ MaxResets \in Nat
  /\ IsFiniteSet(Sessions) /\ Sessions \cap {"main", "cron", "nested"} = {}

VARIABLES
  lanes,    \* the lanes and their tasks, see LanesType
  draining, \* queueState.gatewayDraining
  epoch     \* number of resetAllLanes calls: every lane's generation

vars == <<lanes, draining, epoch>>

-----------------------------------------------------------------------------

Outer(r) == <<"session", r>>  \* the task on the session lane
Inner(r) == <<"global", r>>   \* the task on the global lane: the run itself
Job(r)   == <<"job", r>>      \* the task on the cron lane that dispatches r

Tasks == {"session", "global"} \X Runs \cup {"job"} \X CronRuns

Lanes == Sessions \cup {"main", "cron", "nested"}

Ended == {"ok", "failed", "refused", "cleared"}

LanesType ==
  [queue     : [Lanes -> Seq(Tasks)],
   active    : [Lanes -> SUBSET Tasks],
   phase     : [Tasks -> {"new", "queued", "running"} \cup Ended],
   startedIn : [Tasks -> 0 .. MaxResets]]

\* Broken form: the cron lane is inherited by the inner run.
ResolveGlobalLane_Inherits(lane) == lane

(* resolveGlobalLane: the cron lane's slot is held by the job that awaits  *)
(* the run, so the run goes to the nested lane.                            *)
ResolveGlobalLane(lane) == IF lane = "cron" THEN "nested" ELSE lane

GlobalLane(r) == ResolveGlobalLane(IF r \in CronRuns THEN "cron" ELSE "main")

(* Only the main lane's limit is configured here; a lane starts with 1. *)
Cap(l) == IF l = "main" THEN MainCap ELSE 1

-----------------------------------------------------------------------------
(* Lane operations as functions of the lanes' state.                       *)

Pumped(st, l) ==
  LET S == Started(st.queue[l], st.active[l], Cap(l))
  IN  [st EXCEPT !.queue[l] = Rest(@, st.active[l], Cap(l)),
                 !.active[l] = @ \cup S,
                 !.phase = [t \in Tasks |-> IF t \in S THEN "running" ELSE @[t]],
                 !.startedIn = [t \in Tasks |-> IF t \in S THEN epoch' ELSE @[t]]]

(* enqueueCommandInLane, without the pump of the cascade it may start. *)
Pushed(st, l, t) ==
  [st EXCEPT !.queue[l] = Append(@, t), !.phase[t] = "queued"]

(* The body of a session task: enqueueGlobal. *)
HandedOver(st, r) ==
  IF draining' THEN [st EXCEPT !.phase[Inner(r)] = "refused"]
  ELSE Pumped(Pushed(st, GlobalLane(r), Inner(r)), GlobalLane(r))

(* The pump of a session lane runs the body of the run it starts. *)
SessionPumped(st, s) ==
  LET next    == Pumped(st, s)
      entered == {r \in Runs : /\ st.phase[Outer(r)] = "queued"
                               /\ next.phase[Outer(r)] = "running"}
  IN  FoldLeft(HandedOver, next, SetToSeq(entered))

(* completeTask: the slot is freed in the generation the task started in. *)
Completed(st, l, t, outcome) ==
  LET current == st.startedIn[t] = epoch
  IN  [st EXCEPT !.phase[t] = outcome,
                 !.active[l] = IF current THEN @ \ {t} ELSE @]

-----------------------------------------------------------------------------

Init ==
  /\ lanes = [queue     |-> [l \in Lanes |-> <<>>],
              active    |-> [l \in Lanes |-> {}],
              phase     |-> [t \in Tasks |-> "new"],
              startedIn |-> [t \in Tasks |-> 0]]
  /\ draining = FALSE
  /\ epoch = 0

(* runEmbeddedPiAgent: the caller awaits the session task. *)
Submit(r) ==
  LET s == SessionOf[r] IN
  /\ lanes.phase[Outer(r)] = "new"
  /\ UNCHANGED <<draining, epoch>>
  /\ lanes' = IF draining THEN [lanes EXCEPT !.phase[Outer(r)] = "refused"]
              ELSE SessionPumped(Pushed(lanes, s, Outer(r)), s)

SubmitRun(r) == r \notin CronRuns /\ Submit(r)

(* enqueueRun of the cron service: the job takes a slot of the cron lane. *)
SubmitJob(r) ==
  /\ r \in CronRuns
  /\ lanes.phase[Job(r)] = "new"
  /\ UNCHANGED <<draining, epoch>>
  /\ lanes' = IF draining THEN [lanes EXCEPT !.phase[Job(r)] = "refused"]
              ELSE Pumped(Pushed(lanes, "cron", Job(r)), "cron")

(* The job, after its own awaits, dispatches the agent run. *)
JobDispatch(r) ==
  /\ r \in CronRuns
  /\ lanes.phase[Job(r)] = "running"
  /\ Submit(r)

(* The job's body returns when the run it awaits has settled. *)
JobSettle(r) ==
  /\ r \in CronRuns
  /\ lanes.phase[Job(r)] = "running"
  /\ lanes.phase[Outer(r)] \in Ended
  /\ UNCHANGED <<draining, epoch>>
  /\ lanes' = LET st == Completed(lanes, "cron", Job(r), "ok")
              IN  IF lanes.startedIn[Job(r)] = epoch THEN Pumped(st, "cron") ELSE st

(* The agent run ends: its global slot is freed and that lane pumped. *)
FinishInner(r, outcome) ==
  LET l == GlobalLane(r) IN
  /\ lanes.phase[Inner(r)] = "running"
  /\ UNCHANGED <<draining, epoch>>
  /\ lanes' = LET st == Completed(lanes, l, Inner(r), outcome)
              IN  IF lanes.startedIn[Inner(r)] = epoch THEN Pumped(st, l) ELSE st

\* Broken form: the session task returns without awaiting the global task.
SettleOuter_NoAwait(r) ==
  /\ lanes.phase[Outer(r)] = "running"
  /\ UNCHANGED <<draining, epoch>>
  /\ lanes' = LET st == Completed(lanes, SessionOf[r], Outer(r), "ok")
              IN  IF lanes.startedIn[Outer(r)] = epoch
                  THEN SessionPumped(st, SessionOf[r]) ELSE st

\* Broken form: the session lane is pumped only after a successful run.
SettleOuter_NoPumpOnError(r) ==
  LET ok == lanes.phase[Inner(r)] = "ok" IN
  /\ lanes.phase[Outer(r)] = "running"
  /\ lanes.phase[Inner(r)] \in Ended
  /\ UNCHANGED <<draining, epoch>>
  /\ lanes' = LET st == Completed(lanes, SessionOf[r], Outer(r), IF ok THEN "ok" ELSE "failed")
              IN  IF ok /\ lanes.startedIn[Outer(r)] = epoch
                  THEN SessionPumped(st, SessionOf[r]) ELSE st

(* The session task sees the global task's promise settle: its own slot is *)
(* freed and the next run of the session starts and is handed over.        *)
SettleOuter(r) ==
  LET s       == SessionOf[r]
      outcome == IF lanes.phase[Inner(r)] = "ok" THEN "ok" ELSE "failed"
  IN
  /\ lanes.phase[Outer(r)] = "running"
  /\ lanes.phase[Inner(r)] \in Ended
  /\ UNCHANGED <<draining, epoch>>
  /\ lanes' = LET st == Completed(lanes, s, Outer(r), outcome)
              IN  IF lanes.startedIn[Outer(r)] = epoch THEN SessionPumped(st, s) ELSE st

(* clearCommandLane on a session lane (the /queue interrupt mode and       *)
(* clearSessionQueues): entries already handed over are not touched.       *)
ClearSession(s) ==
  /\ lanes.queue[s] # <<>>
  /\ UNCHANGED <<draining, epoch>>
  /\ lanes' = [lanes EXCEPT !.queue[s] = <<>>,
                            !.phase = [t \in Tasks |->
                              IF t \in ToSet(lanes.queue[s]) THEN "cleared" ELSE @[t]]]

(* The run loop: markGatewayDraining at the start of a restart. *)
BeginDrain ==
  /\ ~draining
  /\ epoch < MaxResets
  /\ draining' = TRUE
  /\ UNCHANGED <<lanes, epoch>>

PumpedAny(st, l) == IF l \in Sessions THEN SessionPumped(st, l) ELSE Pumped(st, l)

\* Broken form: lanes are left for the next enqueue to pump.
Reset_NoPump ==
  /\ draining /\ draining' = FALSE /\ epoch' = epoch + 1
  /\ lanes' = [lanes EXCEPT !.active = [l \in Lanes |-> {}]]

(* resetAllLanes: the wait has drained or timed out.  The lanes are pumped *)
(* in the order they were created in.                                      *)
Reset ==
  LET idle == [lanes EXCEPT !.active = [l \in Lanes |-> {}]]
  IN
  /\ draining
  /\ draining' = FALSE
  /\ epoch' = epoch + 1
  /\ \E order \in SetToSeqs({l \in Lanes : lanes.queue[l] # <<>>}) :
       lanes' = FoldLeft(PumpedAny, idle, order)

Next ==
  \/ \E r \in Runs : SubmitRun(r) \/ SubmitJob(r) \/ JobDispatch(r) \/ JobSettle(r)
  \/ \E r \in Runs, outcome \in {"ok", "failed"} : FinishInner(r, outcome)
  \/ \E r \in Runs : SettleOuter(r)
  \/ \E s \in Sessions : ClearSession(s)
  \/ BeginDrain
  \/ Reset

Spec == Init /\ [][Next]_vars

(* The next step of run r, of which there is at most one.  A run has a     *)
(* timeout of its own, promise reactions are always delivered and a job    *)
(* goes on to dispatch its run; a run interrupted by a restart owes        *)
(* nothing ("their finally blocks never ran").                             *)
Advance(r) ==
  \/ /\ lanes.startedIn[Inner(r)] = epoch
     /\ \E outcome \in {"ok", "failed"} : FinishInner(r, outcome)
  \/ SettleOuter(r)
  \/ JobDispatch(r)
  \/ JobSettle(r)

(* A begun restart goes on to the reset: its drain is bounded by a timeout. *)
Fairness == (\A r \in Runs : WF_vars(Advance(r))) /\ WF_vars(Reset)

FairSpec == Spec /\ Fairness

-----------------------------------------------------------------------------

TypeOK ==
  /\ lanes \in LanesType
  /\ draining \in BOOLEAN
  /\ epoch \in 0 .. MaxResets

(* "Only one agent run touches a given session at a time", as long as the  *)
(* gateway has not restarted in process: the session slot is held from the *)
(* hand-over to the end of the run, so of the runs of a session at most    *)
(* one waits for a global slot or has one.                                 *)
OneRunPerSession ==
  epoch = 0 =>
    \A s \in Sessions :
      Cardinality({r \in Runs : /\ SessionOf[r] = s
                               /\ lanes.phase[Inner(r)] \in {"queued", "running"}}) <= 1

(* The session lane and the global lane agree: a session slot of this      *)
(* epoch belongs to a run that has been handed over and whose end the      *)
(* session task has not yet seen, so neither lane leaks a slot the other   *)
(* still counts on, whatever restarts and clears intervene.                *)
SlotsAgree ==
  /\ \A s \in Sessions :
       /\ Cardinality(lanes.active[s]) <= 1
       /\ \A t \in lanes.active[s] : lanes.phase[Inner(t[2])] # "new"
       /\ lanes.queue[s] # <<>> => lanes.active[s] # {}
  /\ \A r \in Runs :
       lanes.phase[Inner(r)] \in {"queued", "running"} => lanes.phase[Outer(r)] = "running"

(* Every run that is accepted is settled for its caller when no restart    *)
(* interrupts it: no cycle of slots (session slot held for a global slot,  *)
(* cron slot held for a run) ever closes.  There are finitely many runs    *)
(* and each is accepted once, so this is one recurrence for all of them.   *)
EveryRunSettles ==
  []<>(\/ \A r \in Runs : lanes.phase[Outer(r)] \notin {"queued", "running"}
       \/ epoch > 0 \/ draining)

(* Work still queued on any lane at a restart is preserved and started. *)
QueuedWorkStarts == []<>(\A t \in Tasks : lanes.phase[t] # "queued")
=============================================================================
