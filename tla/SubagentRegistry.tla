-------------------------- MODULE SubagentRegistry --------------------------
(***************************************************************************)
(* The registry of background agent runs                                   *)
(* (src/agents/subagent-registry.ts with -cleanup.ts, -queries.ts and      *)
(* -state.ts): a run is recorded when it is spawned, completed by whichever *)
(* of a lifecycle event, an agent.wait answer and an error timer comes     *)
(* first, announced to the session that asked for it                       *)
(* (src/agents/subagent-announce.ts), retried, replaced when it is steered *)
(* or woken (src/agents/subagent-control.ts), killed, swept, and restored  *)
(* from disk after a crash.  All spawns expect a completion message, as    *)
(* both callers of the repository ask for.                                 *)
(***************************************************************************)
EXTENDS Integers, FiniteSets

CONSTANTS
  Sessions,    \* child sessions
  Requester,   \* the session that spawns a child session, or Main
  Main,        \* a user's session
  LastRun,     \* bound: runs of each session
  MaxAnnounceRetries,   \* MAX_ANNOUNCE_RETRY_COUNT
  Kinds,       \* bound: the kinds of the sessions
  MaxDisturbed,   \* bound: errors, failed calls, steers, kills, sweeps and crashes
  NoRun

ASSUME SubagentAssumption ==
  /\ IsFiniteSet(Sessions) /\ Main \notin Sessions
  /\ Requester \in [Sessions -> Sessions \cup {Main}]
  /\ LastRun \in [Sessions -> Nat \ {0}]
  /\ MaxAnnounceRetries \in Nat \ {0} /\ MaxDisturbed \in Nat
  /\ Kinds \subseteq [Sessions -> {"delete", "keep", "session"}]
  /\ NoRun \notin Sessions \X Nat

Runs == UNION {{s} \X (1 .. LastRun[s]) : s \in Sessions}

VARIABLES
  kind,          \* of every session: "delete" or "keep" is its cleanup mode, and
                 \* "session" a kept one that is never swept; never changes
  subagentRuns,  \* the map of records
  disk,          \* runs.json
  gone,          \* sessions deleted from the session store
  dispatched,    \* runs started so far, per session
  agent,         \* what every run itself does
  spawnedBy,     \* the run of its requester that spawned a session
  spawning,      \* runs accepted by the gateway and not registered yet
  grace,         \* pendingLifecycleErrorByRunId
  waiting,       \* runs with an open agent.wait call
  completing,    \* completeSubagentRun calls waiting for the frozen reply
  flow,          \* where the announce flow of a run is
  timers,        \* runs with a resume timer
  steer,         \* per session, the run that is being steered
  killing,       \* kills between the abort and the mark
  disturbed,     \* errors, failed calls, steers, kills, sweeps, crashes so far
  announced,     \* history: how often the result of a run was delivered
  lost,          \* history: runs whose completion a crash interrupted
  exempt         \* history: runs killed, or registered when the run that spawned
                 \* them was over or replaced; and those that go on with one of
                 \* these, or with one whose record was removed

vars == <<kind, subagentRuns, disk, gone, dispatched, agent, spawnedBy, spawning, grace, waiting,
          completing, flow, timers, steer, killing, disturbed, announced, lost,
          exempt>>

records  == <<subagentRuns, disk>>
agents   == <<dispatched, agent, spawnedBy, spawning>>
callbacks == <<grace, waiting, completing>>
control  == <<steer, killing>>
history  == <<announced, lost, exempt>>

Record == [ended : BOOLEAN,      \* endedAt
           handled : BOOLEAN,    \* cleanupHandled
           done : BOOLEAN,       \* cleanupCompletedAt
           suppress : {"no", "steer-restart", "killed"},
           retries : 0 .. MaxAnnounceRetries,   \* announceRetryCount
           wake : BOOLEAN,       \* wakeOnDescendantSettle
           complete : BOOLEAN,   \* endedReason is complete
           woken : BOOLEAN]      \* the run id ends in :wake

Alive(r)   == agent[r] \in {"running", "erred"}
Present(r) == r \in DOMAIN subagentRuns
Current(s) == <<s, dispatched[s]>>

(* Run q belongs to a child session of s or to a child of one; bound: two  *)
(* levels below a session.                                                 *)
IsAncestor(s, q) ==
  \/ Requester[q[1]] = s
  \/ Requester[q[1]] \in Sessions /\ Requester[Requester[q[1]]] = s

(* countPendingDescendantRuns: descendants that have not ended or whose    *)
(* cleanup has not completed.                                              *)
\* Broken form: only those that have not ended (countActiveDescendantRuns).
PendingDescendants_Active(s) ==
  {q \in DOMAIN subagentRuns : IsAncestor(s, q) /\ ~subagentRuns[q].ended}

PendingDescendants(s) ==
  {q \in DOMAIN subagentRuns :
     IsAncestor(s, q) /\ ~(subagentRuns[q].ended /\ subagentRuns[q].done)}

(* A record that is removed, or whose cleanup has completed otherwise than *)
(* by a kill: a wait, an error timer or a completion of the run that is    *)
(* still open changes nothing any more, and is dropped.                    *)
Closed(m, r) == r \notin DOMAIN m \/ (m[r].done /\ m[r].suppress # "killed")

DropCallbacks(m) ==
  /\ grace' = {q \in grace : ~Closed(m, q)}
  /\ completing' = {x \in completing : ~Closed(m, x[1])}

(* shouldIgnorePostCompletionAnnounceForSession *)
FinishedSession(s) ==
  \E q \in DOMAIN subagentRuns :
    /\ q[1] = s /\ kind[s] # "session"
    /\ \A p \in DOMAIN subagentRuns : p[1] = s => q[2] <= p[2]
    /\ subagentRuns[q].ended /\ subagentRuns[q].done

Fresh(woken) ==
  [ended |-> FALSE, handled |-> FALSE, done |-> FALSE, suppress |-> "no", retries |-> 0,
   wake |-> FALSE, complete |-> FALSE, woken |-> woken]

(* Bound: errors, failed calls, steers, kills, sweeps and crashes. *)
Disturb == disturbed < MaxDisturbed /\ disturbed' = disturbed + 1

Without(m, S) == [q \in DOMAIN m \ S |-> m[q]]

With(m, r, record) == [q \in DOMAIN m \cup {r} |-> IF q = r THEN record ELSE m[q]]

Init ==
  /\ kind \in Kinds
  /\ subagentRuns = <<>> /\ disk = <<>> /\ gone = {}
  /\ dispatched = [s \in Sessions |-> 0] /\ agent = [r \in Runs |-> "none"]
  /\ spawnedBy = [s \in Sessions |-> NoRun] /\ spawning = {} /\ grace = {} /\ waiting = {} /\ completing = {}
  /\ flow = [r \in Runs |-> "none"] /\ timers = {}
  /\ steer = [s \in Sessions |-> NoRun] /\ killing = {}
  /\ disturbed = 0
  /\ announced = [r \in Runs |-> 0] /\ lost = {} /\ exempt = {}

-----------------------------------------------------------------------------
(* resumeSubagentRun for every run of S, with records m, flows f, timers t *)
(* and open waits w.  A run whose session is deleted is pruned, one        *)
(* without retries left is given up, one whose backoff is not over (early) *)
(* is put off; one that has ended is announced, and one that has not is    *)
(* waited for.                                                             *)
Backoff(m, S) == {q \in S : m[q].retries > 0 \/ m[q].wake}

Resume(m, f, t, w, S, early) ==
  LET orphans == {q \in S : q[1] \in gone}
      spent   == {q \in S \ orphans : ~m[q].done /\ m[q].retries >= MaxAnnounceRetries}
      late    == early \ (orphans \cup spent)
      open    == {q \in S \ (orphans \cup spent \cup late) : ~m[q].done}
      ready   == {q \in open : /\ m[q].ended /\ ~m[q].handled
                               /\ m[q].suppress # "steer-restart"}
  IN /\ subagentRuns' = [q \in DOMAIN m \ orphans |->
          [m[q] EXCEPT !.done    = @ \/ q \in spent,
                       !.handled = @ \/ q \in ready]]
     /\ flow' = [q \in Runs |-> IF q \in ready THEN "settling" ELSE f[q]]
     /\ timers' = (t \ orphans) \cup late
     /\ waiting' = {q \in w : ~Closed(subagentRuns', q)} \cup {q \in open : ~m[q].ended}

(* retryDeferredCompletedAnnounces *)
Deferred(m, x) ==
  {q \in DOMAIN m \ {x} : /\ m[q].ended /\ ~m[q].done /\ ~m[q].handled
                          /\ m[q].suppress # "steer-restart"}

(* A run of session s is accepted by the gateway, which creates the        *)
(* session if it is not there.                                             *)
Dispatch(s, r) ==
  /\ dispatched[s] < LastRun[s] /\ r = <<s, dispatched[s] + 1>>
  /\ dispatched' = [dispatched EXCEPT ![s] = @ + 1]
  /\ agent' = [agent EXCEPT ![r] = "running"]
  /\ gone' = gone \ {s}

(* replaceSubagentRunAfterSteer; the timers of a record that is removed   *)
(* come to nothing, here and below.                                        *)
Replace(old, new, woken) ==
  /\ subagentRuns' = With(Without(subagentRuns, {old}), new, Fresh(woken))
  /\ disk' = subagentRuns'
  /\ DropCallbacks(subagentRuns')
  /\ waiting' = (waiting \ {old}) \cup {new}
  /\ timers' = timers \ {old}
  /\ exempt' = IF old \in DOMAIN subagentRuns \ exempt THEN exempt ELSE exempt \cup {new}

-----------------------------------------------------------------------------
(* Spawning (subagent-spawn.ts): the gateway accepts the run, then it is   *)
(* registered; the run may already be over.                                *)

Spawn(s) ==
  /\ dispatched[s] = 0
  /\ LET by == IF Requester[s] = Main THEN NoRun ELSE Current(Requester[s]) IN
       /\ by = NoRun \/ (by \in Runs \ spawning /\ agent[by] = "running")
       /\ spawnedBy' = [spawnedBy EXCEPT ![s] = by]
  /\ \E r \in Runs : Dispatch(s, r) /\ spawning' = spawning \cup {r}
  /\ UNCHANGED <<kind, records, callbacks, flow, timers, control, disturbed, history>>

Register(r) ==
  /\ r \in spawning
  /\ spawning' = spawning \ {r}
  /\ subagentRuns' = With(subagentRuns, r, Fresh(FALSE)) /\ disk' = subagentRuns'
  /\ waiting' = waiting \cup {r}
  /\ LET by == spawnedBy[r[1]] IN
       exempt' = IF by = NoRun \/ (by = Current(by[1]) /\ Alive(by)) THEN exempt
                 ELSE exempt \cup {r}
  /\ UNCHANGED <<kind, gone, dispatched, agent, spawnedBy, grace, completing, flow, timers, control,
                 disturbed, announced, lost>>

-----------------------------------------------------------------------------
(* Completion.  completeSubagentRun up to its await: a completion that     *)
(* arrives after a kill takes the kill marker back.                        *)

Completed(r, complete) ==
  LET revived == complete /\ subagentRuns[r].suppress = "killed"
                          /\ (subagentRuns[r].handled \/ subagentRuns[r].done)
  IN [subagentRuns EXCEPT
        ![r].ended    = TRUE,
        ![r].complete = complete,
        ![r].suppress = IF revived THEN "no" ELSE @,
        ![r].handled  = @ /\ ~revived,
        ![r].done     = @ /\ ~revived]

(* The lifecycle event "end"; a run that was aborted has it as well. *)
AgentEnds(r) ==
  /\ agent[r] = "running"
  /\ agent' = [agent EXCEPT ![r] = "over"]
  /\ grace' = grace \ {r}
  /\ IF ~Closed(subagentRuns, r)
     THEN /\ subagentRuns' = Completed(r, TRUE)
          /\ completing' = completing \cup {<<r, "event">>}
     ELSE UNCHANGED <<subagentRuns, completing>>
  /\ UNCHANGED <<kind, disk, gone, dispatched, spawnedBy, spawning, waiting, flow, timers, control,
                 disturbed, history>>

(* The event "error", and the "start" of a further attempt, which takes    *)
(* the timer back; or there is none.                                       *)
AgentErrs(r) ==
  /\ Disturb
  /\ agent[r] = "running"
  /\ agent' = [agent EXCEPT ![r] = "erred"]
  /\ grace' = IF Closed(subagentRuns, r) THEN grace ELSE grace \cup {r}
  /\ UNCHANGED <<kind, records, gone, dispatched, spawnedBy, spawning, waiting, completing, flow, timers,
                 control, history>>

AgentRetries(r) ==
  /\ agent[r] = "erred"
  /\ agent' = [agent EXCEPT ![r] = "running"]
  /\ grace' = grace \ {r}
  /\ UNCHANGED <<kind, records, gone, dispatched, spawnedBy, spawning, waiting, completing, flow, timers,
                 control, disturbed, history>>

AgentGivesUp(r) ==
  /\ agent[r] = "erred"
  /\ agent' = [agent EXCEPT ![r] = "failed"]
  /\ UNCHANGED <<kind, records, gone, dispatched, spawnedBy, spawning, callbacks, flow, timers, control,
                 disturbed, history>>

(* The grace period of an error ends. *)
GraceFires(r) ==
  /\ r \in grace /\ grace' = grace \ {r}
  /\ IF ~Closed(subagentRuns, r) /\ ~subagentRuns[r].complete
     THEN /\ subagentRuns' = Completed(r, FALSE)
          /\ completing' = completing \cup {<<r, "error">>}
     ELSE UNCHANGED <<subagentRuns, completing>>
  /\ UNCHANGED <<kind, disk, gone, agents, waiting, flow, timers, control, disturbed,
                 history>>

(* agent.wait answers: with the outcome, or that it has waited for as long *)
(* as the run may take.                                                    *)
WaitAnswers(r) ==
  /\ r \in waiting /\ waiting' = waiting \ {r}
  /\ \E complete \in {TRUE, agent[r] \notin {"erred", "failed"}} :
       subagentRuns' = Completed(r, complete)
  /\ disk' = [subagentRuns EXCEPT ![r].ended = TRUE]
  /\ grace' = grace \ {r}
  /\ completing' = completing \cup {<<r, "wait">>}
  /\ UNCHANGED <<kind, gone, agents, flow, timers, control, disturbed, history>>

(* The call fails, as it may while the server is booting: nobody asks      *)
(* again.                                                                  *)
WaitFails(r) ==
  /\ Disturb
  /\ r \in waiting /\ waiting' = waiting \ {r}
  /\ lost' = IF Alive(r) \/ r \in grace THEN lost ELSE lost \cup {r}
  /\ UNCHANGED <<kind, records, gone, agents, grace, completing, flow, timers, control,
                 announced, exempt>>

\* Broken form: cleanupHandled is not tested.
CompleteEnds_NoGuard(r) ==
  /\ \E c \in completing : c[1] = r /\ completing' = completing \ {c}
  /\ IF Present(r) /\ subagentRuns[r].suppress # "steer-restart" /\ ~subagentRuns[r].done
     THEN /\ subagentRuns' = [subagentRuns EXCEPT ![r].handled = TRUE]
          /\ flow' = [flow EXCEPT ![r] = "settling"]
     ELSE UNCHANGED <<subagentRuns, flow>>
  /\ disk' = subagentRuns'
  /\ UNCHANGED <<kind, gone, agents, grace, waiting, timers, control, disturbed, history>>

(* The rest of completeSubagentRun: the reply is frozen, the records are   *)
(* saved, and the first of the callers to come here starts the announce    *)
(* flow (beginSubagentCleanup).                                            *)
CompleteEnds(r) ==
  /\ \E c \in completing : c[1] = r /\ completing' = completing \ {c}
  /\ IF Present(r) /\ subagentRuns[r].suppress # "steer-restart"
       /\ ~subagentRuns[r].done /\ ~subagentRuns[r].handled
     THEN /\ subagentRuns' = [subagentRuns EXCEPT ![r].handled = TRUE]
          /\ flow' = [flow EXCEPT ![r] = "settling"]
     ELSE UNCHANGED <<subagentRuns, flow>>
  /\ disk' = subagentRuns'
  /\ UNCHANGED <<kind, gone, agents, grace, waiting, timers, control, disturbed, history>>

-----------------------------------------------------------------------------
(* The announce flow of a run. *)

MoveTo(r, where) == flow' = [flow EXCEPT ![r] = where]

Findings(r) ==
  \E q \in DOMAIN subagentRuns : Requester[q[1]] = r[1] /\ spawnedBy[q[1]] = r

(* The session of a delete-mode run is deleted; the call may fail. *)
DeleteSession(r) ==
  \/ kind[r[1]] = "delete" /\ gone' = gone \cup {r[1]} /\ UNCHANGED disturbed
  \/ kind[r[1]] = "delete" /\ Disturb /\ UNCHANGED gone
  \/ kind[r[1]] # "delete" /\ UNCHANGED <<gone, disturbed>>

(* The session has been waited for; who is to hear of the result?  Nobody  *)
(* if the requester is finished; not yet while a descendant is pending.    *)
FlowSettles(r) ==
  /\ flow[r] = "settling"
  /\ LET p == Requester[r[1]] IN
       \/ (\E q \in Runs : q[1] = r[1] /\ Alive(q)) /\ MoveTo(r, "failed") /\ UNCHANGED <<gone, disturbed>>
       \/ /\ ~Alive(r)
          /\ IF p # Main /\ FinishedSession(p)
             THEN MoveTo(r, "finishing") /\ DeleteSession(r)
             ELSE /\ UNCHANGED <<gone, disturbed>>
                  /\ IF PendingDescendants(r[1]) # {} THEN MoveTo(r, "failed")
                     ELSE MoveTo(r, IF Present(r) /\ subagentRuns[r].wake /\ Findings(r)
                                       /\ ~subagentRuns[r].woken
                                    THEN "waking" ELSE "delivering")
  /\ UNCHANGED <<kind, records, agents, callbacks, timers, control, history>>

(* wakeSubagentRunAfterDescendants: the run goes on as a new one that is   *)
(* told what its descendants found.                                        *)
FlowWakes(r) ==
  /\ flow[r] = "waking"
  /\ \/ /\ r[1] \notin gone
        /\ \E n \in Runs : /\ Dispatch(r[1], n)
                           /\ IF Present(r) THEN Replace(r, n, TRUE)
                              ELSE UNCHANGED <<records, callbacks, timers, exempt>>
        /\ MoveTo(r, IF Present(r) THEN "none" ELSE "delivering")
     \/ MoveTo(r, "delivering") /\ UNCHANGED <<records, dispatched, agent, gone, callbacks,
                                               timers, exempt>>
  /\ UNCHANGED <<kind, spawnedBy, spawning, control, disturbed, announced, lost>>

(* The result is delivered, or not, or ignored as the requester is         *)
(* finished meanwhile; then the session of a delete-mode run is deleted.   *)
FlowDelivers(r) ==
  /\ flow[r] = "delivering"
  /\ LET ignored == Requester[r[1]] # Main /\ FinishedSession(Requester[r[1]]) IN
     \/ ~ignored /\ MoveTo(r, "finishing") /\ announced' = [announced EXCEPT ![r] = @ + 1]
     \/ ~ignored /\ MoveTo(r, "failed") /\ UNCHANGED announced
     \/ ignored /\ MoveTo(r, "finishing") /\ UNCHANGED announced
  /\ DeleteSession(r)
  /\ UNCHANGED <<kind, records, agents, callbacks, timers, control, lost, exempt>>

\* Broken form: no timer is set for the next attempt.
FlowFails_NoTimer(r) ==
  /\ flow[r] = "failed"
  /\ LET n == IF Present(r) THEN subagentRuns[r].retries + 1 ELSE 0 IN
     \/ ~Present(r) /\ MoveTo(r, "none") /\ UNCHANGED <<records, timers>>
     \/ /\ Present(r) /\ PendingDescendants(r[1]) # {}
        /\ subagentRuns' = [subagentRuns EXCEPT ![r].wake = TRUE, ![r].handled = FALSE]
        /\ disk' = subagentRuns' /\ timers' = timers \cup {r} /\ MoveTo(r, "none")
     \/ /\ Present(r) /\ PendingDescendants(r[1]) = {}
        /\ n < MaxAnnounceRetries
        /\ subagentRuns' = [subagentRuns EXCEPT ![r].retries = n, ![r].handled = FALSE]
        /\ disk' = subagentRuns' /\ UNCHANGED timers /\ MoveTo(r, "none")
     \/ /\ Present(r) /\ PendingDescendants(r[1]) = {} /\ n >= MaxAnnounceRetries
        /\ subagentRuns' = [subagentRuns EXCEPT ![r].wake = FALSE, ![r].retries = n]
        /\ MoveTo(r, "givingUp") /\ UNCHANGED <<disk, timers>>
  /\ UNCHANGED <<kind, gone, agents, callbacks, control, disturbed, history>>

(* finalizeSubagentCleanup after a failure: wait for the descendants, try  *)
(* again, or give up (resolveDeferredCleanupDecision).                     *)
FlowFails(r) ==
  /\ flow[r] = "failed"
  /\ LET n == IF Present(r) THEN subagentRuns[r].retries + 1 ELSE 0 IN
     \/ ~Present(r) /\ MoveTo(r, "none") /\ UNCHANGED <<records, timers>>
     \/ /\ Present(r) /\ PendingDescendants(r[1]) # {}
        /\ subagentRuns' = [subagentRuns EXCEPT ![r].wake = TRUE, ![r].handled = FALSE]
        /\ disk' = subagentRuns' /\ timers' = timers \cup {r} /\ MoveTo(r, "none")
     \/ /\ Present(r) /\ PendingDescendants(r[1]) = {}
        /\ n < MaxAnnounceRetries
        /\ subagentRuns' = [subagentRuns EXCEPT ![r].retries = n, ![r].handled = FALSE]
        /\ disk' = subagentRuns' /\ timers' = timers \cup {r} /\ MoveTo(r, "none")
     \/ /\ Present(r) /\ PendingDescendants(r[1]) = {} /\ n >= MaxAnnounceRetries
        /\ subagentRuns' = [subagentRuns EXCEPT ![r].wake = FALSE, ![r].retries = n]
        /\ MoveTo(r, "givingUp") /\ UNCHANGED <<disk, timers>>
  /\ UNCHANGED <<kind, gone, agents, callbacks, control, disturbed, history>>

(* A failure more than half an hour after the run ended is the last one;   *)
(* bound: it takes waiting for descendants for that much time to pass.     *)
FlowExpires(r) ==
  /\ flow[r] = "failed" /\ Present(r)
  /\ \/ PendingDescendants(r[1]) # {}
     \/ subagentRuns[r].wake /\ subagentRuns[r].retries + 1 < MaxAnnounceRetries
  /\ subagentRuns' = [subagentRuns EXCEPT
       ![r].wake = FALSE,
       ![r].retries = IF PendingDescendants(r[1]) = {} THEN @ + 1 ELSE @]
  /\ MoveTo(r, "givingUp")
  /\ UNCHANGED <<kind, disk, gone, agents, callbacks, timers, control, disturbed, history>>

(* The hooks and the attachments are done with: completeCleanupBookkeeping, *)
(* then the other completed runs that wait are tried again.                *)
FlowFinishes(r) ==
  /\ flow[r] \in {"finishing", "givingUp"}
  /\ LET m == IF flow[r] = "finishing" /\ kind[r[1]] = "delete"
              THEN Without(subagentRuns, {r})
              ELSE [q \in DOMAIN subagentRuns |->
                      [subagentRuns[q] EXCEPT !.done = @ \/ q = r, !.wake = @ /\ q # r]]
         others == Deferred(m, r)
     IN \E early \in SUBSET Backoff(m, others) :
          Resume(m, [flow EXCEPT ![r] = "none"], timers \cap DOMAIN m, waiting, others, early)
  /\ DropCallbacks(subagentRuns') /\ disk' = subagentRuns'
  /\ UNCHANGED <<kind, gone, agents, control, disturbed, history>>

(* The resume timer of a run. *)
ResumeTimer(r) ==
  /\ r \in timers
  /\ Resume(subagentRuns, flow, timers \ {r}, waiting, {r}, {})
  /\ DropCallbacks(subagentRuns')
  /\ disk' = IF subagentRuns' = subagentRuns THEN disk ELSE subagentRuns'
  /\ UNCHANGED <<kind, gone, agents, control, disturbed, history>>

-----------------------------------------------------------------------------
(* Control. *)

(* A run that executes is steered: its completion is suppressed, and it is *)
(* aborted; bound: one steer of a session at a time.                       *)
SteerMarks(r) ==
  /\ Disturb
  /\ Present(r) /\ ~subagentRuns[r].ended /\ steer[r[1]] = NoRun
  /\ subagentRuns' = [subagentRuns EXCEPT ![r].suppress = "steer-restart"]
  /\ disk' = subagentRuns'
  /\ steer' = [steer EXCEPT ![r[1]] = r]
  /\ UNCHANGED <<kind, gone, agents, callbacks, flow, timers, killing, history>>

(* The old run has been waited for, at most five seconds, and the new one  *)
(* is dispatched: it replaces the old one.                                 *)
SteerSends(r) ==
  /\ r = steer[r[1]] /\ steer' = [steer EXCEPT ![r[1]] = NoRun]
  /\ \E n \in Runs : Dispatch(r[1], n) /\ Replace(r, n, FALSE)
  /\ UNCHANGED <<kind, spawnedBy, spawning, flow, killing, disturbed, announced, lost>>

(* The dispatch fails (clearSubagentRunSteerRestart). *)
SteerFails(r) ==
  /\ r = steer[r[1]] /\ steer' = [steer EXCEPT ![r[1]] = NoRun]
  /\ IF Present(r) /\ subagentRuns[r].suppress = "steer-restart"
     THEN LET m == [subagentRuns EXCEPT ![r].suppress = "no"]
          IN /\ Resume(m, flow, timers, waiting, {q \in {r} : m[q].ended /\ ~m[q].done}, {})
             /\ DropCallbacks(subagentRuns') /\ disk' = subagentRuns'
     ELSE UNCHANGED <<records, flow, timers, callbacks>>
  /\ UNCHANGED <<kind, gone, agents, killing, disturbed, history>>

(* A kill aborts the run, updates the session store and marks every run of *)
(* the session that has not ended; a stop does so in one step.             *)
KillAborts(r) ==
  /\ Disturb
  /\ Present(r) /\ ~subagentRuns[r].ended /\ r \notin killing
  /\ killing' = killing \cup {r}
  /\ UNCHANGED <<kind, records, gone, agents, callbacks, flow, timers, steer, history>>

KillMarks(r) ==
  /\ r \in killing /\ killing' = killing \ {r}
  /\ LET marked == {q \in DOMAIN subagentRuns : q[1] = r[1] /\ ~subagentRuns[q].ended} IN
     /\ subagentRuns' = [q \in DOMAIN subagentRuns |->
          IF q \notin marked THEN subagentRuns[q]
          ELSE [subagentRuns[q] EXCEPT !.ended = TRUE, !.handled = TRUE, !.done = TRUE,
                                       !.suppress = "killed"]]
     /\ exempt' = exempt \cup marked
     /\ disk' = IF marked = {} THEN disk ELSE subagentRuns'
     /\ grace' = grace \ {q \in Runs : q[1] = r[1] /\ (q = r \/ Present(q))}
  /\ UNCHANGED <<kind, gone, agents, waiting, completing, flow, timers, steer, disturbed,
                 announced, lost>>

(* The sweeper archives a run an hour after its start, whatever its state. *)
Sweep(r) ==
  /\ Disturb /\ Present(r) /\ kind[r[1]] # "session"
  /\ subagentRuns' = Without(subagentRuns, {r}) /\ disk' = subagentRuns'
  /\ gone' = gone \cup {r[1]} /\ DropCallbacks(subagentRuns')
  /\ waiting' = waiting \ {r} /\ timers' = timers \ {r}
  /\ UNCHANGED <<kind, agents, flow, control, history>>

(* The process dies, perhaps while it overwrites runs.json, and restarts:  *)
(* restoreSubagentRunsOnce.                                                *)
Crash ==
  /\ Disturb
  /\ agent' = [r \in Runs |-> IF Alive(r) THEN "over" ELSE agent[r]]
  /\ spawning' = {} /\ grace' = {} /\ completing' = {} /\ killing' = {}
  /\ steer' = [s \in Sessions |-> NoRun]
  /\ \E m \in {disk, <<>>} : \E early \in SUBSET Backoff(m, DOMAIN m) :
       /\ Resume(m, [r \in Runs |-> "none"], {}, {}, DOMAIN m, early)
       /\ lost' = lost \cup {q \in DOMAIN m : \/ m[q].handled /\ ~m[q].done
                                              \/ m[q].suppress = "steer-restart"}
  /\ disk' = subagentRuns'
  /\ UNCHANGED <<kind, gone, dispatched, spawnedBy, announced, exempt>>

RunStep(r) ==
  \/ AgentEnds(r) \/ AgentErrs(r) \/ AgentRetries(r) \/ AgentGivesUp(r)
  \/ GraceFires(r) \/ WaitAnswers(r) \/ WaitFails(r) \/ CompleteEnds(r)
FlowStep(r) ==
  FlowSettles(r) \/ FlowWakes(r) \/ FlowDelivers(r) \/ FlowFails(r) \/ FlowFinishes(r)
  \/ FlowExpires(r)
ControlStep(r) ==
  \/ SteerMarks(r) \/ SteerSends(r) \/ SteerFails(r) \/ KillAborts(r) \/ KillMarks(r)
  \/ Sweep(r)

Next ==
  \/ \E s \in Sessions : Spawn(s)
  \/ \E r \in Runs : \/ Register(r) \/ RunStep(r) \/ FlowStep(r) \/ ResumeTimer(r)
                     \/ ControlStep(r)
  \/ Crash

Spec == Init /\ [][Next]_vars

(* A run ends or times out, calls return and timers fire, each run's flow  *)
(* and timers go on, and the half hour ends.  Users, sweeps and crashes are *)
(* not assumed.                                                            *)
Happens(r) ==
  \/ Register(r) \/ AgentEnds(r) \/ AgentGivesUp(r) \/ GraceFires(r) \/ WaitAnswers(r)
  \/ CompleteEnds(r) \/ SteerSends(r) \/ SteerFails(r) \/ KillMarks(r)

FairSpec ==
  /\ Spec /\ WF_vars(\E r \in Runs : Happens(r))
  /\ \A s \in Sessions : WF_vars(\E r \in Runs : r[1] = s /\ (FlowStep(r) \/ ResumeTimer(r)))
  /\ SF_vars(\E r \in Runs : FlowExpires(r))

-----------------------------------------------------------------------------
TypeOK ==
  /\ \A m \in {subagentRuns, disk} :
       DOMAIN m \subseteq Runs /\ \A r \in DOMAIN m : m[r] \in Record
  /\ gone \subseteq Sessions /\ dispatched \in [Sessions -> Nat]
  /\ agent \in [Runs -> {"none", "running", "erred", "failed", "over"}]
  /\ spawnedBy \in [Sessions -> Runs \cup {NoRun}]
  /\ UNION {spawning, grace, waiting, timers, killing, lost, exempt} \subseteq Runs
  /\ completing \subseteq Runs \X {"event", "error", "wait"}
  /\ flow \in [Runs -> {"none", "settling", "waking", "delivering", "failed", "finishing",
                        "givingUp"}]
  /\ steer \in [Sessions -> Runs \cup {NoRun}]
  /\ announced \in [Runs -> Nat]

(* The result of a run is delivered at most once, although the end event,  *)
(* the answer of agent.wait and the error timer each complete it, failed   *)
(* deliveries are retried, a completion that comes after a kill takes the  *)
(* kill back, and the process may die between the delivery and the record  *)
(* of it.                                                                  *)
AnnouncedOnce == \A r \in Runs : announced[r] <= 1

(* "Defer until descendants are fully settled, including post-end          *)
(* cleanup": the result of a run is not delivered while a run it, or an    *)
(* earlier run of its session, has spawned may still have something to     *)
(* tell; a run that was killed, or registered only after its requester had *)
(* ended, may, and so may one that goes on with such a run by a steer, or  *)
(* with one whose record was removed meanwhile.                            *)
ParentLast ==
  [][\A r \in Runs : announced'[r] > announced[r] =>
       \A q \in DOMAIN subagentRuns \ exempt :
         spawnedBy[q[1]] # NoRun /\ spawnedBy[q[1]][1] = r[1] /\ spawnedBy[q[1]][2] <= r[2] =>
           subagentRuns[q].ended /\ subagentRuns[q].done]_vars

(* Again and again every record is resolved: completed, and then announced *)
(* or given up, or removed, through lost events, retries, steers that fail *)
(* or succeed, kills, pending descendants and restarts; except for a run   *)
(* whose announcement or steer a crash interrupted, or whose wait failed   *)
(* after it was restored.                                                  *)
EveryRunResolved ==
  []<>(\A r \in DOMAIN subagentRuns \ lost : subagentRuns[r].done)

(* "Keep both cleanup modes retryable after deferred/failed announce.      *)
(* Delete-mode is finalized only after announce succeeds or give-up        *)
(* triggers": when its retry timer fires, the run is still there.          *)
FailedRetried ==
  [][\A r \in timers \ timers' : Present(r) => r \in DOMAIN subagentRuns']_vars
=============================================================================
