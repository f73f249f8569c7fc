--------------------------- MODULE ChannelManager ---------------------------
(***************************************************************************)
(* One account of a channel in the channel manager                         *)
(* (src/gateway/server-channels.ts): starting it, restarting it after it   *)
(* crashed, stopping it; the health monitor                                *)
(* (src/gateway/channel-health-monitor.ts), the hot reload and the user    *)
(* call the manager concurrently.  Accounts do not share state, except the *)
(* status snapshot of a monitor check, which may be old when an account's  *)
(* turn comes.                                                             *)
(***************************************************************************)
EXTENDS Integers, FiniteSets

CONSTANTS
  Instances,    \* bound: instances of the account alive at once; one is a
                \* call of plugin.gateway.startAccount
  MaxAttempts,  \* MAX_RESTART_ATTEMPTS
  Monitored     \* whether the health monitor is on

None    == "none"
Callers == {"user", "reload", "monitor"}

ASSUME ChannelAssumption ==
  /\ IsFiniteSet(Instances) /\ Instances # {}
  /\ Instances \cap (Callers \cup {None}) = {}
  /\ MaxAttempts \in Nat \ {0} /\ Monitored \in BOOLEAN

VARIABLES
  plugin,          \* what the plugin is like; never changes
  sound,           \* the account is enabled and configured, its configuration readable
  inst,            \* the state of every instance
  aborted,         \* instances whose AbortController has fired
  task, abort,     \* store.tasks and store.aborts, the instance they belong to
  manuallyStopped, restartAttempts,
  running, restartPending,   \* of store.runtimes
  starting,        \* startChannelInternal calls waiting for isConfigured
  phase,           \* where every caller is
  awaited,         \* the instance whose task the stop call of a caller waits for
  held,            \* history: the user stopped the account, and nobody who may
                   \* has started it since
  overtaken        \* history: the starts under way at the user's last stop

vars == <<plugin, sound, inst, aborted, task, abort, manuallyStopped, restartAttempts,
          running, restartPending, starting, phase, awaited, held, overtaken>>

config  == <<plugin, sound>>
store   == <<task, abort>>
marks   == <<manuallyStopped, restartAttempts>>
status  == <<running, restartPending>>
calls   == <<phase, awaited>>
history == <<held, overtaken>>

Starters == Callers \cup Instances    \* an instance restarts itself

Live == {i \in Instances : inst[i] = "live"}

Init ==
  /\ plugin \in [awaits : BOOLEAN,   \* isConfigured waits for I/O
                 hook   : BOOLEAN]   \* there is a gateway.stopAccount
  /\ sound = TRUE
  /\ inst = [i \in Instances |-> "free"] /\ aborted = {}
  /\ task = None /\ abort = None
  /\ manuallyStopped = FALSE /\ restartAttempts = 0
  /\ running = FALSE /\ restartPending = FALSE
  /\ starting = {}
  /\ phase = [c \in Callers |-> "idle"] /\ awaited = [c \in Callers |-> None]
  /\ held = FALSE /\ overtaken = {}

-----------------------------------------------------------------------------
(* A promise chain runs to its end before the next timer, socket or caller *)
(* does: a stop call whose task has settled, the caller's next line, the   *)
(* end of a backoff.                                                       *)

Ready(c) == phase[c] = "waiting" /\ awaited[c] = None
Waking(i) == inst[i] = "restarting" /\ i \notin starting

Quiet ==
  /\ \A c \in Callers : ~Ready(c) /\ phase[c] # "stopped"
  /\ \A i \in Instances : ~Waking(i)

Without(s) == [i \in Instances |-> IF i = s THEN "free" ELSE inst[i]]

(* The end of startChannelInternal, from manuallyStopped.delete to         *)
(* tasks.set.  A start by an instance keeps the two marks                  *)
(* (preserveManualStop, preserveRestartAttempts), and that instance ends.  *)
Launch(s) ==
  \E i \in {j \in Instances : Without(s)[j] = "free"} :
    /\ inst' = [Without(s) EXCEPT ![i] = "live"]
    /\ task' = i /\ abort' = i
    /\ manuallyStopped' = (manuallyStopped /\ s \in Instances)
    /\ restartAttempts' = IF s \in Instances THEN restartAttempts ELSE 0
    /\ running' = TRUE /\ restartPending' = FALSE
    /\ held' = (held /\ s \notin {"user", "reload"} \cup overtaken)
    /\ overtaken' = IF held' THEN overtaken \ {s} ELSE {}

(* Nothing is started: disabled or not configured, which the status then   *)
(* says, or the configuration could not be read.                           *)
Fail(s, attempts) ==
  /\ inst' = Without(s)
  /\ \/ running' = FALSE /\ restartPending' = FALSE
     \/ UNCHANGED status
  /\ restartAttempts' = attempts
  /\ overtaken' = overtaken \ {s}
  /\ UNCHANGED <<store, manuallyStopped, held>>

\* Broken form: an account that has a task is started again.
BeginStart_NoTaskTest(s, attempts) ==
  \/ ~sound /\ Fail(s, attempts) /\ UNCHANGED starting
  \/ ~plugin.awaits /\ sound /\ Launch(s) /\ UNCHANGED starting
  \/ /\ plugin.awaits
     /\ starting' = starting \cup {s} /\ restartAttempts' = attempts
     /\ UNCHANGED <<inst, store, manuallyStopped, status, history>>

(* startChannelInternal up to the await of isConfigured, and to its end    *)
(* when there is nothing to wait for.  An account that has a task is left  *)
(* alone.                                                                  *)
BeginStart(s, attempts) ==
  \/ /\ task # None
     /\ inst' = Without(s) /\ restartAttempts' = attempts
     /\ UNCHANGED <<store, manuallyStopped, status, starting, history>>
  \/ task = None /\ ~sound /\ Fail(s, attempts) /\ UNCHANGED starting
  \/ task = None /\ ~plugin.awaits /\ sound /\ Launch(s) /\ UNCHANGED starting
  \/ /\ task = None /\ plugin.awaits
     /\ starting' = starting \cup {s} /\ restartAttempts' = attempts
     /\ UNCHANGED <<inst, store, manuallyStopped, status, history>>

(* isConfigured answers. *)
CheckDone(s) ==
  /\ Quiet /\ s \in starting
  /\ starting' = starting \ {s}
  /\ IF sound THEN Launch(s) ELSE Fail(s, restartAttempts)
  /\ UNCHANGED <<config, aborted, calls>>

-----------------------------------------------------------------------------
(* An instance. *)

(* The task of an instance settles: it removes its own entries, and the    *)
(* stop calls that wait for it go on.                                      *)
Settle(i) ==
  /\ inst' = [inst EXCEPT ![i] = "free"] /\ aborted' = aborted \ {i}
  /\ task' = IF task = i THEN None ELSE task
  /\ abort' = IF abort = i THEN None ELSE abort
  /\ awaited' = [c \in Callers |-> IF awaited[c] = i THEN None ELSE awaited[c]]

\* Broken form: a crash leaves the status running.
Exit_StillRunning(i) ==
  /\ Quiet /\ inst[i] = "live"
  /\ IF manuallyStopped THEN Settle(i) /\ UNCHANGED <<restartAttempts, restartPending>>
     ELSE LET attempt == restartAttempts + 1
              retry   == attempt <= MaxAttempts IN
          /\ restartAttempts' = IF retry THEN attempt ELSE MaxAttempts + 1
          /\ restartPending' = retry
          /\ IF retry THEN /\ inst' = [inst EXCEPT ![i] = "backoff"]
                           /\ UNCHANGED <<aborted, store, awaited>>
             ELSE Settle(i)
  /\ UNCHANGED <<config, running, manuallyStopped, starting, phase, history>>

(* startAccount returns or throws; a restart is planned unless the account *)
(* was stopped or has failed too often.                                    *)
Exit(i) ==
  /\ Quiet /\ inst[i] = "live"
  /\ running' = FALSE
  /\ IF manuallyStopped THEN Settle(i) /\ UNCHANGED <<restartAttempts, restartPending>>
     ELSE LET attempt == restartAttempts + 1
              retry   == attempt <= MaxAttempts IN
          /\ restartAttempts' = IF retry THEN attempt ELSE MaxAttempts + 1  \* capped here
          /\ restartPending' = retry
          /\ IF retry THEN /\ inst' = [inst EXCEPT ![i] = "backoff"]
                           /\ UNCHANGED <<aborted, store, awaited>>
             ELSE Settle(i)
  /\ UNCHANGED <<config, manuallyStopped, starting, phase, history>>

(* sleepWithAbort rejects. *)
BackoffAborted(i) ==
  /\ Quiet /\ inst[i] = "backoff" /\ i \in aborted
  /\ Settle(i)
  /\ UNCHANGED <<config, marks, status, starting, phase, history>>

\* Broken form: the mark is not read again after the sleep.
BackoffEnds_NoRecheck(i) ==
  /\ Quiet /\ inst[i] = "backoff" /\ i \notin aborted
  /\ inst' = [inst EXCEPT ![i] = "restarting"]
  /\ task' = IF task = i THEN None ELSE task
  /\ abort' = IF abort = i THEN None ELSE abort
  /\ UNCHANGED <<aborted, awaited>>
  /\ UNCHANGED <<config, marks, status, starting, phase, history>>

(* The sleep is over: the instance removes its entries before it starts    *)
(* the next one.                                                           *)
BackoffEnds(i) ==
  /\ Quiet /\ inst[i] = "backoff" /\ i \notin aborted
  /\ IF manuallyStopped THEN Settle(i)
     ELSE /\ inst' = [inst EXCEPT ![i] = "restarting"]
          /\ task' = IF task = i THEN None ELSE task
          /\ abort' = IF abort = i THEN None ELSE abort
          /\ UNCHANGED <<aborted, awaited>>
  /\ UNCHANGED <<config, marks, status, starting, phase, history>>

Restart(i) ==
  /\ Waking(i)
  /\ BeginStart(i, restartAttempts)
  /\ UNCHANGED <<config, aborted, calls>>

-----------------------------------------------------------------------------
(* stopChannel *)

(* The account is marked and its instance told to end; what the call will  *)
(* wait for is read before the plugin's hook runs.                         *)
Stop(c) ==
  /\ manuallyStopped' = TRUE
  /\ aborted' = IF abort = None THEN aborted ELSE aborted \cup {abort}
  /\ phase' = [phase EXCEPT ![c] = IF plugin.hook THEN "hook" ELSE "waiting"]
  /\ awaited' = [awaited EXCEPT ![c] = task]
  /\ UNCHANGED restartAttempts

NothingToStop == abort = None /\ task = None /\ ~plugin.hook

HookDone(c) ==
  /\ phase[c] = "hook"
  /\ phase' = [phase EXCEPT ![c] = "waiting"]
  /\ UNCHANGED <<config, inst, aborted, store, marks, status, starting, awaited, history>>

(* The hook rejects: stopChannel rejects before it waits for the task or   *)
(* removes anything, and the start its caller would have made next is      *)
(* never made.  The account stays marked and its instance told to end.     *)
HookFails(c) ==
  /\ phase[c] = "hook"
  /\ phase' = [phase EXCEPT ![c] = "idle"]
  /\ awaited' = [awaited EXCEPT ![c] = None]
  /\ overtaken' = overtaken \ {c}
  /\ UNCHANGED <<config, inst, aborted, store, marks, status, starting, held>>

(* The task has settled.  The entries are removed whoever owns them now.   *)
StopDone(c) ==
  /\ Ready(c)
  /\ task' = None /\ abort' = None
  /\ running' = FALSE /\ restartPending' = FALSE
  /\ phase' = [phase EXCEPT ![c] = IF c = "user" THEN "idle" ELSE "stopped"]
  /\ UNCHANGED <<config, inst, aborted, marks, starting, awaited, history>>

-----------------------------------------------------------------------------
(* The callers. *)

(* channels.start, a login, or startChannels at start-up. *)
UserStart ==
  /\ Quiet /\ "user" \notin starting
  /\ BeginStart("user", restartAttempts)
  /\ UNCHANGED <<config, aborted, calls>>

(* A logout or the first step of a login. *)
UserStop ==
  /\ Quiet /\ phase["user"] = "idle"
  /\ IF NothingToStop
     THEN UNCHANGED <<aborted, marks, calls, history>>
     ELSE /\ Stop("user") /\ held' = TRUE
          /\ overtaken' = (starting \ {"user", "reload"}) \cup
                             {c \in {"monitor"} : phase[c] \in {"hook", "waiting"}}
  /\ UNCHANGED <<config, inst, store, status, starting>>

(* The configuration or the credentials on disk change.                    *)
Edit ==
  /\ Quiet /\ sound' = ~sound
  /\ UNCHANGED <<plugin, inst, aborted, store, marks, status, starting, calls, history>>

(* An edit of the channel's section: restartChannel of applyHotReload      *)
(* stops the channel and starts it again.                                  *)
Reload ==
  /\ Quiet /\ phase["reload"] = "idle" /\ "reload" \notin starting
  /\ IF NothingToStop
     THEN /\ phase' = [phase EXCEPT !["reload"] = "stopped"]
          /\ UNCHANGED <<aborted, marks, awaited>>
     ELSE Stop("reload")
  /\ UNCHANGED <<config, inst, store, status, starting, history>>

ReloadStarts ==
  /\ phase["reload"] = "stopped" /\ \A c \in Callers : ~Ready(c)
  /\ phase' = [phase EXCEPT !["reload"] = "idle"]
  /\ BeginStart("reload", restartAttempts)
  /\ UNCHANGED <<config, aborted, awaited>>

(* A check of the monitor reads the status of all accounts, then goes      *)
(* through them; cooldown and hourly limit only delay it.                  *)
MonitorLooks ==
  /\ Monitored /\ Quiet /\ phase["monitor"] = "idle" /\ "monitor" \notin starting
  /\ phase' = [phase EXCEPT !["monitor"] = IF running THEN "seenUp" ELSE "seenDown"]
  /\ UNCHANGED <<config, inst, aborted, store, marks, status, starting, awaited, history>>

(* Manually stopped, healthy, or shown as disabled or not configured. *)
MonitorSkips ==
  /\ Quiet /\ phase["monitor"] \in {"seenUp", "seenDown"}
  /\ manuallyStopped \/ phase["monitor"] = "seenUp" \/ ~sound
  /\ phase' = [phase EXCEPT !["monitor"] = "idle"]
  /\ UNCHANGED <<config, inst, aborted, store, marks, status, starting, awaited, history>>

(* The account was running and is stuck, disconnected or stale. *)
MonitorStops ==
  /\ Quiet /\ phase["monitor"] = "seenUp" /\ ~manuallyStopped
  /\ IF NothingToStop
     THEN /\ phase' = [phase EXCEPT !["monitor"] = "stopped"]
          /\ UNCHANGED <<aborted, marks, awaited>>
     ELSE Stop("monitor")
  /\ UNCHANGED <<config, inst, store, status, starting, history>>

(* It was down, or its stop call has returned: resetRestartAttempts, and a *)
(* start.                                                                  *)
MonitorStarts ==
  /\ \/ phase["monitor"] = "seenDown" /\ ~manuallyStopped /\ Quiet
     \/ phase["monitor"] = "stopped" /\ \A c \in Callers : ~Ready(c)
  /\ phase' = [phase EXCEPT !["monitor"] = "idle"]
  /\ BeginStart("monitor", 0)
  /\ UNCHANGED <<config, aborted, awaited>>

InstanceStep(i) == Exit(i) \/ BackoffAborted(i) \/ BackoffEnds(i) \/ Restart(i)
StopStep(c)     == HookDone(c) \/ HookFails(c) \/ StopDone(c)
MonitorActs     == MonitorSkips \/ MonitorStops \/ MonitorStarts

Next ==
  \/ \E i \in Instances : InstanceStep(i)
  \/ \E s \in Starters : CheckDone(s)
  \/ \E c \in Callers : StopStep(c)
  \/ UserStart \/ UserStop \/ Edit \/ Reload \/ ReloadStarts
  \/ MonitorLooks \/ MonitorActs

Spec == Init /\ [][Next]_vars

(* An instance ends when it is aborted; timers fire, promises settle, the  *)
(* monitor's interval goes on.  Strong fairness: a step that waits for its *)
(* turn only is delayed by the promise chains that run before it, and the  *)
(* event loop serves every timer and every answer in the end.  Users,      *)
(* edits and crashes are not assumed.                                      *)
InstanceEnds(i) == (i \in aborted /\ Exit(i)) \/ BackoffAborted(i) \/ BackoffEnds(i)

FairSpec ==
  /\ Spec
  /\ \A i \in Instances : SF_vars(InstanceEnds(i))
  /\ SF_vars(\E s \in Starters : CheckDone(s))
  /\ \A c \in Callers : WF_vars(HookDone(c) \/ HookFails(c))
  /\ WF_vars(\E c \in Callers : StopDone(c)) /\ WF_vars(\E i \in Instances : Restart(i))
  /\ WF_vars(ReloadStarts) /\ SF_vars(MonitorLooks \/ MonitorActs)

-----------------------------------------------------------------------------
Or(S) == S \cup {None}

TypeOK ==
  /\ plugin \in [awaits : BOOLEAN, hook : BOOLEAN] /\ sound \in BOOLEAN
  /\ inst \in [Instances -> {"free", "live", "backoff", "restarting"}]
  /\ aborted \subseteq Instances
  /\ task \in Or(Instances) /\ abort \in Or(Instances)
  /\ manuallyStopped \in BOOLEAN /\ running \in BOOLEAN /\ restartPending \in BOOLEAN
  /\ restartAttempts \in 0 .. MaxAttempts + 1
  /\ starting \subseteq Starters
  /\ phase \in [Callers -> {"idle", "seenUp", "seenDown", "hook", "waiting", "stopped"}]
  /\ awaited \in [Callers -> Or(Instances)]
  /\ held \in BOOLEAN /\ overtaken \subseteq Starters

(* However starts, stops, crashes, reloads and monitor checks interleave,  *)
(* an account of a plugin whose isConfigured does not wait and that has no *)
(* stop hook has at most one live instance, the one a stop would find and  *)
(* end, and the status says whether there is one: startChannelInternal and *)
(* stopChannel exclude each other through store.tasks alone.               *)
OneInstance ==
  ~plugin.awaits /\ ~plugin.hook =>
    /\ \A i \in Live : task = i /\ abort = i
    /\ running <=> Live # {}

(* "Tracks accounts that were manually stopped so we don't auto-restart    *)
(* them": after a stop by the user that found something to stop, neither a *)
(* crash, a backoff that ends nor a check of the monitor starts the        *)
(* account, except for a start that was already under way at the stop.     *)
StoppedStaysStopped ==
  [][\A i \in Instances : inst[i] # "live" /\ inst'[i] = "live" => ~held']_vars

(* The bound on instances is met where the code would start one more. *)
Full ==
  /\ \A i \in Instances : inst[i] \in {"live", "backoff"}
  /\ starting # {} \/ \E c \in Callers : phase[c] = "stopped"

(* No stop waits for ever, and the monitor is not misled, whatever starts  *)
(* overtake the stop, an isConfigured that waits and a second instance of  *)
(* the account included: a stop call waits for an instance that was told   *)
(* to end, and a status that says running has a live instance behind it.   *)
StopsAreHeard ==
  /\ \A c \in Callers : awaited[c] # None =>
       awaited[c] \in aborted /\ inst[awaited[c]] \in {"live", "backoff"}
  /\ running => Live # {}

(* With the monitor on and a configuration that is in order from some time *)
(* on, an account that has no live instance and was not stopped gets one:  *)
(* after a crash, after ten failed restarts, after a restart that failed,  *)
(* and with every combination of a check, a hook, a reload and a monitor   *)
(* check in between.                                                       *)
CrashedComesBack ==
  []~Full /\ <>[]sound => (Live = {} /\ ~manuallyStopped ~> Live # {} \/ manuallyStopped)
=============================================================================
