-------------------------- MODULE GatewayLifecycle --------------------------
(***************************************************************************)
(* From an edit of the configuration file to the server that runs with it: *)
(* the file watcher (src/gateway/config-reload.ts), the hot reload and the *)
(* deferred restart (src/gateway/server-reload-handlers.ts), the restart   *)
(* scheduler (src/infra/restart.ts) and the run loop with its gateway lock *)
(* (src/cli/gateway-cli/run-loop.ts).  The scheduler and the run loop      *)
(* outlive the server, the watcher belongs to one server.  Reload mode is  *)
(* "hybrid", the default.                                                  *)
(***************************************************************************)
EXTENDS GatewayHandover, Integers, FiniteSets

CONSTANTS
  MaxEdits,     \* bound: writes to the configuration file
  MaxRequests,  \* bound: restarts asked for by command, RPC or signal
  MaxPolls,     \* bound: deferrals of the scheduler polling at once
  MaxFailures   \* bound: hot reloads, restart checks, starts and closes that fail

ASSUME LifecycleAssumption == {MaxEdits, MaxRequests, MaxPolls, MaxFailures} \subseteq Nat

Edits == 1 .. MaxEdits

VARIABLES
  disk, broken,    \* the number of the last write, and whether the file is invalid
  needsRestart,    \* the writes that change what cannot be reloaded
  unapplied, lost, \* history: the valid writes no server runs with, and those of
                   \* them that were missed, whose reload or restart failed, or
                   \* that a watcher whose server failed to close swallowed
  firstStart,      \* of the run loop, as the variables of GatewayHandover
  bootConfig,      \* the write the start in progress has read
  server,          \* the server variable of the run loop is set
  restartResolver, \* "unset", "armed", "used"
  closing,         \* request(): "no" unless shuttingDown, else how far it is
  timer,           \* pendingRestartTimer
  polls,           \* deferrals that wait for idleness and emit a restart then
  restartPending,  \* of the reload handlers: their own deferral polls
  watching,        \* the watcher of the server that listens is on
  currentConfig,   \* of the watcher: the write it compares with
  debounce, reload, again,   \* debounceTimer, running, pending
  applying,        \* the writes the hot reload in progress applies
  restartQueued,
  checking,        \* onRestart is resolving the secrets of the new configuration
  requests, failures

disks  == <<disk, broken, needsRestart>>
lagged == <<unapplied, lost>>
run    == <<loop, firstStart, bootConfig, server, listening, watching, restartResolver,
            startFailed, closeFailed>>
defer  == <<polls, restartPending>>
watch  == <<currentConfig, debounce, reload, again, applying, restartQueued, checking>>
bounds == <<requests, failures>>

vars == <<disks, lagged, run, lock, closing, timer, defer, watch, bootRestart, bounds>>

Init ==
  /\ disk = 0 /\ broken = FALSE /\ needsRestart = {}
  /\ unapplied = {} /\ lost = {}
  /\ loop = "reading" /\ firstStart = TRUE /\ bootConfig = 0 /\ lock = TRUE
  /\ server = FALSE /\ listening = FALSE /\ watching = FALSE
  /\ restartResolver = "unset"
  /\ startFailed = FALSE /\ closeFailed = FALSE /\ bootRestart = FALSE
  /\ closing = "no" /\ timer = FALSE
  /\ polls = 0 /\ restartPending = FALSE
  /\ currentConfig = 0 /\ debounce = FALSE /\ reload = "idle" /\ again = FALSE
  /\ applying = {} /\ restartQueued = FALSE /\ checking = FALSE
  /\ requests = 0 /\ failures = 0

Alive == loop # "exited"

Fail == failures < MaxFailures /\ failures' = failures + 1 /\ UNCHANGED requests

-----------------------------------------------------------------------------
(* The configuration file is written, by an editor, a command or an RPC.   *)
(* Only a watcher notices.                                                 *)
Edit ==
  /\ Alive /\ disk < MaxEdits
  /\ disk' = disk + 1
  /\ \E k \in {"hot", "restart", "broken"} :
       /\ broken' = (k = "broken")
       /\ needsRestart' = IF k = "restart" THEN needsRestart \cup {disk'} ELSE needsRestart
       /\ unapplied' = IF k = "broken" THEN unapplied ELSE unapplied \cup {disk'}
       /\ lost' = IF k # "broken" /\ ~watching /\ loop \in {"booting", "failed"}
                  THEN lost \cup {disk'} ELSE lost
  /\ debounce' = (debounce \/ watching)
  /\ UNCHANGED <<run, lock, closing, timer, defer, bootRestart, bounds>>
  /\ UNCHANGED <<currentConfig, reload, again, applying, restartQueued, checking>>

-----------------------------------------------------------------------------
(* request("restart"), reached through an authorised SIGUSR1: emission,    *)
(* authorisation and handler are one synchronous call.                     *)

(* emitGatewayRestart: a restart on its way swallows this one, and the     *)
(* scheduled one is called off in any case.                                *)
Emit ==
  /\ timer' = FALSE
  /\ IF closing = "no"
     THEN closing' = "draining" /\ bootRestart' = (bootRestart \/ loop \in {"reading", "booting"})
     ELSE UNCHANGED <<closing, bootRestart>>

(* scheduleGatewaySigusr1Restart: one timer, whoever asks.                 *)
Schedule ==
  /\ Alive /\ requests < MaxRequests
  /\ requests' = requests + 1 /\ timer' = TRUE
  /\ UNCHANGED <<disks, lagged, run, lock, closing, defer, watch, bootRestart, failures>>

(* deferGatewayRestartUntilIdle: at once, or when a poll finds the gateway *)
(* idle or has waited long enough.                                         *)
TimerFires ==
  /\ Alive /\ timer
  /\ \/ Emit /\ UNCHANGED polls
     \/ polls < MaxPolls /\ polls' = polls + 1 /\ timer' = FALSE /\ UNCHANGED <<closing, bootRestart>>
  /\ UNCHANGED <<disks, lagged, run, lock, restartPending, watch, bounds>>

PollEnds ==
  /\ Alive /\ polls > 0
  /\ polls' = polls - 1 /\ Emit
  /\ UNCHANGED <<disks, lagged, run, lock, restartPending, watch, bounds>>

HandlerPollEnds ==
  /\ Alive /\ restartPending
  /\ restartPending' = FALSE /\ Emit
  /\ UNCHANGED <<disks, lagged, run, lock, polls, watch, bounds>>

-----------------------------------------------------------------------------
(* The watcher. *)

DebounceFires ==
  /\ Alive /\ debounce
  /\ debounce' = FALSE
  /\ IF reload = "idle" THEN reload' = "reading" /\ UNCHANGED again
     ELSE again' = TRUE /\ UNCHANGED reload
  /\ UNCHANGED <<disks, lagged, run, lock, closing, timer, defer, bootRestart, bounds>>
  /\ UNCHANGED <<currentConfig, applying, restartQueued, checking>>

\* Broken form: a change noticed meanwhile is forgotten.
EndReload_Forgets ==
  /\ reload' = "idle" /\ again' = FALSE /\ applying' = {} /\ UNCHANGED debounce

(* The finally of runReload: a change noticed meanwhile is scheduled.      *)
EndReload ==
  /\ reload' = "idle" /\ again' = FALSE /\ applying' = {}
  /\ debounce' = (debounce \/ again)

(* readSnapshot and applySnapshot: the watcher takes the file for applied, *)
(* then acts on what has changed.  A restart is queued once per watcher;   *)
(* nobody restarts for a later write when the watcher has outlived that    *)
(* restart, its server not having closed.                                  *)
ApplySnapshot ==
  /\ Alive /\ reload = "reading"
  /\ LET changed == IF broken THEN {} ELSE currentConfig + 1 .. disk IN
     /\ currentConfig' = IF broken THEN currentConfig ELSE disk
     /\ IF changed = {} THEN EndReload /\ UNCHANGED <<lost, restartQueued, checking>>
        ELSE IF changed \cap needsRestart # {}
        THEN /\ EndReload
             /\ restartQueued' = TRUE /\ checking' = (checking \/ ~restartQueued)
             /\ lost' = IF restartQueued /\ loop = "failed"
                        THEN lost \cup (changed \cap unapplied) ELSE lost
        ELSE /\ reload' = "hot" /\ applying' = changed
             /\ UNCHANGED <<lost, debounce, again, restartQueued, checking>>
  /\ UNCHANGED <<disks, unapplied, run, lock, closing, timer, defer, bootRestart, bounds>>

HotReloadDone ==
  /\ Alive /\ reload = "hot"
  /\ \/ unapplied' = unapplied \ applying /\ lost' = lost \ applying /\ UNCHANGED bounds
     \/ lost' = lost \cup (applying \cap unapplied) /\ UNCHANGED unapplied /\ Fail
  /\ EndReload
  /\ UNCHANGED <<disks, run, lock, closing, timer, defer, bootRestart>>
  /\ UNCHANGED <<currentConfig, restartQueued, checking>>

(* onRestart has checked the configuration: requestGatewayRestart restarts *)
(* at once or waits for idleness, with one poll per server.                *)
RestartCheckDone ==
  /\ Alive /\ checking /\ checking' = FALSE
  /\ \/ Emit /\ UNCHANGED <<restartPending, restartQueued, lost, bounds>>
     \/ /\ restartPending' = TRUE
        /\ UNCHANGED <<timer, closing, bootRestart, restartQueued, lost, bounds>>
     \/ /\ restartQueued' = FALSE /\ lost' = unapplied /\ Fail
        /\ UNCHANGED <<timer, closing, bootRestart, restartPending>>
  /\ UNCHANGED <<disks, unapplied, run, lock, polls, currentConfig, debounce, reload, again, applying>>

-----------------------------------------------------------------------------
(* The run loop. *)

Exit ==
  /\ loop' = "exited" /\ lock' = FALSE
  /\ server' = FALSE /\ listening' = FALSE /\ watching' = FALSE
  /\ UNCHANGED <<firstStart, bootConfig, restartResolver, startFailed, closeFailed>>

(* startGatewayServer reads the configuration. *)
ReadConfig ==
  /\ loop = "reading" /\ ~broken
  /\ loop' = "booting" /\ bootConfig' = disk
  /\ UNCHANGED <<firstStart, server, listening, watching, restartResolver, startFailed, closeFailed>>
  /\ UNCHANGED <<disks, lagged, lock, closing, timer, defer, watch, bootRestart, bounds>>

(* start() returns: the server listens, a new watcher compares with the    *)
(* configuration read at the start, and the loop waits.                    *)
StartDone ==
  /\ loop = "booting" /\ ~listening
  /\ loop' = "up" /\ firstStart' = FALSE
  /\ server' = TRUE /\ listening' = TRUE /\ watching' = TRUE
  /\ restartResolver' = "armed"
  /\ unapplied' = unapplied \cap (bootConfig + 1 .. disk)
  /\ lost' = lost \cap unapplied'
  /\ currentConfig' = bootConfig /\ bootConfig' = 0
  /\ debounce' = FALSE /\ reload' = "idle" /\ again' = FALSE /\ applying' = {}
  /\ restartQueued' = FALSE /\ checking' = FALSE
  /\ UNCHANGED <<disks, startFailed, closeFailed, lock, closing, timer, defer, bootRestart, bounds>>

(* start() throws: the file is invalid, the port is taken, or whatever.    *)
(* The first time the process ends, afterwards it stays without a lock.    *)
StartFails ==
  /\ \/ loop = "reading" /\ broken /\ UNCHANGED bounds
     \/ loop = "booting" /\ listening /\ UNCHANGED bounds
     \/ loop = "booting" /\ Fail
  /\ IF firstStart THEN Exit
     ELSE /\ loop' = "failed" /\ server' = FALSE /\ lock' = FALSE
          /\ restartResolver' = "armed" /\ startFailed' = TRUE /\ bootConfig' = 0
          /\ UNCHANGED <<firstStart, listening, watching, closeFailed>>
  /\ lost' = unapplied
  /\ UNCHANGED <<disks, unapplied, closing, timer, defer, watch, bootRestart>>

(* SIGTERM or SIGINT. *)
Terminate ==
  /\ Alive /\ closing = "no"
  /\ closing' = "stopping"
  /\ UNCHANGED <<disks, lagged, run, lock, timer, defer, watch, bootRestart, bounds>>

(* configReloader.stop.  What the handlers had under way goes on.          *)
StopWatcher ==
  /\ reload # "reading"
  /\ watching' = FALSE
  /\ polls' = polls + Cardinality({x \in {"poll", "check"} :
                          IF x = "poll" THEN restartPending ELSE checking})
  /\ restartPending' = FALSE /\ checking' = FALSE
  /\ debounce' = FALSE /\ reload' = "idle" /\ again' = FALSE /\ applying' = {}
  /\ UNCHANGED <<currentConfig, restartQueued>>

(* The drain is over, or timed out, and the server the loop knows of is    *)
(* closed with its watcher.                                                *)
CloseServer ==
  /\ Alive /\ closing = "draining"
  /\ closing' = "closed" /\ server' = FALSE
  /\ IF server THEN StopWatcher /\ listening' = FALSE
     ELSE UNCHANGED <<listening, watching, defer, watch>>
  /\ UNCHANGED <<loop, firstStart, bootConfig, restartResolver, startFailed, closeFailed>>
  /\ UNCHANGED <<disks, lagged, lock, timer, bootRestart, bounds>>

(* server.close throws: a channel does not stop, before the watcher is     *)
(* stopped, or an HTTP server does not close, after it.  The error is      *)
(* logged, and the loop forgets a server that listens on.                  *)
CloseFails ==
  /\ Alive /\ closing = "draining" /\ server
  /\ Fail
  /\ closing' = "closed" /\ server' = FALSE /\ closeFailed' = TRUE
  /\ StopWatcher \/ UNCHANGED <<watching, defer, watch>>
  /\ UNCHANGED <<loop, firstStart, bootConfig, listening, restartResolver, startFailed>>
  /\ UNCHANGED <<disks, lagged, lock, timer, bootRestart>>

(* The process ends after a stop, or forceExitTimer ends it.               *)
Quit ==
  /\ Alive /\ closing \in {"stopping", "draining"}
  /\ closing' = "closed" /\ Exit
  /\ UNCHANGED <<disks, lagged, timer, defer, watch, bootRestart, bounds>>

(* restartGatewayProcessWithFreshPid: a new process takes the lock.        *)
Respawn ==
  /\ Alive /\ closing = "closed"
  /\ closing' = "no" /\ lock' = TRUE /\ loop' = "reading" /\ firstStart' = TRUE
  /\ bootConfig' = 0 /\ server' = FALSE /\ listening' = FALSE /\ watching' = FALSE
  /\ restartResolver' = "unset"
  /\ startFailed' = FALSE /\ closeFailed' = FALSE /\ bootRestart' = FALSE
  /\ timer' = FALSE /\ polls' = 0 /\ restartPending' = FALSE
  /\ currentConfig' = 0 /\ debounce' = FALSE /\ reload' = "idle" /\ again' = FALSE
  /\ applying' = {} /\ restartQueued' = FALSE /\ checking' = FALSE
  /\ UNCHANGED <<disks, lagged, bounds>>

(* shuttingDown = false; restartResolver?.()                               *)
NextIteration ==
  /\ closing' = "no"
  /\ IF restartResolver = "armed" THEN loop' = "reading" /\ restartResolver' = "used"
     ELSE UNCHANGED <<loop, restartResolver>>
  /\ UNCHANGED <<firstStart, bootConfig, server, listening, watching, startFailed, closeFailed>>

(* No new process: the loop goes on in this one, with the lock released    *)
(* and taken again if it had it.                                           *)
ReleaseLock ==
  /\ Alive /\ closing = "closed"
  /\ lock' = FALSE
  /\ IF lock THEN closing' = "locking" /\ UNCHANGED run
     ELSE NextIteration
  /\ UNCHANGED <<disks, lagged, timer, defer, watch, bootRestart, bounds>>

\* Broken form: the loop goes on without the lock.
ReacquireLock_Not ==
  /\ Alive /\ closing = "locking"
  /\ NextIteration
  /\ UNCHANGED <<disks, lagged, lock, timer, defer, watch, bootRestart, bounds>>

ReacquireLock ==
  /\ Alive /\ closing = "locking"
  /\ \/ lock' = TRUE /\ NextIteration
     \/ closing' = "no" /\ Exit
  /\ UNCHANGED <<disks, lagged, timer, defer, watch, bootRestart, bounds>>

SystemStep ==
  \/ TimerFires \/ PollEnds \/ HandlerPollEnds
  \/ DebounceFires \/ ApplySnapshot \/ HotReloadDone \/ RestartCheckDone
  \/ ReadConfig \/ StartDone \/ StartFails \/ CloseServer \/ CloseFails \/ Quit
  \/ Respawn \/ ReleaseLock \/ ReacquireLock

Next == Edit \/ Schedule \/ Terminate \/ SystemStep

Spec == Init /\ [][Next]_vars

(* Timers, file reads and promises go on; nobody has to edit the file or   *)
(* ask for a restart.  Every behaviour within the bounds is finite, so     *)
(* this fairness lets each pending step happen.                            *)
FairSpec == Spec /\ WF_vars(SystemStep)

-----------------------------------------------------------------------------
TypeOK ==
  /\ {disk, currentConfig, bootConfig} \subseteq 0 .. MaxEdits
  /\ lost \subseteq unapplied /\ unapplied \subseteq Edits
  /\ {needsRestart, applying} \subseteq SUBSET Edits
  /\ loop \in {"reading", "booting", "up", "failed", "exited"}
  /\ restartResolver \in {"unset", "armed", "used"}
  /\ closing \in {"no", "draining", "stopping", "closed", "locking"}
  /\ reload \in {"idle", "reading", "hot"}
  /\ polls \in 0 .. MaxPolls + 2 * (MaxEdits + 1)
  /\ {broken, firstStart, lock, server, listening, watching, timer, restartPending, debounce,
      again, restartQueued, checking, startFailed, closeFailed, bootRestart} \subseteq BOOLEAN

(* "The Gateway watches the file and applies changes automatically": a     *)
(* valid write ends up in the server, by a hot reload, by a restart it     *)
(* asked for or by one that was under way and swallowed the request,       *)
(* unless it is missed or fails, which lost records, or a restart hit a    *)
(* start, which can leave two servers in one process.                      *)
EditApplied ==
  \A v \in Edits : (v \in unapplied \ lost /\ ~broken)
                     ~> (v \notin unapplied \ lost \/ broken \/ bootRestart \/ ~Alive)
=============================================================================
