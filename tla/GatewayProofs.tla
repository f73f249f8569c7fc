---------------------------- MODULE GatewayProofs ----------------------------
(***************************************************************************)
(* What is proved of the gateway process: the stops, starts and restarts   *)
(* of one account in ChannelManager, for any number of instances and       *)
(* restart attempts, and the handover from one server to the next in       *)
(* GatewayLifecycle, for any number of edits, requested restarts, polls    *)
(* and failures.                                                           *)
(***************************************************************************)
EXTENDS ChannelManager, GatewayHandover, TLAPS

LEMMA NoneIsNoInstance == None \notin Instances /\ Callers \cap Instances = {}
BY ChannelAssumption

(* The two entries of the account belong to one instance that is up or     *)
(* sleeps before its restart, and a start by an instance is that of one    *)
(* that has slept.                                                         *)
Entries ==
  /\ abort = task
  /\ task # None => inst[task] \in {"live", "backoff"}
  /\ \A i \in Instances : i \in starting => inst[i] = "restarting"

(* Where neither isConfigured nor a stop hook waits, a stop call waits for *)
(* the instance that has the entries, and between the end of that instance *)
(* and the end of the call nothing is up and nothing restarts.             *)
NothingWaits ==
  /\ starting = {}
  /\ \A c \in Callers :
       /\ phase[c] # "hook"
       /\ awaited[c] # None => awaited[c] = task
       /\ Ready(c) => task = None /\ \A i \in Instances : inst[i] # "restarting"
  /\ \A i \in Instances : inst[i] \in {"live", "backoff"} => task = i
  /\ running <=> Live # {}

(* While the user's stop holds, the account is marked, and whoever may     *)
(* still start it was under way at the stop.                               *)
StopHolds ==
  /\ manuallyStopped
  /\ starting \subseteq {"user", "reload"} \cup overtaken
  /\ phase["monitor"] \in {"hook", "waiting", "stopped"} => "monitor" \in overtaken
  /\ \A i \in Instances : inst[i] = "restarting" => i \in starting

(* The monitor starts an account at most once at a time. *)
MonitorOnce == phase["monitor"] # "idle" => "monitor" \notin starting

IInv ==
  /\ TypeOK
  /\ Entries
  /\ StopsAreHeard
  /\ ~plugin.awaits /\ ~plugin.hook => NothingWaits
  /\ MonitorOnce
  /\ held => StopHolds

LEMMA IInvInit == Init => IInv
<1> SUFFICES ASSUME Init PROVE IInv
  OBVIOUS
<1>1. TypeOK
  <2>1. restartAttempts \in 0 .. MaxAttempts + 1
    BY ChannelAssumption DEF Init
  <2> QED
    BY <2>1 DEF Init, TypeOK, Or
<1>2. Live = {}
  BY DEF Init, Live
<1> QED
  BY <1>1, <1>2 DEF Init, IInv, Entries, StopsAreHeard, NothingWaits, Ready, MonitorOnce

-----------------------------------------------------------------------------
(* Types. *)

Attempts == 0 .. MaxAttempts + 1

(* What a start changes. *)
StartTypes ==
  /\ inst \in [Instances -> {"free", "live", "backoff", "restarting"}]
  /\ task \in Or(Instances) /\ abort \in Or(Instances)
  /\ manuallyStopped \in BOOLEAN /\ running \in BOOLEAN /\ restartPending \in BOOLEAN
  /\ restartAttempts \in Attempts
  /\ starting \subseteq Starters
  /\ held \in BOOLEAN /\ overtaken \subseteq Starters

LEMMA LaunchTypes ==
  ASSUME TypeOK, NEW s \in Starters, Launch(s), starting' \subseteq Starters
  PROVE  StartTypes'
<1>1. 0 \in Attempts
  BY ChannelAssumption DEF Attempts
<1>2. Without(s) \in [Instances -> {"free", "live", "backoff", "restarting"}]
  BY DEF TypeOK, Without
<1>3. manuallyStopped' \in BOOLEAN /\ held' \in BOOLEAN
  BY DEF Launch
<1>4. overtaken' \subseteq Starters
  BY DEF Launch, TypeOK
<1>5. restartAttempts' \in Attempts
  BY <1>1 DEF Launch, TypeOK, Attempts
<1> QED
  BY <1>1, <1>2, <1>3, <1>4, <1>5 DEF Launch, StartTypes, Or

LEMMA FailTypes ==
  ASSUME TypeOK, NEW s \in Starters, NEW a \in Attempts, Fail(s, a),
         starting' \subseteq Starters
  PROVE  StartTypes'
BY DEF Fail, TypeOK, StartTypes, Without, store, status

LEMMA BeginStartTypes ==
  ASSUME TypeOK, NEW s \in Starters, NEW a \in Attempts, BeginStart(s, a)
  PROVE  StartTypes'
<1>1. CASE task # None
  BY <1>1 DEF BeginStart, TypeOK, StartTypes, Without, store, status, history, Fail
<1>2. CASE Fail(s, a) /\ UNCHANGED starting
  BY <1>2, FailTypes DEF TypeOK
<1>3. CASE Launch(s) /\ UNCHANGED starting
  BY <1>3, LaunchTypes DEF TypeOK
<1>4. CASE /\ starting' = starting \cup {s} /\ restartAttempts' = a
           /\ UNCHANGED <<inst, store, manuallyStopped, status, history>>
  BY <1>4 DEF TypeOK, StartTypes, store, status, history
<1> QED
  BY <1>1, <1>2, <1>3, <1>4 DEF BeginStart

LEMMA SettleTypes ==
  ASSUME TypeOK, NEW i \in Instances, Settle(i)
  PROVE  /\ inst' \in [Instances -> {"free", "live", "backoff", "restarting"}]
         /\ aborted' \subseteq Instances
         /\ task' \in Or(Instances) /\ abort' \in Or(Instances)
         /\ awaited' \in [Callers -> Or(Instances)]
BY DEF TypeOK, Settle, Or

LEMMA StopTypes ==
  ASSUME TypeOK, NEW c \in Callers, Stop(c)
  PROVE  /\ manuallyStopped' \in BOOLEAN
         /\ aborted' \subseteq Instances
         /\ phase' \in [Callers -> {"idle", "seenUp", "seenDown", "hook", "waiting", "stopped"}]
         /\ awaited' \in [Callers -> Or(Instances)]
         /\ restartAttempts' = restartAttempts
BY DEF TypeOK, Stop, Or

LEMMA TypeStep ==
  ASSUME TypeOK, [Next]_vars
  PROVE  TypeOK'
<1> USE DEF config, store, marks, status, calls, history
<1>1. ASSUME NEW i \in Instances, InstanceStep(i) PROVE TypeOK'
  <2>1. CASE Exit(i)
    <3>1. restartAttempts' \in Attempts
      BY <2>1, ChannelAssumption DEF Exit, TypeOK, Attempts
    <3>2. restartPending' \in BOOLEAN
      <4>1. CASE manuallyStopped
        BY <2>1, <4>1 DEF Exit, TypeOK
      <4>2. CASE ~manuallyStopped
        <5>1. restartPending' = (restartAttempts + 1 <= MaxAttempts)
          BY <2>1, <4>2 DEF Exit
        <5> QED
          BY <5>1
      <4> QED
        BY <4>1, <4>2
    <3>3. /\ inst' \in [Instances -> {"free", "live", "backoff", "restarting"}]
          /\ aborted' \subseteq Instances
          /\ task' \in Or(Instances) /\ abort' \in Or(Instances)
          /\ awaited' \in [Callers -> Or(Instances)]
      <4>1. CASE Settle(i)
        BY <4>1, SettleTypes
      <4>2. CASE inst' = [inst EXCEPT ![i] = "backoff"] /\ UNCHANGED <<aborted, store, awaited>>
        BY <4>2 DEF TypeOK
      <4> QED
        BY <2>1, <4>1, <4>2 DEF Exit
    <3> QED
      BY <2>1, <3>1, <3>2, <3>3 DEF Exit, TypeOK, Attempts
  <2>2. CASE BackoffAborted(i)
    BY <2>2, SettleTypes DEF BackoffAborted, TypeOK
  <2>3. CASE BackoffEnds(i)
    <3>1. CASE Settle(i)
      BY <2>3, <3>1, SettleTypes DEF BackoffEnds, TypeOK
    <3>2. CASE ~manuallyStopped
      BY <2>3, <3>2 DEF BackoffEnds, TypeOK, Or
    <3> QED
      BY <2>3, <3>1, <3>2 DEF BackoffEnds
  <2>4. CASE Restart(i)
    BY <2>4, BeginStartTypes DEF Restart, TypeOK, Attempts, StartTypes, Starters
  <2> QED
    BY <1>1, <2>1, <2>2, <2>3, <2>4 DEF InstanceStep
<1>2. ASSUME NEW s \in Starters, CheckDone(s) PROVE TypeOK'
  <2>1. starting' \subseteq Starters
    BY <1>2 DEF CheckDone, TypeOK
  <2> QED
    BY <1>2, <2>1, LaunchTypes, FailTypes DEF CheckDone, TypeOK, Attempts, StartTypes
<1>3. ASSUME NEW c \in Callers, StopStep(c) PROVE TypeOK'
  BY <1>3 DEF StopStep, HookDone, HookFails, StopDone, TypeOK, Or
<1>4. CASE UserStart
  BY <1>4, BeginStartTypes DEF UserStart, TypeOK, Attempts, StartTypes, Starters, Callers
<1>5. CASE UserStop
  <2>1. overtaken' \subseteq Starters /\ held' \in BOOLEAN
    BY <1>5 DEF UserStop, TypeOK, Starters, Callers
  <2>2. CASE NothingToStop
    BY <1>5, <2>2 DEF UserStop, TypeOK
  <2>3. CASE Stop("user")
    BY <1>5, <2>1, <2>3, StopTypes DEF UserStop, TypeOK, Callers
  <2> QED
    BY <1>5, <2>2, <2>3 DEF UserStop
<1>6. CASE Edit \/ MonitorLooks \/ MonitorSkips
  BY <1>6 DEF Edit, MonitorLooks, MonitorSkips, TypeOK
<1>7. CASE Reload \/ MonitorStops
  <2>1. CASE Stop("reload") \/ Stop("monitor")
    BY <1>7, <2>1, StopTypes DEF Reload, MonitorStops, TypeOK, Callers
  <2>2. CASE NothingToStop
    BY <1>7, <2>2 DEF Reload, MonitorStops, TypeOK
  <2> QED
    BY <1>7, <2>1, <2>2 DEF Reload, MonitorStops
<1>8. CASE ReloadStarts \/ MonitorStarts
  <2>1. restartAttempts \in Attempts /\ 0 \in Attempts
    BY ChannelAssumption DEF TypeOK, Attempts
  <2>2. StartTypes'
    BY <1>8, <2>1, BeginStartTypes DEF ReloadStarts, MonitorStarts, Starters, Callers
  <2> QED
    BY <1>8, <2>2 DEF ReloadStarts, MonitorStarts, TypeOK, StartTypes, Attempts
<1>9. CASE UNCHANGED vars
  BY <1>9 DEF vars, TypeOK
<1> QED
  BY <1>1, <1>2, <1>3, <1>4, <1>5, <1>6, <1>7, <1>8, <1>9 DEF Next, MonitorActs

-----------------------------------------------------------------------------
(* The entries of the account, and the stop calls. *)

Heard == TypeOK /\ Entries /\ StopsAreHeard

(* An instance that starts the next one has slept, and its start is under  *)
(* way at most once.                                                       *)
MayStart(s) == s \in Instances => inst[s] = "restarting" /\ s \notin starting'

LEMMA LaunchHeard ==
  ASSUME Heard, NEW s \in Starters, MayStart(s), Launch(s), starting' \subseteq starting,
         UNCHANGED <<aborted, awaited>>
  PROVE  Entries' /\ StopsAreHeard'
<1>1. PICK j \in Instances : /\ Without(s)[j] = "free"
                             /\ inst' = [Without(s) EXCEPT ![j] = "live"]
                             /\ task' = j /\ abort' = j
  BY DEF Launch
<1>2. inst'[j] = "live"
  BY <1>1 DEF Without
<1>3. \A i \in Instances : i # s /\ inst[i] # "free" => inst'[i] = inst[i]
  BY <1>1 DEF Without
<1>4. Entries'
  BY <1>1, <1>2, <1>3 DEF Entries, Heard, MayStart
<1>5. ASSUME NEW c \in Callers, awaited[c] # None
      PROVE  awaited[c] \in aborted /\ inst'[awaited[c]] \in {"live", "backoff"}
  <2>1. awaited[c] \in Instances
    BY <1>5 DEF Heard, TypeOK, Or
  <2> QED
    BY <1>3, <1>5, <2>1 DEF Heard, StopsAreHeard, MayStart
<1>6. Live' # {}
  BY <1>2 DEF Live
<1> QED
  BY <1>4, <1>5, <1>6 DEF StopsAreHeard

LEMMA FailHeard ==
  ASSUME Heard, NEW s \in Starters, NEW a, MayStart(s), Fail(s, a), starting' \subseteq starting,
         UNCHANGED <<aborted, awaited>>
  PROVE  Entries' /\ StopsAreHeard'
<1>1. inst' = [i \in Instances |-> IF i = s THEN "free" ELSE inst[i]] /\ UNCHANGED <<task, abort>>
  BY DEF Fail, Without, store
<1>2. \A i \in Instances : i # s => inst'[i] = inst[i]
  BY <1>1
<1>3. Live' = Live
  BY <1>1, <1>2 DEF Live, MayStart
<1>4. running' => running
  BY DEF Fail, status
<1>5. Entries'
  BY <1>1, <1>2 DEF Entries, Heard, MayStart, TypeOK, Or
<1>6. ASSUME NEW c \in Callers, awaited[c] # None
      PROVE  awaited[c] \in aborted /\ inst'[awaited[c]] \in {"live", "backoff"}
  <2>1. awaited[c] \in Instances
    BY <1>6 DEF Heard, TypeOK, Or
  <2> QED
    BY <1>2, <1>6, <2>1 DEF Heard, StopsAreHeard, MayStart
<1> QED
  BY <1>3, <1>4, <1>5, <1>6 DEF StopsAreHeard, Heard

LEMMA BeginStartHeard ==
  ASSUME Heard, NEW s \in Starters, NEW a, BeginStart(s, a),
         s \in Instances => inst[s] = "restarting" /\ s \notin starting,
         UNCHANGED <<aborted, awaited>>
  PROVE  Entries' /\ StopsAreHeard'
<1>1. CASE Fail(s, a) /\ UNCHANGED starting
  BY <1>1, FailHeard DEF MayStart
<1>2. CASE Launch(s) /\ UNCHANGED starting
  BY <1>2, LaunchHeard DEF MayStart
<1>3. CASE /\ inst' = Without(s)
           /\ UNCHANGED <<store, manuallyStopped, status, starting, history>>
  <2>1. \A i \in Instances : i # s => inst'[i] = inst[i]
    BY <1>3 DEF Without
  <2>2. Live' = Live
    BY <1>3, <2>1 DEF Live, Without
  <2>3. Entries'
    BY <1>3, <2>1 DEF Entries, Heard, TypeOK, Or, store
  <2>4. ASSUME NEW c \in Callers, awaited[c] # None
        PROVE  awaited[c] \in aborted /\ inst'[awaited[c]] \in {"live", "backoff"}
    <3>1. awaited[c] \in Instances
      BY <2>4 DEF Heard, TypeOK, Or
    <3> QED
      BY <2>1, <2>4, <3>1 DEF Heard, StopsAreHeard
  <2> QED
    BY <1>3, <2>2, <2>3, <2>4 DEF StopsAreHeard, Heard, status
<1>4. CASE /\ starting' = starting \cup {s}
           /\ UNCHANGED <<inst, store, manuallyStopped, status, history>>
  BY <1>4 DEF Heard, Entries, StopsAreHeard, Live, store, status
<1> QED
  BY <1>1, <1>2, <1>3, <1>4 DEF BeginStart

(* The calls that wait for the instance that settles go on. *)
LEMMA SettleHeard ==
  ASSUME Heard, NEW i \in Instances, Settle(i), inst[i] \in {"live", "backoff"},
         UNCHANGED starting
  PROVE  /\ Entries'
         /\ \A c \in Callers : awaited'[c] # None =>
              awaited'[c] \in aborted' /\ inst'[awaited'[c]] \in {"live", "backoff"}
<1>1. \A k \in Instances : k # i => inst'[k] = inst[k]
  BY DEF Settle, Heard, TypeOK
<1>2. Entries'
  BY <1>1 DEF Settle, Heard, Entries, TypeOK, Or
<1>3. ASSUME NEW c \in Callers, awaited'[c] # None
      PROVE  awaited'[c] \in aborted' /\ inst'[awaited'[c]] \in {"live", "backoff"}
  <2>1. awaited'[c] = awaited[c] /\ awaited[c] # i /\ awaited[c] \in Instances
    BY <1>3 DEF Settle, Heard, TypeOK, Or
  <2> QED
    BY <1>1, <1>3, <2>1 DEF Settle, Heard, StopsAreHeard
<1> QED
  BY <1>2, <1>3

(* What a new stop call waits for has the entries, and is told to end. *)
LEMMA StopHeard ==
  ASSUME Heard, NEW c \in Callers, Stop(c), UNCHANGED <<inst, store, status, starting>>
  PROVE  Entries' /\ StopsAreHeard'
<1>1. Entries' /\ Live' = Live
  BY DEF Heard, Entries, Live, store
<1>2. \A d \in Callers : awaited'[d] \in {awaited[d], task}
  BY DEF Stop, Heard, TypeOK
<1>3. aborted \subseteq aborted' /\ (task # None => task \in aborted')
  BY DEF Stop, Heard, Entries
<1> QED
  BY <1>1, <1>2, <1>3 DEF Heard, StopsAreHeard, Entries, status

LEMMA HeardStep ==
  ASSUME Heard, [Next]_vars
  PROVE  Entries' /\ StopsAreHeard'
<1> USE DEF config, store, marks, status, calls, history
<1>1. ASSUME NEW i \in Instances, InstanceStep(i) PROVE Entries' /\ StopsAreHeard'
  <2>1. CASE Exit(i)
    <3>1. CASE Settle(i)
      BY <2>1, <3>1, SettleHeard DEF Exit, StopsAreHeard
    <3>2. CASE inst' = [inst EXCEPT ![i] = "backoff"] /\ UNCHANGED <<aborted, store, awaited>>
      BY <2>1, <3>2 DEF Exit, Heard, TypeOK, Entries, StopsAreHeard, Or
    <3> QED
      BY <2>1, <3>1, <3>2 DEF Exit
  <2>2. CASE BackoffAborted(i) \/ (BackoffEnds(i) /\ manuallyStopped)
    <3>1. Settle(i) /\ inst[i] = "backoff" /\ UNCHANGED <<starting, running>>
      BY <2>2 DEF BackoffAborted, BackoffEnds
    <3>2. Live \subseteq Live'
      BY <3>1 DEF Settle, Live, Heard, TypeOK
    <3> QED
      BY <3>1, <3>2, SettleHeard DEF StopsAreHeard, Heard
  <2>3. CASE BackoffEnds(i) /\ ~manuallyStopped
    <3>1. /\ inst[i] = "backoff" /\ i \notin aborted
          /\ inst' = [inst EXCEPT ![i] = "restarting"]
          /\ task' = (IF task = i THEN None ELSE task)
          /\ abort' = (IF abort = i THEN None ELSE abort)
          /\ UNCHANGED <<aborted, awaited, starting, running>>
      BY <2>3 DEF BackoffEnds
    <3>2. \A k \in Instances : k # i => inst'[k] = inst[k]
      BY <3>1 DEF Heard, TypeOK
    <3>3. Live \subseteq Live'
      BY <3>1, <3>2 DEF Live
    <3>4. Entries'
      BY <3>1, <3>2 DEF Heard, Entries, TypeOK, Or
    <3>5. \A c \in Callers : awaited[c] # None =>
            awaited[c] \in aborted /\ inst'[awaited[c]] \in {"live", "backoff"}
      BY <3>1, <3>2 DEF Heard, StopsAreHeard, TypeOK, Or
    <3> QED
      BY <3>1, <3>3, <3>4, <3>5 DEF StopsAreHeard, Heard
  <2>4. CASE Restart(i)
    BY <2>4, BeginStartHeard DEF Restart, Waking, Starters
  <2> QED
    BY <1>1, <2>1, <2>2, <2>3, <2>4 DEF InstanceStep
<1>2. ASSUME NEW s \in Starters, CheckDone(s) PROVE Entries' /\ StopsAreHeard'
  <2>1. MayStart(s) /\ starting' \subseteq starting /\ UNCHANGED <<aborted, awaited>>
    BY <1>2 DEF CheckDone, MayStart, Heard, Entries
  <2> QED
    BY <1>2, <2>1, LaunchHeard, FailHeard DEF CheckDone
<1>3. ASSUME NEW c \in Callers, StopStep(c) PROVE Entries' /\ StopsAreHeard'
  <2>1. CASE HookFails(c)
    BY <2>1 DEF HookFails, Heard, Entries, StopsAreHeard, Live, TypeOK
  <2>2. CASE HookDone(c)
    BY <2>2 DEF HookDone, Heard, Entries, StopsAreHeard, Live
  <2>3. CASE StopDone(c)
    BY <2>3, NoneIsNoInstance DEF StopDone, Heard, Entries, StopsAreHeard, Live
  <2> QED
    BY <1>3, <2>1, <2>2, <2>3 DEF StopStep
<1>4. CASE UserStart \/ ReloadStarts \/ MonitorStarts
  <2>1. \E s \in Callers, a \in Attempts : BeginStart(s, a)
    BY <1>4, ChannelAssumption
       DEF UserStart, ReloadStarts, MonitorStarts, Callers, Heard, TypeOK, Attempts
  <2>2. UNCHANGED <<aborted, awaited>>
    BY <1>4 DEF UserStart, ReloadStarts, MonitorStarts
  <2> QED
    BY <2>1, <2>2, BeginStartHeard, NoneIsNoInstance DEF Starters
<1>5. CASE UserStop \/ Reload \/ MonitorStops
  <2>1. UNCHANGED <<inst, store, status, starting>>
    BY <1>5 DEF UserStop, Reload, MonitorStops
  <2>2. (\E c \in Callers : Stop(c)) \/ UNCHANGED <<aborted, awaited>>
    BY <1>5 DEF UserStop, Reload, MonitorStops, Callers
  <2> QED
    BY <2>1, <2>2, StopHeard DEF Heard, Entries, StopsAreHeard, Live
<1>6. CASE Edit \/ MonitorLooks \/ MonitorSkips \/ UNCHANGED vars
  BY <1>6 DEF Edit, MonitorLooks, MonitorSkips, vars, Heard, Entries, StopsAreHeard, Live
<1> QED
  BY <1>1, <1>2, <1>3, <1>4, <1>5, <1>6 DEF Next, MonitorActs

-----------------------------------------------------------------------------
(* Where nothing waits, there is one instance. *)

Serial == Heard /\ ~plugin.awaits /\ ~plugin.hook /\ NothingWaits

LEMMA NothingUp ==
  ASSUME Serial, task = None
  PROVE  Live = {} /\ running = FALSE /\ \A c \in Callers : awaited[c] = None
<1>1. Live = {}
  BY NoneIsNoInstance DEF Serial, NothingWaits, Live
<1>2. \A c \in Callers : awaited[c] = None
  BY DEF Serial, NothingWaits
<1> QED
  BY <1>1, <1>2 DEF Serial, NothingWaits, Heard, TypeOK

LEMMA BeginStartSerial ==
  ASSUME Serial, NEW s \in Starters, NEW a, BeginStart(s, a),
         s \in Instances => inst[s] = "restarting",
         \A c \in Callers : ~Ready(c) /\ phase'[c] \in {phase[c], "idle"},
         UNCHANGED awaited
  PROVE  NothingWaits'
<1>1. \A c \in Callers : ~Ready(c)' /\ phase'[c] # "hook"
  BY DEF Ready, Serial, NothingWaits
<1>2. starting' = {}
  BY DEF BeginStart, Serial, NothingWaits
<1>3. \A i \in Instances : i # s => Without(s)[i] = inst[i]
  BY DEF Without
<1>4. s \notin Live
  BY DEF Live
<1>5. CASE task # None
  <2>1. inst' = Without(s) /\ UNCHANGED <<task, running>>
    BY <1>5 DEF BeginStart, store, status, Serial, Fail
  <2>2. \A i \in Instances : inst'[i] \in {"live", "backoff"} => inst[i] = inst'[i]
    BY <1>3, <2>1 DEF Without
  <2>3. Live' = Live
    BY <1>3, <1>4, <2>1, <2>2 DEF Live
  <2> QED
    BY <1>1, <1>2, <2>1, <2>2, <2>3 DEF Serial, NothingWaits
<1>6. CASE task = None /\ Launch(s)
  <2>1. PICK j \in Instances : inst' = [Without(s) EXCEPT ![j] = "live"] /\ task' = j
    BY <1>6 DEF Launch
  <2>2. running' = TRUE
    BY <1>6 DEF Launch
  <2>3. \A i \in Instances : i # j => inst'[i] \notin {"live", "backoff"}
    BY <1>6, <2>1, NoneIsNoInstance DEF Without, Serial, NothingWaits
  <2>4. inst'[j] = "live"
    BY <2>1 DEF Without
  <2>5. \A c \in Callers : awaited'[c] = None
    BY <1>6, NothingUp
  <2> QED
    BY <1>1, <1>2, <2>1, <2>2, <2>3, <2>4, <2>5 DEF NothingWaits, Live
<1>7. CASE task = None /\ Fail(s, a)
  <2>1. inst' = Without(s) /\ task' = None
    BY <1>7 DEF Fail, store
  <2>2. running' = FALSE /\ \A c \in Callers : awaited'[c] = None
    BY <1>7, NothingUp DEF Fail, status
  <2>3. \A i \in Instances : inst'[i] \notin {"live", "backoff"}
    BY <1>7, <2>1, NoneIsNoInstance DEF Without, Serial, NothingWaits
  <2> QED
    BY <1>1, <1>2, <2>1, <2>2, <2>3 DEF NothingWaits, Live
<1> QED
  BY <1>5, <1>6, <1>7 DEF BeginStart, Serial

LEMMA SettleSerial ==
  ASSUME Serial, Quiet, NEW i \in Instances, Settle(i), inst[i] \in {"live", "backoff"},
         UNCHANGED <<starting, phase>>, running' = running \/ running' = FALSE,
         inst[i] = "live" => running' = FALSE
  PROVE  NothingWaits'
<1>1. task = i
  BY DEF Serial, NothingWaits
<1>2. \A k \in Instances : inst'[k] \notin {"live", "backoff", "restarting"}
  BY <1>1 DEF Serial, NothingWaits, Heard, TypeOK, Settle, Quiet, Waking
<1>3. inst[i] = "backoff" => Live = {}
  BY <1>1 DEF Serial, NothingWaits, Live
<1>4. running' = FALSE
  BY <1>3 DEF Serial, NothingWaits, Heard, TypeOK
<1>5. task' = None /\ \A c \in Callers : awaited'[c] = None
  BY <1>1 DEF Settle, Serial, NothingWaits
<1> QED
  BY <1>2, <1>4, <1>5 DEF NothingWaits, Serial, Live

LEMMA StopSerial ==
  ASSUME Serial, Quiet, NEW c \in Callers, Stop(c), ~NothingToStop,
         UNCHANGED <<inst, store, status, starting>>
  PROVE  NothingWaits'
<1>1. task # None
  BY DEF NothingToStop, Serial, Heard, Entries
<1>2. /\ phase' = [phase EXCEPT ![c] = "waiting"]
      /\ awaited' = [awaited EXCEPT ![c] = task]
  BY DEF Stop, Serial
<1>3. \A d \in Callers : ~Ready(d)'
  BY <1>1, <1>2 DEF Ready, Quiet, Serial, Heard, TypeOK
<1>4. Live' = Live
  BY DEF Live
<1> QED
  BY <1>2, <1>3, <1>4 DEF Serial, NothingWaits, Heard, TypeOK, store, status

LEMMA SerialStep ==
  ASSUME Serial, [Next]_vars
  PROVE  NothingWaits'
<1> USE DEF config, store, marks, status, calls, history
<1>1. ASSUME NEW i \in Instances, InstanceStep(i) PROVE NothingWaits'
  <2>1. CASE Exit(i)
    <3>1. CASE Settle(i)
      BY <2>1, <3>1, SettleSerial DEF Exit
    <3>2. CASE inst' = [inst EXCEPT ![i] = "backoff"] /\ UNCHANGED <<aborted, store, awaited>>
      <4>1. \A k \in Instances : inst'[k] # "live"
        BY <2>1, <3>2 DEF Exit, Serial, NothingWaits, Heard, TypeOK
      <4>2. running' = FALSE /\ \A c \in Callers : ~Ready(c)'
        BY <2>1, <3>2 DEF Exit, Quiet, Ready
      <4>3. \A k \in Instances : k # i => inst'[k] = inst[k]
        BY <3>2 DEF Serial, Heard, TypeOK
      <4> QED
        BY <2>1, <3>2, <4>1, <4>2, <4>3 DEF Exit, Serial, NothingWaits, Live
    <3> QED
      BY <2>1, <3>1, <3>2 DEF Exit
  <2>2. CASE BackoffAborted(i) \/ (BackoffEnds(i) /\ manuallyStopped)
    BY <2>2, SettleSerial DEF BackoffAborted, BackoffEnds
  <2>3. CASE BackoffEnds(i) /\ ~manuallyStopped
    <3>1. /\ inst[i] = "backoff" /\ i \notin aborted /\ task = i
          /\ inst' = [inst EXCEPT ![i] = "restarting"] /\ task' = None
          /\ UNCHANGED <<awaited, starting, running, phase>>
      BY <2>3 DEF BackoffEnds, Serial, NothingWaits
    <3>2. \A c \in Callers : awaited[c] = None
      BY <3>1 DEF Serial, NothingWaits, Heard, StopsAreHeard
    <3>3. \A c \in Callers : ~Ready(c)'
      BY <2>3, <3>1 DEF BackoffEnds, Quiet, Ready
    <3>4. \A k \in Instances : inst'[k] \notin {"live", "backoff"}
      BY <3>1 DEF Serial, NothingWaits, Heard, TypeOK
    <3>5. running = FALSE
      BY <3>1 DEF Serial, NothingWaits, Heard, TypeOK, Live
    <3> QED
      BY <3>1, <3>2, <3>3, <3>4, <3>5 DEF Serial, NothingWaits, Live
  <2>4. CASE Restart(i)
    <3>1. \A c \in Callers : ~Ready(c)
      BY <2>4 DEF Restart, Waking, Serial, NothingWaits
    <3> QED
      BY <2>4, <3>1, BeginStartSerial DEF Restart, Waking, Starters
  <2> QED
    BY <1>1, <2>1, <2>2, <2>3, <2>4 DEF InstanceStep
<1>2. ASSUME NEW s \in Starters, CheckDone(s) PROVE FALSE
  BY <1>2 DEF CheckDone, Serial, NothingWaits
<1>3. ASSUME NEW c \in Callers, StopStep(c) PROVE NothingWaits'
  <2>1. StopDone(c)
    BY <1>3 DEF StopStep, HookDone, HookFails, Serial, NothingWaits
  <2>2. task = None /\ task' = None /\ running' = FALSE /\ UNCHANGED <<inst, starting, awaited>>
    BY <2>1 DEF StopDone, Serial, NothingWaits
  <2>3. Live' = {}
    BY <2>2, NothingUp DEF Live
  <2>4. \A d \in Callers : phase'[d] # "hook" /\ (Ready(d)' => Ready(d))
    BY <2>1 DEF StopDone, Ready, Serial, NothingWaits, Heard, TypeOK
  <2> QED
    BY <2>2, <2>3, <2>4 DEF Serial, NothingWaits
<1>4. CASE UserStart \/ ReloadStarts \/ MonitorStarts
  <2>1. \E s \in Callers, a \in Attempts : BeginStart(s, a)
    BY <1>4, ChannelAssumption
       DEF UserStart, ReloadStarts, MonitorStarts, Callers, Serial, Heard, TypeOK, Attempts
  <2>2. /\ UNCHANGED awaited
        /\ \A c \in Callers : ~Ready(c) /\ phase'[c] \in {phase[c], "idle"}
    BY <1>4 DEF UserStart, ReloadStarts, MonitorStarts, Quiet, Serial, Heard, TypeOK
  <2> QED
    BY <2>1, <2>2, BeginStartSerial, NoneIsNoInstance DEF Starters
<1>5. CASE UserStop \/ Reload \/ MonitorStops
  <2>1. Quiet /\ UNCHANGED <<inst, store, status, starting>>
    BY <1>5 DEF UserStop, Reload, MonitorStops
  <2>2. CASE \E c \in Callers : Stop(c) /\ ~NothingToStop
    BY <2>1, <2>2, StopSerial
  <2>3. CASE UNCHANGED awaited /\ \A c \in Callers : phase'[c] \in {phase[c], "stopped"}
    BY <2>1, <2>3 DEF Serial, NothingWaits, Live, Ready
  <2> QED
    BY <1>5, <2>2, <2>3 DEF UserStop, Reload, MonitorStops, Callers, Serial, Heard, TypeOK
<1>6. CASE Edit \/ UNCHANGED vars
  BY <1>6 DEF Edit, vars, Serial, NothingWaits, Live, Ready
<1>7. CASE MonitorLooks \/ MonitorSkips
  <2>1. UNCHANGED <<inst, task, running, starting, awaited>>
    BY <1>7 DEF MonitorLooks, MonitorSkips
  <2>2. \A c \in Callers : phase'[c] \in {phase[c], "seenUp", "seenDown", "idle"}
    BY <1>7 DEF MonitorLooks, MonitorSkips, Serial, Heard, TypeOK
  <2> QED
    BY <2>1, <2>2 DEF Serial, NothingWaits, Live, Ready
<1> QED
  BY <1>1, <1>2, <1>3, <1>4, <1>5, <1>6, <1>7 DEF Next, MonitorActs

-----------------------------------------------------------------------------
(* The user's stop. *)

LEMMA MonitorOnceStep ==
  ASSUME TypeOK, MonitorOnce, [Next]_vars
  PROVE  MonitorOnce'
<1> USE DEF config, store, marks, status, calls, history
<1>1. ASSUME NEW i \in Instances, InstanceStep(i) PROVE MonitorOnce'
  <2>1. CASE Restart(i)
    BY <2>1, NoneIsNoInstance DEF Restart, BeginStart, Fail, Launch, MonitorOnce, Callers
  <2> QED
    BY <1>1, <2>1 DEF InstanceStep, Exit, BackoffAborted, BackoffEnds, MonitorOnce
<1>2. ASSUME NEW s \in Starters, CheckDone(s) PROVE MonitorOnce'
  BY <1>2 DEF CheckDone, MonitorOnce
<1>3. ASSUME NEW c \in Callers, StopStep(c) PROVE MonitorOnce'
  BY <1>3 DEF StopStep, HookDone, HookFails, StopDone, Ready, MonitorOnce, TypeOK, Callers
<1>4. CASE UserStart
  BY <1>4 DEF UserStart, BeginStart, MonitorOnce
<1>5. CASE UserStop \/ Reload
  BY <1>5 DEF UserStop, Reload, Stop, MonitorOnce, TypeOK, Callers
<1>6. CASE ReloadStarts
  BY <1>6 DEF ReloadStarts, BeginStart, MonitorOnce, TypeOK, Callers
<1>7. CASE MonitorActs \/ MonitorLooks
  <2>1. CASE MonitorStarts
    BY <2>1 DEF MonitorStarts, MonitorOnce, TypeOK, Callers
  <2> QED
    BY <1>7, <2>1 DEF MonitorActs, MonitorLooks, MonitorSkips, MonitorStops, Stop,
                      MonitorOnce, TypeOK, Callers
<1>8. CASE Edit \/ UNCHANGED vars
  BY <1>8 DEF Edit, vars, MonitorOnce
<1> QED
  BY <1>1, <1>2, <1>3, <1>4, <1>5, <1>6, <1>7, <1>8 DEF Next

Held == TypeOK /\ MonitorOnce /\ (held => StopHolds)

(* Whoever starts an account the user has stopped may do so. *)
Entitled(s) == held => s \in {"user", "reload"} \cup overtaken

LEMMA BeginStartHolds ==
  ASSUME Held, NEW s \in Starters, NEW a, BeginStart(s, a), Entitled(s), held',
         s \in starting => s \in {"user", "reload"},
         s = "monitor" => phase'["monitor"] = "idle",
         s # "monitor" => phase'["monitor"] = phase["monitor"]
  PROVE  StopHolds'
<1>1. held
  BY DEF BeginStart, Launch, Fail, history
<1>2. CASE Fail(s, a) /\ UNCHANGED starting
  BY <1>1, <1>2 DEF Fail, Without, Held, StopHolds, Entitled
<1>3. CASE Launch(s)
  BY <1>1, <1>3 DEF Launch, Entitled
<1>4. CASE inst' = Without(s) /\ UNCHANGED <<store, manuallyStopped, status, starting, history>>
  BY <1>1, <1>4 DEF Without, Held, StopHolds, history
<1>5. CASE /\ starting' = starting \cup {s}
           /\ UNCHANGED <<inst, store, manuallyStopped, status, history>>
  BY <1>1, <1>5 DEF Held, StopHolds, Entitled, history
<1> QED
  BY <1>2, <1>3, <1>4, <1>5 DEF BeginStart

(* Every start is by somebody entitled to it. *)
LEMMA StartsAreEntitled ==
  ASSUME Held
  PROVE  /\ \A i \in Instances : Restart(i) => ~held
         /\ \A s \in Starters : CheckDone(s) => Entitled(s)
         /\ UserStart => Entitled("user")
         /\ ReloadStarts => Entitled("reload")
         /\ MonitorStarts => Entitled("monitor")
<1>1. ASSUME NEW i \in Instances, Restart(i) PROVE ~held
  BY <1>1 DEF Restart, Waking, Held, StopHolds
<1>2. ASSUME NEW s \in Starters, CheckDone(s) PROVE Entitled(s)
  BY <1>2 DEF CheckDone, Held, StopHolds, Entitled
<1>3. ASSUME MonitorStarts PROVE Entitled("monitor")
  BY <1>3 DEF MonitorStarts, Held, StopHolds, Entitled
<1> QED
  BY <1>1, <1>2, <1>3 DEF Entitled

LEMMA StopHoldsStep ==
  ASSUME Held, [Next]_vars, held'
  PROVE  StopHolds'
<1> USE DEF config, store, marks, status, calls, history
<1>1. ASSUME NEW i \in Instances, InstanceStep(i) PROVE StopHolds'
  <2>1. CASE Restart(i)
    <3>1. ~held
      BY <2>1, StartsAreEntitled
    <3> QED
      BY <2>1, <3>1 DEF Restart, BeginStart, Launch, Fail
  <2>2. CASE Exit(i) \/ BackoffAborted(i) \/ BackoffEnds(i)
    <3>1. held /\ manuallyStopped
      BY <2>2 DEF Exit, BackoffAborted, BackoffEnds, Held, StopHolds
    <3>2. /\ Settle(i) /\ UNCHANGED <<manuallyStopped, starting, phase, overtaken>>
      BY <2>2, <3>1 DEF Exit, BackoffAborted, BackoffEnds
    <3> QED
      BY <3>1, <3>2 DEF Settle, Held, StopHolds, TypeOK
  <2> QED
    BY <1>1, <2>1, <2>2 DEF InstanceStep
<1>2. ASSUME NEW s \in Starters, CheckDone(s) PROVE StopHolds'
  <2>1. CASE Launch(s)
    BY <1>2, <2>1, StartsAreEntitled DEF Launch, Entitled
  <2>2. CASE Fail(s, restartAttempts)
    BY <1>2, <2>2 DEF CheckDone, Fail, Without, Held, StopHolds, MonitorOnce
  <2> QED
    BY <1>2, <2>1, <2>2 DEF CheckDone
<1>3. ASSUME NEW c \in Callers, StopStep(c) PROVE StopHolds'
  <2>1. CASE HookFails(c)
    BY <2>1 DEF HookFails, Held, StopHolds, MonitorOnce, TypeOK, Callers
  <2>2. CASE HookDone(c)
    BY <2>2 DEF HookDone, Held, StopHolds, TypeOK, Callers
  <2>3. CASE StopDone(c)
    BY <2>3 DEF StopDone, Ready, Held, StopHolds, TypeOK, Callers
  <2> QED
    BY <1>3, <2>1, <2>2, <2>3 DEF StopStep
<1>4. CASE UserStart
  BY <1>4, StartsAreEntitled, BeginStartHolds DEF UserStart, Starters, Callers
<1>5. CASE UserStop
  <2>1. CASE Stop("user")
    BY <1>5, <2>1 DEF UserStop, Stop, Held, StopHolds, TypeOK, Callers, Quiet, Waking
  <2>2. CASE UNCHANGED <<aborted, marks, calls, history>>
    BY <1>5, <2>2 DEF UserStop, Held, StopHolds
  <2> QED
    BY <1>5, <2>1, <2>2 DEF UserStop
<1>6. CASE Reload
  BY <1>6 DEF Reload, Stop, Held, StopHolds, TypeOK, Callers
<1>7. CASE ReloadStarts
  <2>1. phase'["monitor"] = phase["monitor"]
    BY <1>7 DEF ReloadStarts, Held, TypeOK, Callers
  <2> QED
    BY <1>7, <2>1, StartsAreEntitled, BeginStartHolds DEF ReloadStarts, Starters, Callers
<1>8. CASE MonitorStarts
  <2>1. phase'["monitor"] = "idle" /\ "monitor" \notin starting
    BY <1>8 DEF MonitorStarts, Held, MonitorOnce, TypeOK, Callers
  <2> QED
    BY <1>8, <2>1, StartsAreEntitled, BeginStartHolds DEF MonitorStarts, Starters, Callers
<1>9. CASE MonitorLooks \/ MonitorSkips \/ MonitorStops
  BY <1>9 DEF MonitorLooks, MonitorSkips, MonitorStops, Held, StopHolds, TypeOK, Callers
<1>10. CASE Edit \/ UNCHANGED vars
  BY <1>10 DEF Edit, vars, Held, StopHolds
<1> QED
  BY <1>1, <1>2, <1>3, <1>4, <1>5, <1>6, <1>7, <1>8, <1>9, <1>10 DEF Next, MonitorActs

-----------------------------------------------------------------------------
LEMMA IInvStep ==
  ASSUME IInv, [Next]_vars
  PROVE  IInv'
<1>1. Heard /\ Held
  BY DEF IInv, Heard, Held
<1>2. TypeOK' /\ Entries' /\ StopsAreHeard' /\ MonitorOnce' /\ (held' => StopHolds')
  BY <1>1, TypeStep, HeardStep, MonitorOnceStep, StopHoldsStep DEF Held, Heard
<1>3. plugin' = plugin
  BY DEF Next, vars, InstanceStep, Exit, BackoffAborted, BackoffEnds, Restart, CheckDone,
         StopStep, HookDone, HookFails, StopDone, UserStart, UserStop, Edit, Reload, ReloadStarts,
         MonitorLooks, MonitorActs, MonitorSkips, MonitorStops, MonitorStarts, config
<1>4. ~plugin.awaits /\ ~plugin.hook => NothingWaits'
  BY <1>1, SerialStep DEF IInv, Serial
<1> QED
  BY <1>2, <1>3, <1>4 DEF IInv

LEMMA IInvHolds == Spec => []IInv
BY IInvInit, IInvStep, PTL DEF Spec

(* Where neither isConfigured nor a stop hook waits, an account has at     *)
(* most one live instance, the one its entries belong to, and the status   *)
(* says whether there is one: OneInstance.                                 *)
THEOREM AtMostOneInstance == Spec => []OneInstance
<1>1. ASSUME IInv PROVE OneInstance
  <2>1. CASE ~plugin.awaits /\ ~plugin.hook
    BY <1>1, <2>1 DEF IInv, Entries, NothingWaits, OneInstance, Live
  <2> QED
    BY <2>1 DEF OneInstance
<1> QED
  BY <1>1, IInvHolds, PTL

(* Every stop call waits for an instance that was told to end, and a       *)
(* status that says running has a live instance behind it, for every kind  *)
(* of plugin: StopsAreHeard.                                               *)
THEOREM EveryStopIsHeard == Spec => []StopsAreHeard
<1>1. IInv => StopsAreHeard
  BY DEF IInv
<1> QED
  BY <1>1, IInvHolds, PTL

(* After a stop by the user nothing but the user, a reload or a start that *)
(* was already under way starts the account: StoppedStaysStopped.          *)
THEOREM StopsAreKept == Spec => StoppedStaysStopped
<1> DEFINE Kept == \A i \in Instances : inst[i] # "live" /\ inst'[i] = "live" => ~held'
<1>1. ASSUME IInv, [Next]_vars PROVE [Kept]_vars
  <2> SUFFICES ASSUME NEW j \in Instances, inst[j] # "live", inst'[j] = "live", held'
               PROVE  FALSE
    OBVIOUS
  <2>1. Held
    BY <1>1 DEF IInv, Held
  <2>2. ASSUME NEW s \in Starters, Launch(s) PROVE ~Entitled(s)
    BY <2>2 DEF Launch, Entitled
  <2>3. ASSUME NEW s, NEW a, Fail(s, a) \/ inst' = Without(s) PROVE FALSE
    BY <2>3 DEF Fail, Without
  <2>4. ASSUME NEW s \in Starters, NEW a, BeginStart(s, a) PROVE ~Entitled(s)
    BY <2>2, <2>3, <2>4 DEF BeginStart
  <2>5. ASSUME NEW i \in Instances, InstanceStep(i) PROVE FALSE
    <3>1. CASE Restart(i)
      BY <2>1, <2>4, <3>1, StartsAreEntitled DEF Restart, Entitled, Starters
    <3>2. inst[j] = inst'[j] \/ inst'[j] \in {"free", "backoff", "restarting"} \/ Restart(i)
      BY <1>1, <2>5 DEF InstanceStep, Exit, BackoffAborted, BackoffEnds, Settle, IInv, TypeOK
    <3> QED
      BY <3>1, <3>2
  <2>6. ASSUME NEW s \in Starters, CheckDone(s) PROVE FALSE
    BY <2>1, <2>2, <2>3, <2>6, StartsAreEntitled DEF CheckDone
  <2>7. ~UserStart /\ ~ReloadStarts /\ ~MonitorStarts
    BY <2>1, <2>4, StartsAreEntitled DEF UserStart, ReloadStarts, MonitorStarts, Starters, Callers
  <2>8. inst' # inst
    OBVIOUS
  <2>9. ASSUME NEW c \in Callers, StopStep(c) PROVE FALSE
    BY <2>8, <2>9 DEF StopStep, HookDone, HookFails, StopDone
  <2> QED
    BY <1>1, <2>5, <2>6, <2>7, <2>8, <2>9
       DEF Next, vars, UserStop, Edit, Reload, MonitorLooks, MonitorActs, MonitorSkips, MonitorStops
<1>2. Spec => [][Kept]_vars
  BY <1>1, IInvHolds, PTL DEF Spec
<1> QED
  BY <1>2 DEF StoppedStaysStopped

-----------------------------------------------------------------------------
(* The lifecycle of the gateway, with names of its own where the channel   *)
(* manager has the same.                                                   *)
CONSTANTS MaxEdits, MaxRequests, MaxPolls, MaxFailures

VARIABLES
  disk, broken, needsRestart, unapplied, lost, firstStart, bootConfig, server, watching,
  restartResolver, closing, timer, polls, reloadPending, currentConfig, debounce, reload, again,
  applying, restartQueued, checking, requests, failures

Lifecycle == INSTANCE GatewayLifecycle WITH restartPending <- reloadPending

(* While a restart closes and waits for the lock, the run loop is in       *)
(* neither of its starting phases; only a failed start leaves it without   *)
(* the lock.                                                               *)
RestartApart ==
  closing \in {"draining", "closed", "locking"} => loop \notin {"reading", "booting"}

LockKept == Lifecycle!Alive /\ ~lock /\ closing # "locking" => startFailed

(* As long as every close succeeds, no server listens from the close to    *)
(* the end of the next start.                                              *)
NoServerBetween ==
  /\ listening => server
  /\ closing \in {"closed", "locking"} => ~listening
  /\ loop \in {"reading", "booting"} => ~listening

HandoverInv ==
  /\ loop = "exited" => ~listening
  /\ ~bootRestart => /\ RestartApart /\ LockKept
                     /\ ~closeFailed => NoServerBetween

LEMMA HandoverInvInit == Lifecycle!Init => HandoverInv
BY DEF Lifecycle!Init, HandoverInv, RestartApart, NoServerBetween, LockKept, Lifecycle!Alive

(* A restart that is emitted while a server starts is remembered. *)
LEMMA EmitKeeps ==
  ASSUME HandoverInv, Lifecycle!Alive, Lifecycle!Emit, UNCHANGED <<Lifecycle!run, lock>>
  PROVE  HandoverInv'
BY DEF HandoverInv, RestartApart, NoServerBetween, LockKept, Lifecycle!Alive, Lifecycle!Emit, Lifecycle!run

(* What neither the run loop nor an emission touches. *)
LEMMA OthersKeep ==
  ASSUME HandoverInv, UNCHANGED <<Lifecycle!run, lock, closing, bootRestart>>
  PROVE  HandoverInv'
BY DEF HandoverInv, RestartApart, NoServerBetween, LockKept, Lifecycle!Alive, Lifecycle!run

LEMMA RunLoopKeeps ==
  ASSUME HandoverInv,
         Lifecycle!ReadConfig \/ Lifecycle!StartDone \/ Lifecycle!StartFails
               \/ Lifecycle!CloseServer \/ Lifecycle!CloseFails \/ Lifecycle!Quit \/ Lifecycle!Respawn
               \/ Lifecycle!ReleaseLock \/ Lifecycle!ReacquireLock
  PROVE  HandoverInv'
<1> USE DEF HandoverInv, RestartApart, NoServerBetween, LockKept, Lifecycle!Alive
<1>1. CASE Lifecycle!ReadConfig
  BY <1>1 DEF Lifecycle!ReadConfig
<1>2. CASE Lifecycle!StartDone
  BY <1>2 DEF Lifecycle!StartDone
<1>3. CASE Lifecycle!StartFails
  BY <1>3 DEF Lifecycle!StartFails, Lifecycle!Exit
<1>4. CASE Lifecycle!CloseServer
  BY <1>4 DEF Lifecycle!CloseServer
<1>9. CASE Lifecycle!CloseFails
  BY <1>9 DEF Lifecycle!CloseFails
<1>5. CASE Lifecycle!Quit
  BY <1>5 DEF Lifecycle!Quit, Lifecycle!Exit
<1>6. CASE Lifecycle!Respawn
  BY <1>6 DEF Lifecycle!Respawn
<1>7. CASE Lifecycle!ReleaseLock
  BY <1>7 DEF Lifecycle!ReleaseLock, Lifecycle!NextIteration, Lifecycle!run
<1>8. CASE Lifecycle!ReacquireLock
  BY <1>8 DEF Lifecycle!ReacquireLock, Lifecycle!NextIteration, Lifecycle!Exit
<1> QED
  BY <1>1, <1>2, <1>3, <1>4, <1>5, <1>6, <1>7, <1>8, <1>9

LEMMA HandoverInvStep ==
  ASSUME HandoverInv, [Lifecycle!Next]_(Lifecycle!vars)
  PROVE  HandoverInv'
<1>1. CASE Lifecycle!Edit
  BY <1>1, OthersKeep DEF Lifecycle!Edit
<1>2. CASE Lifecycle!Schedule
  BY <1>2, OthersKeep DEF Lifecycle!Schedule
<1>3. CASE Lifecycle!Terminate
  BY <1>3 DEF Lifecycle!Terminate, Lifecycle!run, Lifecycle!Alive,
              HandoverInv, RestartApart, NoServerBetween, LockKept
<1>4. CASE Lifecycle!TimerFires
  <2>1. CASE Lifecycle!Emit
    BY <1>4, <2>1, EmitKeeps DEF Lifecycle!TimerFires
  <2>2. CASE UNCHANGED <<closing, bootRestart>>
    BY <1>4, <2>2, OthersKeep DEF Lifecycle!TimerFires
  <2> QED
    BY <1>4, <2>1, <2>2 DEF Lifecycle!TimerFires
<1>5. CASE Lifecycle!PollEnds
  BY <1>5, EmitKeeps DEF Lifecycle!PollEnds
<1>6. CASE Lifecycle!HandlerPollEnds
  BY <1>6, EmitKeeps DEF Lifecycle!HandlerPollEnds
<1>7. CASE Lifecycle!DebounceFires \/ Lifecycle!ApplySnapshot \/ Lifecycle!HotReloadDone
  BY <1>7, OthersKeep DEF Lifecycle!DebounceFires, Lifecycle!ApplySnapshot, Lifecycle!HotReloadDone
<1>8. CASE Lifecycle!RestartCheckDone
  <2>1. CASE Lifecycle!Emit
    BY <1>8, <2>1, EmitKeeps DEF Lifecycle!RestartCheckDone
  <2>2. CASE UNCHANGED <<closing, bootRestart>>
    BY <1>8, <2>2, OthersKeep DEF Lifecycle!RestartCheckDone
  <2> QED
    BY <1>8, <2>1, <2>2 DEF Lifecycle!RestartCheckDone
<1>9. CASE UNCHANGED Lifecycle!vars
  BY <1>9, OthersKeep DEF Lifecycle!vars
<1> QED
  BY <1>1, <1>2, <1>3, <1>4, <1>5, <1>6, <1>7, <1>8, <1>9, RunLoopKeeps
     DEF Lifecycle!Next, Lifecycle!SystemStep

(* A restart in the same process has the lock again before it starts the   *)
(* next server, also when server.close threw; unless it did, the old       *)
(* server is closed by then.  However many edits, requests, polls and      *)
(* failures there are: CleanHandover.                                      *)
THEOREM HandoverIsClean == Lifecycle!Spec => []CleanHandover
<1>1. HandoverInv => CleanHandover
  BY DEF HandoverInv, RestartApart, NoServerBetween, LockKept, CleanHandover, Lifecycle!Alive
<1> QED
  BY <1>1, HandoverInvInit, HandoverInvStep, PTL DEF Lifecycle!Spec
=============================================================================
