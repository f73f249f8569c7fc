----------------------- MODULE SubagentRegistryProofs -----------------------
(***************************************************************************)
(* The announcements of background runs in SubagentRegistry: a result is   *)
(* delivered at most once, and not before those of the runs it waits for,  *)
(* for any number of sessions, runs, retries and disturbances.             *)
(***************************************************************************)
EXTENDS SubagentRegistry, TLAPS

-----------------------------------------------------------------------------
(* The inductive invariant. *)

(* The gateway has accepted the run, and it was registered, or a crash came *)
(* before that.                                                            *)
Started(r) == r \notin spawning /\ r[2] <= dispatched[r[1]]

(* Where the announce flow of a run may still deliver or retry. *)
Working == {"settling", "waking", "delivering", "failed"}

(* A record, in memory or on disk, of a run whose flow is at f and that    *)
(* was announced a times: a flow holds cleanupHandled, which is given back *)
(* before the result is delivered or not at all; a kill closes the record  *)
(* for the flow, and a completion opens it again only if nothing has been  *)
(* announced.                                                              *)
RecordOK(rec, f, a, excused) ==
  /\ f # "none" => rec.ended /\ rec.handled /\ rec.suppress # "killed"
  /\ f \in Working => ~rec.done /\ rec.retries < MaxAnnounceRetries
  /\ a > 0 => rec.ended /\ rec.suppress # "killed" /\ (rec.handled \/ rec.done)
  /\ rec.suppress = "killed" => rec.handled /\ rec.done /\ excused
  /\ rec.done => rec.ended
  /\ ~rec.ended \/ ~rec.handled \/ rec.suppress = "killed" => rec.retries < MaxAnnounceRetries

RecordsOK(m) ==
  \A r \in DOMAIN m : Started(r) /\ RecordOK(m[r], flow[r], announced[r], r \in exempt)

(* Only runs with a record are waited for, retried and completed. *)
CallbacksOK ==
  /\ waiting \subseteq DOMAIN subagentRuns /\ timers \subseteq DOMAIN subagentRuns
  /\ \A c \in completing : c[1] \in DOMAIN subagentRuns /\ subagentRuns[c[1]].ended

(* Nothing has happened to a run that was not registered. *)
FreshOK ==
  /\ \A r \in spawning : r[2] <= dispatched[r[1]]
  /\ \A r \in Runs : ~Started(r) => flow[r] = "none" /\ announced[r] = 0

OnceOK ==
  \A r \in Runs : announced[r] > 0 => announced[r] = 1 /\ flow[r] \in {"none", "finishing"}

(* The run that is steered is closed to the announce flow and is not done. *)
Steered(rec, f) ==
  /\ rec.suppress = "steer-restart" /\ f = "none" /\ ~rec.done
  /\ rec.retries < MaxAnnounceRetries

SteerOK ==
  \A s \in Sessions : steer[s] # NoRun =>
    /\ Started(steer[s])
    /\ steer[s] \in DOMAIN subagentRuns \ exempt =>
         Steered(subagentRuns[steer[s]], flow[steer[s]])

SteerOfSession == \A s \in Sessions : steer[s] # NoRun => steer[s][1] = s

OfRequester == \A s \in Sessions : spawnedBy[s] # NoRun => spawnedBy[s][1] = Requester[s]

(* The session of run q was spawned by run r or an earlier one of its session. *)
Tells(q, r) ==
  spawnedBy[q[1]] # NoRun /\ spawnedBy[q[1]][1] = r[1] /\ spawnedBy[q[1]][2] <= r[2]

(* From the moment a flow has found no pending descendant, none appears. *)
Settled(r) ==
  /\ Started(r) /\ ~Alive(r)
  /\ \A q \in DOMAIN subagentRuns \ exempt :
       Tells(q, r) => subagentRuns[q].ended /\ subagentRuns[q].done

WaitedFor == \A r \in Runs : flow[r] \in {"waking", "delivering"} => Settled(r)

Places == {"none", "settling", "waking", "delivering", "failed", "finishing", "givingUp"}

Records(m) == DOMAIN m \subseteq Runs /\ \A r \in DOMAIN m : m[r] \in Record

(* TypeOK but for the records and what CallbacksOK says. *)
RestOK ==
  /\ gone \subseteq Sessions /\ dispatched \in [Sessions -> Nat]
  /\ agent \in [Runs -> {"none", "running", "erred", "failed", "over"}]
  /\ spawnedBy \in [Sessions -> Runs \cup {NoRun}]
  /\ spawning \subseteq Runs /\ grace \subseteq Runs /\ killing \subseteq Runs
  /\ lost \subseteq Runs /\ exempt \subseteq Runs
  /\ completing \subseteq Runs \X {"event", "error", "wait"}
  /\ flow \in [Runs -> Places] /\ steer \in [Sessions -> Runs \cup {NoRun}]
  /\ announced \in [Runs -> Nat]

IInv ==
  /\ Records(subagentRuns) /\ Records(disk) /\ RestOK
  /\ RecordsOK(subagentRuns) /\ RecordsOK(disk) /\ CallbacksOK /\ FreshOK
  /\ OnceOK /\ SteerOK /\ SteerOfSession /\ OfRequester /\ WaitedFor

LEMMA IInvTypes == IInv => TypeOK
<1> SUFFICES ASSUME IInv PROVE TypeOK
  OBVIOUS
<1>1. waiting \subseteq Runs /\ timers \subseteq Runs
  BY DEF IInv, CallbacksOK, Records
<1>2. UNION {spawning, grace, waiting, timers, killing, lost, exempt} \subseteq Runs
  BY <1>1 DEF IInv, RestOK
<1> QED
  BY <1>2 DEF IInv, RestOK, Records, TypeOK, Places

-----------------------------------------------------------------------------
(* Runs, records and maps of records. *)

LEMMA RunFacts ==
  /\ \A r \in Runs : r[1] \in Sessions /\ r[2] \in Nat /\ r[2] > 0
  /\ \A r, q \in Runs : r[1] = q[1] /\ r[2] = q[2] => r = q
  /\ NoRun \notin Runs
BY SubagentAssumption DEF Runs

LEMMA DispatchFacts ==
  ASSUME RestOK, NEW s \in Sessions, NEW n \in Runs, Dispatch(s, n)
  PROVE  /\ n[1] = s /\ n[2] = dispatched[s] + 1 /\ dispatched[s] \in Nat
         /\ dispatched' \in [Sessions -> Nat] /\ dispatched'[s] = n[2]
         /\ \A t \in Sessions : dispatched[t] <= dispatched'[t]
         /\ \A r \in Runs \ {n} : agent'[r] = agent[r]
         /\ agent'[n] = "running"
         /\ agent' \in [Runs -> {"none", "running", "erred", "failed", "over"}]
         /\ gone' \subseteq Sessions
BY DEF Dispatch, RestOK

LEMMA FreshFacts ==
  ASSUME NEW w \in BOOLEAN, NEW excused
  PROVE  /\ Fresh(w) \in Record /\ ~Fresh(w).ended /\ ~Fresh(w).done
         /\ RecordOK(Fresh(w), "none", 0, excused)
BY SubagentAssumption DEF Fresh, Record, RecordOK, Working

LEMMA WithoutFacts ==
  ASSUME NEW m, NEW S
  PROVE  /\ DOMAIN Without(m, S) = DOMAIN m \ S
         /\ \A q \in DOMAIN m \ S : Without(m, S)[q] = m[q]
BY DEF Without

(* completeSubagentRun on one record. *)
CompletedRecord(rec, complete) ==
  LET revived == complete /\ rec.suppress = "killed" /\ (rec.handled \/ rec.done)
  IN [rec EXCEPT !.ended = TRUE, !.complete = complete,
                 !.suppress = IF revived THEN "no" ELSE @,
                 !.handled = @ /\ ~revived, !.done = @ /\ ~revived]

LEMMA CompletedFacts ==
  ASSUME NEW r, NEW c \in BOOLEAN,
         \A q \in DOMAIN subagentRuns : subagentRuns[q] \in Record
  PROVE  /\ DOMAIN Completed(r, c) = DOMAIN subagentRuns
         /\ \A q \in DOMAIN subagentRuns :
              Completed(r, c)[q] = IF q = r THEN CompletedRecord(subagentRuns[r], c)
                                   ELSE subagentRuns[q]
BY DEF Completed, CompletedRecord, Record

LEMMA CompletedRecordFacts ==
  ASSUME NEW rec \in Record, NEW c \in BOOLEAN, NEW f, NEW a \in Nat, NEW excused,
         RecordOK(rec, f, a, excused)
  PROVE  /\ CompletedRecord(rec, c) \in Record /\ CompletedRecord(rec, c).ended
         /\ RecordOK(CompletedRecord(rec, c), f, a, excused)
         /\ CompletedRecord(rec, c).retries = rec.retries
         /\ rec.suppress # "killed" =>
              /\ CompletedRecord(rec, c).suppress = rec.suppress
              /\ CompletedRecord(rec, c).done = rec.done
<1> DEFINE new == CompletedRecord(rec, c)
           revived == c /\ rec.suppress = "killed" /\ (rec.handled \/ rec.done)
<1>1. new = [rec EXCEPT !.ended = TRUE, !.complete = c,
                        !.suppress = IF revived THEN "no" ELSE @,
                        !.handled = @ /\ ~revived, !.done = @ /\ ~revived]
  BY DEF CompletedRecord
<1>2. revived \in BOOLEAN /\ (revived => rec.suppress = "killed")
  OBVIOUS
<1> HIDE DEF new, revived
<1>3. /\ new.ended /\ new.retries = rec.retries
      /\ new.suppress = IF revived THEN "no" ELSE rec.suppress
      /\ new.handled = (rec.handled /\ ~revived) /\ new.done = (rec.done /\ ~revived)
      /\ rec.handled \in BOOLEAN /\ rec.done \in BOOLEAN
  BY <1>1, <1>2 DEF Record
<1>4. new \in Record
  <2> DEFINE p == IF revived THEN "no" ELSE rec.suppress
             h == rec.handled /\ ~revived
             d == rec.done /\ ~revived
  <2>1. p \in {"no", "steer-restart", "killed"} /\ h \in BOOLEAN /\ d \in BOOLEAN
    BY DEF Record
  <2>2. new = [rec EXCEPT !.ended = TRUE, !.complete = c, !.suppress = p, !.handled = h, !.done = d]
    BY <1>1
  <2> HIDE DEF p, h, d
  <2> QED
    BY <2>1, <2>2 DEF Record
<1>5. CASE revived
  <2>1. new.suppress = "no" /\ ~new.handled /\ ~new.done /\ rec.suppress = "killed"
    BY <1>2, <1>3, <1>5
  <2>2. f = "none" /\ ~(a > 0) /\ rec.retries < MaxAnnounceRetries
    BY <2>1 DEF RecordOK
  <2>3. RecordOK(new, f, a, excused)
    BY <1>3, <2>1, <2>2 DEF RecordOK, Working
  <2> QED
    BY <1>3, <1>4, <2>1, <2>3 DEF new
<1>6. CASE ~revived
  <2>1. new.suppress = rec.suppress /\ new.handled = rec.handled /\ new.done = rec.done
    BY <1>3, <1>6
  <2>2. RecordOK(new, f, a, excused)
    BY <1>3, <2>1 DEF RecordOK
  <2> QED
    BY <1>3, <1>4, <2>1, <2>2 DEF new
<1> QED
  BY <1>5, <1>6

-----------------------------------------------------------------------------
(* resumeSubagentRun. *)

(* What becomes of the record old, with its flow at f, of a run q that may *)
(* be resumed: nothing, it is given up, or it is announced.                *)
Unmoved(old, new, f, g) == new = old /\ g = f

GivenUp(old, new, f, g) ==
  /\ new = [old EXCEPT !.done = TRUE] /\ g = f
  /\ ~old.done /\ old.retries >= MaxAnnounceRetries

AnnounceStarts(old, new, g) ==
  /\ new = [old EXCEPT !.handled = TRUE] /\ g = "settling"
  /\ old.ended /\ ~old.handled /\ ~old.done /\ old.retries < MaxAnnounceRetries
  /\ old.suppress # "steer-restart"

Resumed(old, new, f, g) ==
  Unmoved(old, new, f, g) \/ GivenUp(old, new, f, g) \/ AnnounceStarts(old, new, g)

LEMMA ResumeFacts ==
  ASSUME NEW m, NEW f \in [Runs -> Places], NEW t, NEW w, NEW S \in SUBSET DOMAIN m,
         NEW early \in SUBSET S, Records(m), Resume(m, f, t, w, S, early)
  PROVE  /\ DOMAIN subagentRuns' \subseteq DOMAIN m
         /\ \A q \in DOMAIN subagentRuns' : Resumed(m[q], subagentRuns'[q], f[q], flow'[q])
         /\ \A q \in DOMAIN subagentRuns' \ S : Unmoved(m[q], subagentRuns'[q], f[q], flow'[q])
         /\ \A q \in Runs \ DOMAIN subagentRuns' : flow'[q] = f[q]
         /\ flow' \in [Runs -> Places]
         /\ t \subseteq DOMAIN m => timers' \subseteq DOMAIN subagentRuns'
         /\ waiting' \subseteq DOMAIN subagentRuns'
<1> DEFINE orphans == {q \in S : q[1] \in gone}
           spent   == {q \in S \ orphans : ~m[q].done /\ m[q].retries >= MaxAnnounceRetries}
           late    == early \ (orphans \cup spent)
           open    == {q \in S \ (orphans \cup spent \cup late) : ~m[q].done}
           ready   == {q \in open : /\ m[q].ended /\ ~m[q].handled
                                    /\ m[q].suppress # "steer-restart"}
<1>1. /\ subagentRuns' = [q \in DOMAIN m \ orphans |->
           [m[q] EXCEPT !.done = @ \/ q \in spent, !.handled = @ \/ q \in ready]]
      /\ flow' = [q \in Runs |-> IF q \in ready THEN "settling" ELSE f[q]]
      /\ timers' = (t \ orphans) \cup late
      /\ waiting' = {q \in w : ~Closed(subagentRuns', q)} \cup {q \in open : ~m[q].ended}
  BY Zenon DEF Resume
<1>2. /\ \A q \in spent : q \in S /\ ~m[q].done /\ m[q].retries >= MaxAnnounceRetries
      /\ \A q \in ready : /\ q \in S \ (orphans \cup spent)
                          /\ m[q].ended /\ ~m[q].handled /\ ~m[q].done
                          /\ m[q].suppress # "steer-restart"
                          /\ ~(m[q].retries >= MaxAnnounceRetries)
      /\ orphans \subseteq S /\ ready \subseteq DOMAIN m \ orphans
      /\ open \subseteq DOMAIN m \ orphans /\ late \subseteq DOMAIN m \ orphans
  OBVIOUS
<1> HIDE DEF orphans, spent, late, open, ready
<1>3. \A q \in DOMAIN m : m[q] \in Record /\ m[q].retries \in Nat /\ q \in Runs
  BY SubagentAssumption DEF Records, Record
<1>4. ASSUME NEW q \in DOMAIN m \ orphans
      PROVE  /\ Resumed(m[q], subagentRuns'[q], f[q], flow'[q])
             /\ q \notin S => Unmoved(m[q], subagentRuns'[q], f[q], flow'[q])
  <2> DEFINE old == m[q]
             new == subagentRuns'[q]
  <2>1. /\ new = [old EXCEPT !.done = @ \/ q \in spent, !.handled = @ \/ q \in ready]
        /\ flow'[q] = IF q \in ready THEN "settling" ELSE f[q]
        /\ old \in Record
    BY <1>1, <1>3
  <2>2. CASE q \in ready
    <3>1. q \in S /\ q \notin spent /\ old.retries < MaxAnnounceRetries
      BY <1>2, <1>3, <2>2, SubagentAssumption
    <3>2. old.ended /\ ~old.handled /\ ~old.done /\ old.suppress # "steer-restart"
      BY <1>2, <2>2
    <3> HIDE DEF old, new
    <3>3. AnnounceStarts(old, new, flow'[q])
      BY <2>1, <2>2, <3>1, <3>2 DEF AnnounceStarts, Record
    <3> QED
      BY <3>1, <3>3 DEF Resumed, old, new
  <2>3. CASE q \notin ready /\ q \in spent
    <3>1. q \in S /\ ~old.done /\ old.retries >= MaxAnnounceRetries
      BY <1>2, <2>3
    <3> HIDE DEF old, new
    <3>2. GivenUp(old, new, f[q], flow'[q])
      BY <2>1, <2>3, <3>1 DEF GivenUp, Record
    <3> QED
      BY <3>1, <3>2 DEF Resumed, old, new
  <2>4. CASE q \notin ready /\ q \notin spent
    <3> HIDE DEF old, new
    <3>1. new = [old EXCEPT !.done = @ \/ FALSE, !.handled = @ \/ FALSE] /\ flow'[q] = f[q]
      BY <2>1, <2>4
    <3>2. [old EXCEPT !.done = old.done, !.handled = old.handled] = old
      BY <2>1 DEF Record
    <3>3. (old.done \/ FALSE) = old.done /\ (old.handled \/ FALSE) = old.handled
      BY <2>1 DEF Record
    <3>4. Unmoved(old, new, f[q], flow'[q])
      BY <3>1, <3>2, <3>3 DEF Unmoved
    <3> QED
      BY <3>4 DEF Resumed, old, new
  <2> QED
    BY <2>2, <2>3, <2>4
<1>5. DOMAIN subagentRuns' = DOMAIN m \ orphans
  BY <1>1
<1>6. \A q \in Runs \ DOMAIN subagentRuns' : flow'[q] = f[q]
  BY <1>1, <1>2, <1>5
<1>7. flow' \in [Runs -> Places]
  BY <1>1 DEF Places
<1>8. waiting' \subseteq DOMAIN subagentRuns'
  BY <1>1, <1>2, <1>5 DEF Closed
<1>9. t \subseteq DOMAIN m => timers' \subseteq DOMAIN subagentRuns'
  BY <1>1, <1>2, <1>5
<1> QED
  BY <1>4, <1>5, <1>6, <1>7, <1>8, <1>9

-----------------------------------------------------------------------------
(* What every step does to the runs that have started. *)

(* No run is dispatched, none is taken back, and none comes to life.       *)
Quiet ==
  /\ UNCHANGED dispatched /\ spawning' \subseteq spawning
  /\ \A r \in Runs : Alive(r)' => Alive(r)

Dispatches ==
  \E s \in Sessions, n \in Runs : Dispatch(s, n) /\ spawning' \subseteq spawning \cup {n}

LEMMA QuietAgents ==
  ASSUME agent \in [Runs -> {"none", "running", "erred", "failed", "over"}],
         UNCHANGED dispatched, spawning' \subseteq spawning,
         \/ UNCHANGED agent
         \/ \E r \in Runs : agent[r] \in {"running", "erred"}
                            /\ \E a : agent' = [agent EXCEPT ![r] = a]
         \/ agent' = [r \in Runs |-> IF Alive(r) THEN "over" ELSE agent[r]]
  PROVE  Quiet
BY DEF Quiet, Alive

LEMMA StartSteps ==
  ASSUME IInv, Next
  PROVE  Quiet \/ Dispatches
<1>1. agent \in [Runs -> {"none", "running", "erred", "failed", "over"}]
  BY DEF IInv, RestOK
<1>2. CASE \E s \in Sessions : Spawn(s)
  BY <1>2 DEF Spawn, Dispatches
<1>3. ASSUME NEW q \in Runs, Register(q) \/ RunStep(q) \/ FlowStep(q) \/ ResumeTimer(q)
                             \/ ControlStep(q)
      PROVE  Quiet \/ Dispatches
  <2>1. q[1] \in Sessions
    BY RunFacts
  <2>2. CASE Register(q)
    BY <1>1, <2>2, QuietAgents DEF Register
  <2>3. CASE RunStep(q)
    <3>1. UNCHANGED <<dispatched, spawning>>
      BY <2>3 DEF RunStep, AgentEnds, AgentErrs, AgentRetries, AgentGivesUp, GraceFires,
                  WaitAnswers, WaitFails, CompleteEnds, agents
    <3>2. \/ UNCHANGED agent
          \/ agent[q] \in {"running", "erred"} /\ \E a : agent' = [agent EXCEPT ![q] = a]
      BY <2>3 DEF RunStep, AgentEnds, AgentErrs, AgentRetries, AgentGivesUp, GraceFires,
                  WaitAnswers, WaitFails, CompleteEnds, agents
    <3> QED
      BY <1>1, <3>1, <3>2, QuietAgents
  <2>4. CASE FlowWakes(q)
    <3>1. CASE \E n \in Runs : Dispatch(q[1], n)
      BY <2>1, <2>4, <3>1 DEF FlowWakes, Dispatches
    <3>2. CASE UNCHANGED <<dispatched, agent>>
      BY <1>1, <2>4, <3>2, QuietAgents DEF FlowWakes
    <3> QED
      BY <2>4, <3>1, <3>2 DEF FlowWakes
  <2>5. CASE FlowStep(q) /\ ~FlowWakes(q)
    BY <1>1, <2>5, QuietAgents
       DEF FlowStep, FlowSettles, FlowDelivers, FlowFails, FlowFinishes, FlowExpires, agents
  <2>6. CASE ResumeTimer(q)
    BY <1>1, <2>6, QuietAgents DEF ResumeTimer, agents
  <2>7. CASE SteerSends(q)
    BY <2>1, <2>7 DEF SteerSends, Dispatches
  <2>8. CASE ControlStep(q) /\ ~SteerSends(q)
    BY <1>1, <2>8, QuietAgents
       DEF ControlStep, SteerMarks, SteerFails, KillAborts, KillMarks, Sweep, agents
  <2> QED
    BY <1>3, <2>2, <2>3, <2>4, <2>5, <2>6, <2>7, <2>8
<1>4. CASE Crash
  BY <1>1, <1>4, QuietAgents DEF Crash
<1> QED
  BY <1>2, <1>3, <1>4 DEF Next

LEMMA StartedStays ==
  ASSUME IInv, Next, NEW r \in Runs, Started(r)
  PROVE  Started(r)' /\ (Alive(r)' => Alive(r))
<1>1. r[1] \in Sessions /\ r[2] \in Nat /\ r \notin spawning /\ r[2] <= dispatched[r[1]]
  BY RunFacts DEF Started
<1>2. RestOK /\ dispatched[r[1]] \in Nat
  BY <1>1 DEF IInv, RestOK
<1>3. CASE Quiet
  BY <1>1, <1>3 DEF Started, Quiet
<1>4. ASSUME NEW s \in Sessions, NEW n \in Runs, Dispatch(s, n), spawning' \subseteq spawning \cup {n}
      PROVE  Started(r)' /\ (Alive(r)' => Alive(r))
  <2>1. /\ n[1] = s /\ n[2] = dispatched[s] + 1 /\ dispatched[s] \in Nat
        /\ dispatched[r[1]] <= dispatched'[r[1]] /\ dispatched'[r[1]] \in Nat
        /\ r # n => agent'[r] = agent[r]
    BY <1>1, <1>2, <1>4, DispatchFacts
  <2>2. r # n
    BY <1>1, <2>1
  <2> QED
    BY <1>1, <1>2, <1>4, <2>1, <2>2 DEF Started, Alive
<1> QED
  BY <1>3, <1>4, StartSteps DEF Dispatches

(* The numbers of the runs that wait for registration. *)
LEMMA SpawningStays ==
  ASSUME IInv, Next
  PROVE  \A r \in spawning' : r[2] <= dispatched'[r[1]]
<1>1. RestOK /\ \A r \in spawning : r[2] <= dispatched[r[1]] /\ r \in Runs
  BY DEF IInv, FreshOK, RestOK
<1>2. CASE Quiet
  BY <1>1, <1>2 DEF Quiet
<1>3. ASSUME NEW s \in Sessions, NEW n \in Runs, Dispatch(s, n),
             NEW r \in spawning', r \in spawning \cup {n}
      PROVE  r[2] <= dispatched'[r[1]]
  <2>1. r[1] \in Sessions /\ r[2] \in Nat /\ r[2] > 0
    BY <1>1, <1>3, RunFacts
  <2>2. /\ dispatched'[n[1]] = n[2] /\ dispatched[r[1]] <= dispatched'[r[1]]
        /\ dispatched[r[1]] \in Nat /\ dispatched'[r[1]] \in Nat
    BY <1>1, <1>3, <2>1, DispatchFacts DEF RestOK
  <2> QED
    BY <1>1, <1>3, <2>1, <2>2
<1> QED
  BY <1>2, <1>3, StartSteps DEF Dispatches

(* Only a spawn sets by which run a session was spawned. *)
SpawnSets(s) ==
  /\ Spawn(s)
  /\ LET by == IF Requester[s] = Main THEN NoRun ELSE Current(Requester[s])
     IN by \in Runs \cup {NoRun} /\ spawnedBy' = [spawnedBy EXCEPT ![s] = by]

LEMMA SpawnersStay ==
  ASSUME Next
  PROVE  UNCHANGED spawnedBy \/ \E s \in Sessions : SpawnSets(s)
<1>1. ASSUME NEW s \in Sessions, Spawn(s) PROVE SpawnSets(s)
  BY <1>1 DEF Spawn, SpawnSets
<1>2. ASSUME NEW q \in Runs, Register(q) \/ RunStep(q) \/ FlowStep(q) \/ ResumeTimer(q)
      PROVE  UNCHANGED spawnedBy
  BY <1>2 DEF Register, RunStep, AgentEnds, AgentErrs, AgentRetries, AgentGivesUp, GraceFires,
              WaitAnswers, WaitFails, CompleteEnds, FlowStep, FlowSettles, FlowWakes,
              FlowDelivers, FlowFails, FlowFinishes, FlowExpires, ResumeTimer, agents
<1>3. ASSUME NEW q \in Runs, ControlStep(q) PROVE UNCHANGED spawnedBy
  BY <1>3 DEF ControlStep, SteerMarks, SteerSends, SteerFails, KillAborts, KillMarks, Sweep,
              agents
<1>4. CASE Crash
  BY <1>4 DEF Crash
<1> QED
  BY <1>1, <1>2, <1>3, <1>4 DEF Next

LEMMA OfRequesterStays ==
  ASSUME IInv, Next
  PROVE  OfRequester' /\ spawnedBy' \in [Sessions -> Runs \cup {NoRun}]
<1>1. OfRequester /\ spawnedBy \in [Sessions -> Runs \cup {NoRun}]
  BY DEF IInv, RestOK
<1>2. CASE UNCHANGED spawnedBy
  BY <1>1, <1>2 DEF OfRequester
<1>3. ASSUME NEW s \in Sessions, SpawnSets(s)
      PROVE  OfRequester' /\ spawnedBy' \in [Sessions -> Runs \cup {NoRun}]
  <2> DEFINE by == IF Requester[s] = Main THEN NoRun ELSE Current(Requester[s])
  <2>1. by \in Runs \cup {NoRun} /\ spawnedBy' = [spawnedBy EXCEPT ![s] = by]
    BY <1>3 DEF SpawnSets
  <2>2. by # NoRun => by[1] = Requester[s]
    BY DEF Current
  <2> HIDE DEF by
  <2> QED
    BY <1>1, <2>1, <2>2 DEF OfRequester
<1> QED
  BY <1>2, <1>3, SpawnersStay

(* Only a steer that begins sets the run that is steered. *)
LEMMA SteerOfSessionStays ==
  ASSUME IInv, Next
  PROVE  SteerOfSession'
<1>1. SteerOfSession
  BY DEF IInv
<1>2. CASE UNCHANGED steer
  BY <1>1, <1>2 DEF SteerOfSession
<1>3. ASSUME NEW r \in Runs, SteerMarks(r) \/ SteerSends(r) \/ SteerFails(r)
      PROVE  SteerOfSession'
  <2>1. PICK v \in {NoRun, r} : steer' = [steer EXCEPT ![r[1]] = v]
    BY <1>3 DEF SteerMarks, SteerSends, SteerFails
  <2>2. \A s \in Sessions : steer'[s] # NoRun => steer'[s] = steer[s] \/ (s = r[1] /\ steer'[s] = r)
    BY <2>1, RunFacts DEF IInv, RestOK
  <2> QED
    BY <1>1, <2>2 DEF SteerOfSession
<1>4. CASE Crash
  BY <1>4 DEF Crash, SteerOfSession
<1>5. ASSUME NEW q \in Runs, Register(q) \/ RunStep(q) \/ FlowStep(q) \/ ResumeTimer(q)
      PROVE  UNCHANGED steer
  BY <1>5 DEF Register, RunStep, AgentEnds, AgentErrs, AgentRetries, AgentGivesUp, GraceFires,
              WaitAnswers, WaitFails, CompleteEnds, FlowStep, FlowSettles, FlowWakes,
              FlowDelivers, FlowFails, FlowFinishes, FlowExpires, ResumeTimer, control
<1>6. ASSUME NEW q \in Runs, KillAborts(q) \/ KillMarks(q) \/ Sweep(q)
      PROVE  UNCHANGED steer
  BY <1>6 DEF KillAborts, KillMarks, Sweep, control
<1>7. ASSUME NEW s \in Sessions, Spawn(s) PROVE UNCHANGED steer
  BY <1>7 DEF Spawn, control
<1> QED
  BY <1>2, <1>3, <1>4, <1>5, <1>6, <1>7 DEF Next, ControlStep

-----------------------------------------------------------------------------
(* The types of the rest. *)

LEMMA ResumePlaces ==
  ASSUME NEW m, NEW f \in [Runs -> Places], NEW t, NEW w, NEW S, NEW early,
         Resume(m, f, t, w, S, early)
  PROVE  flow' \in [Runs -> Places]
BY DEF Resume, Places

LEMMA MovePlaces ==
  ASSUME NEW r, NEW g \in Places, flow \in [Runs -> Places], MoveTo(r, g)
  PROVE  flow' \in [Runs -> Places]
BY DEF MoveTo

LEMMA RestStays ==
  ASSUME IInv, Next
  PROVE  RestOK'
<1>1. RestOK /\ spawnedBy' \in [Sessions -> Runs \cup {NoRun}]
  BY OfRequesterStays DEF IInv
<1>2. \A r \in Runs : r[1] \in Sessions
  BY RunFacts
<1>3. CASE \E s \in Sessions : Spawn(s)
  BY <1>1, <1>3, DispatchFacts
     DEF Spawn, RestOK, records, callbacks, control, history
<1>4. ASSUME NEW q \in Runs, Register(q) \/ RunStep(q) PROVE RestOK'
  <2>1. CASE Register(q)
    BY <1>1, <2>1 DEF Register, RestOK, control
  <2>2. CASE AgentErrs(q) \/ AgentRetries(q) \/ AgentGivesUp(q)
    BY <1>1, <2>2 DEF AgentErrs, AgentRetries, AgentGivesUp, RestOK, control, history, callbacks
  <2>3. CASE AgentEnds(q) \/ GraceFires(q) \/ WaitAnswers(q)
    <3>1. \A e \in {"event", "error", "wait"} : <<q, e>> \in Runs \X {"event", "error", "wait"}
      OBVIOUS
    <3>2. /\ completing' \subseteq Runs \X {"event", "error", "wait"}
          /\ grace' \subseteq grace
      <4>1. CASE AgentEnds(q)
        BY <1>1, <3>1, <4>1 DEF AgentEnds, RestOK
      <4>2. CASE GraceFires(q)
        BY <1>1, <3>1, <4>2 DEF GraceFires, RestOK
      <4>3. CASE WaitAnswers(q)
        <5>1. completing' = completing \cup {<<q, "wait">>} /\ grace' = grace \ {q}
          BY <4>3 DEF WaitAnswers
        <5> QED
          BY <1>1, <3>1, <5>1 DEF RestOK
      <4> QED
        BY <2>3, <4>1, <4>2, <4>3
    <3>3. /\ UNCHANGED <<gone, dispatched, spawnedBy, spawning, flow, control, history>>
          /\ agent' \in [Runs -> {"none", "running", "erred", "failed", "over"}]
      BY <1>1, <2>3 DEF AgentEnds, GraceFires, WaitAnswers, RestOK, agents
    <3> QED
      BY <1>1, <3>2, <3>3 DEF RestOK, control, history
  <2>4. CASE WaitFails(q)
    BY <1>1, <2>4 DEF WaitFails, RestOK, agents, control
  <2>5. CASE CompleteEnds(q)
    <3>1. UNCHANGED <<gone, agents, grace, control, history>> /\ completing' \subseteq completing
          /\ flow' \in [Runs -> Places]
      BY <1>1, <2>5 DEF CompleteEnds, RestOK, Places
    <3> QED
      BY <1>1, <3>1 DEF RestOK, agents, control, history
  <2> QED
    BY <1>4, <2>1, <2>2, <2>3, <2>4, <2>5 DEF RunStep
<1>5. ASSUME NEW q \in Runs, FlowStep(q) \/ ResumeTimer(q) PROVE RestOK'
  <2>1. q[1] \in Sessions /\ flow \in [Runs -> Places]
    BY <1>1, <1>2 DEF RestOK
  <2>2. CASE FlowSettles(q)
    <3>1. flow' \in [Runs -> Places] /\ gone' \subseteq gone \cup {q[1]}
      BY <2>1, <2>2, MovePlaces DEF FlowSettles, DeleteSession, Places
    <3> QED
      BY <1>1, <2>1, <2>2, <3>1 DEF FlowSettles, RestOK, agents, callbacks, control, history
  <2>3. CASE FlowWakes(q)
    <3>1. flow' \in [Runs -> Places]
      BY <2>1, <2>3, MovePlaces DEF FlowWakes, Places
    <3>2. CASE \E n \in Runs : Dispatch(q[1], n)
                               /\ (Replace(q, n, TRUE) \/ UNCHANGED <<records, callbacks, timers, exempt>>)
      <4>1. PICK n \in Runs : Dispatch(q[1], n)
                              /\ (Replace(q, n, TRUE) \/ UNCHANGED <<records, callbacks, timers, exempt>>)
        BY <3>2
      <4>2. grace' \subseteq grace /\ completing' \subseteq completing
            /\ exempt' \subseteq exempt \cup {n}
        BY <4>1 DEF Replace, DropCallbacks, callbacks
      <4> QED
        BY <1>1, <2>1, <2>3, <3>1, <4>1, <4>2, DispatchFacts DEF FlowWakes, RestOK, control
    <3>3. CASE UNCHANGED <<records, dispatched, agent, gone, callbacks, timers, exempt>>
      BY <1>1, <2>3, <3>1, <3>3 DEF FlowWakes, RestOK, control, callbacks
    <3> QED
      BY <2>3, <3>2, <3>3 DEF FlowWakes
  <2>4. CASE FlowDelivers(q)
    <3>1. flow' \in [Runs -> Places] /\ gone' \subseteq gone \cup {q[1]}
          /\ announced' \in [Runs -> Nat]
      BY <1>1, <2>1, <2>4, MovePlaces DEF FlowDelivers, DeleteSession, Places, RestOK
    <3> QED
      BY <1>1, <2>1, <2>4, <3>1 DEF FlowDelivers, RestOK, agents, callbacks, control
  <2>5. CASE FlowFails(q) \/ FlowExpires(q)
    <3>1. flow' \in [Runs -> Places]
      BY <2>1, <2>5, MovePlaces DEF FlowFails, FlowExpires, Places
    <3> QED
      BY <1>1, <2>5, <3>1 DEF FlowFails, FlowExpires, RestOK, agents, callbacks, control, history
  <2>6. CASE FlowFinishes(q)
    <3>1. [flow EXCEPT ![q] = "none"] \in [Runs -> Places]
      BY <2>1 DEF Places
    <3>2. flow' \in [Runs -> Places]
      BY <2>6, <3>1, ResumePlaces DEF FlowFinishes
    <3> QED
      BY <1>1, <2>6, <3>2 DEF FlowFinishes, DropCallbacks, RestOK, agents, control, history
  <2>7. CASE ResumeTimer(q)
    <3>1. flow' \in [Runs -> Places]
      BY <2>1, <2>7, ResumePlaces DEF ResumeTimer
    <3> QED
      BY <1>1, <2>7, <3>1 DEF ResumeTimer, DropCallbacks, RestOK, agents, control, history
  <2> QED
    BY <1>5, <2>2, <2>3, <2>4, <2>5, <2>6, <2>7 DEF FlowStep
<1>6. ASSUME NEW q \in Runs, ControlStep(q) PROVE RestOK'
  <2>1. q[1] \in Sessions /\ flow \in [Runs -> Places]
    BY <1>1, <1>2 DEF RestOK
  <2>2. CASE SteerMarks(q) \/ KillAborts(q)
    BY <1>1, <1>6, <2>1, <2>2 DEF SteerMarks, KillAborts, RestOK, agents, callbacks, history
  <2>3. CASE SteerSends(q)
    <3>1. PICK n \in Runs : Dispatch(q[1], n) /\ Replace(q, n, FALSE)
      BY <2>3 DEF SteerSends
    <3>2. grace' \subseteq grace /\ completing' \subseteq completing
          /\ exempt' \subseteq exempt \cup {n}
      BY <3>1 DEF Replace, DropCallbacks
    <3> QED
      BY <1>1, <2>1, <2>3, <3>1, <3>2, DispatchFacts DEF SteerSends, RestOK
  <2>4. CASE SteerFails(q)
    <3>1. flow' \in [Runs -> Places] /\ grace' \subseteq grace /\ completing' \subseteq completing
      BY <2>1, <2>4, ResumePlaces DEF SteerFails, DropCallbacks, callbacks
    <3> QED
      BY <1>1, <2>1, <2>4, <3>1 DEF SteerFails, RestOK, agents, history
  <2>5. CASE KillMarks(q)
    <3>1. exempt' \subseteq Runs
      BY <1>1, <2>5 DEF KillMarks, IInv, RestOK, Records
    <3> QED
      BY <1>1, <2>5, <3>1 DEF KillMarks, RestOK, agents
  <2>6. CASE Sweep(q)
    BY <1>1, <2>1, <2>6 DEF Sweep, DropCallbacks, RestOK, agents, control, history
  <2> QED
    BY <1>6, <2>2, <2>3, <2>4, <2>5, <2>6 DEF ControlStep
<1>7. CASE Crash
  <2>1. [r \in Runs |-> "none"] \in [Runs -> Places]
    BY DEF Places
  <2>2. flow' \in [Runs -> Places]
    BY <1>7, <2>1, ResumePlaces DEF Crash
  <2>3. lost' \subseteq Runs
    BY <1>1, <1>7 DEF Crash, IInv, RestOK, Records
  <2> QED
    BY <1>1, <1>7, <2>2, <2>3 DEF Crash, RestOK
<1> QED
  BY <1>3, <1>4, <1>5, <1>6, <1>7 DEF Next

-----------------------------------------------------------------------------
(* What a step that registers no run does to a record and to the flow of   *)
(* its run: old, f, a and x are the record, the flow, the announcements    *)
(* and the exemption before, new, g, b and y after the step.               *)
Good(old, new, f, g, a, b, x, y) ==
  /\ new \in Record /\ RecordOK(new, g, b, y)
  /\ old.ended => new.ended
  /\ old.done /\ ~x => new.done

(* A flow goes on, and delivers only while it is on. *)
Eases(f, g, a, b) ==
  /\ g # "none" => f # "none"
  /\ g \in Working => f \in Working
  /\ b > 0 => a > 0 \/ f # "none"

LEMMA GoodEases ==
  ASSUME NEW rec \in Record, NEW f, NEW g, NEW a \in Nat, NEW b \in Nat, NEW x, NEW y,
         RecordOK(rec, f, a, x), Eases(f, g, a, b), x => y
  PROVE  Good(rec, rec, f, g, a, b, x, y)
BY DEF Good, RecordOK, Eases, Working

LEMMA GoodCompleted ==
  ASSUME NEW rec \in Record, NEW c \in BOOLEAN, NEW f, NEW a \in Nat, NEW x,
         RecordOK(rec, f, a, x)
  PROVE  /\ Good(rec, CompletedRecord(rec, c), f, f, a, a, x, x)
         /\ CompletedRecord(rec, c).ended
         /\ Steered(rec, f) => Steered(CompletedRecord(rec, c), f)
<1>1. rec.suppress = "killed" => x
  BY DEF RecordOK
<1> QED
  BY <1>1, CompletedRecordFacts DEF Good, Steered

LEMMA GoodResumed ==
  ASSUME NEW old \in Record, NEW new, NEW f, NEW g, NEW a \in Nat, NEW x,
         RecordOK(old, f, a, x), Resumed(old, new, f, g)
  PROVE  /\ Good(old, new, f, g, a, a, x, x)
         /\ a > 0 => g = f
         /\ Steered(old, f) => Steered(new, g)
         /\ g # f => g = "settling" /\ new # old
<1>1. CASE Unmoved(old, new, f, g)
  BY <1>1 DEF Unmoved, Good
<1>2. CASE GivenUp(old, new, f, g)
  <2>1. old.retries \in Nat /\ MaxAnnounceRetries \in Nat
    BY SubagentAssumption DEF Record
  <2>2. ~(old.retries < MaxAnnounceRetries)
    BY <1>2, <2>1 DEF GivenUp
  <2> QED
    BY <1>2, <2>2 DEF GivenUp, Good, Record, RecordOK, Working, Steered
<1>3. CASE AnnounceStarts(old, new, g)
  BY <1>3 DEF AnnounceStarts, Good, Record, RecordOK, Working, Steered
<1> QED
  BY <1>1, <1>2, <1>3 DEF Resumed

(* A step of this kind keeps what relates the records in memory to flows,  *)
(* steers and descendants.                                                 *)
Effect ==
  /\ DOMAIN subagentRuns' \subseteq DOMAIN subagentRuns
  /\ exempt \subseteq exempt'
  /\ \A q \in DOMAIN subagentRuns' :
       Good(subagentRuns[q], subagentRuns'[q], flow[q], flow'[q], announced[q], announced'[q],
            q \in exempt, q \in exempt')
  /\ \A s \in Sessions : steer'[s] # NoRun =>
       /\ Started(steer'[s])
       /\ steer'[s] \in DOMAIN subagentRuns' \ exempt' =>
            Steered(subagentRuns'[steer'[s]], flow'[steer'[s]])
  /\ \A r \in Runs : flow'[r] \in {"waking", "delivering"} =>
       flow[r] \in {"waking", "delivering"} \/ Settled(r)
  /\ UNCHANGED spawnedBy

MemoryKept == Records(subagentRuns)' /\ RecordsOK(subagentRuns)' /\ SteerOK' /\ WaitedFor'

LEMMA EffectKeeps ==
  ASSUME IInv, Next, Effect
  PROVE  MemoryKept
<1>1. Records(subagentRuns) /\ RecordsOK(subagentRuns) /\ WaitedFor
  BY DEF IInv
<1>2. DOMAIN subagentRuns' \subseteq Runs
  BY <1>1 DEF Effect, Records
<1>3. \A q \in DOMAIN subagentRuns' :
        /\ subagentRuns'[q] \in Record
        /\ RecordOK(subagentRuns'[q], flow'[q], announced'[q], q \in exempt')
        /\ subagentRuns[q].ended => subagentRuns'[q].ended
        /\ subagentRuns[q].done /\ q \notin exempt => subagentRuns'[q].done
  BY DEF Effect, Good
<1>4. Records(subagentRuns)'
  BY <1>2, <1>3 DEF Records
<1>5. RecordsOK(subagentRuns)'
  <2>1. \A q \in DOMAIN subagentRuns' : Started(q)'
    BY <1>1, <1>2, StartedStays DEF Effect, RecordsOK
  <2> QED
    BY <1>3, <2>1 DEF RecordsOK
<1>6. SteerOK'
  <2>1. steer' \in [Sessions -> Runs \cup {NoRun}]
    BY RestStays DEF RestOK
  <2>2. ASSUME NEW s \in Sessions, steer'[s] # NoRun
        PROVE  /\ Started(steer[s])'
               /\ steer'[s] \in DOMAIN subagentRuns' \ exempt' =>
                    Steered(subagentRuns'[steer'[s]], flow'[steer'[s]])
    <3>1. steer'[s] \in Runs /\ Started(steer'[s])
      BY <2>1, <2>2 DEF Effect
    <3>2. \A r \in Runs : Started(r) => Started(r)'
      BY StartedStays
    <3>3. Started(steer[s])'
      BY <3>1, <3>2 DEF Started
    <3> QED
      BY <2>2, <3>3 DEF Effect
  <2> QED
    BY <2>2 DEF SteerOK
<1>7. ASSUME NEW r \in Runs, flow'[r] \in {"waking", "delivering"} PROVE Settled(r)'
  <2>1. Settled(r)
    BY <1>1, <1>7 DEF Effect, WaitedFor
  <2>2. Started(r)' /\ ~Alive(r)'
    BY <2>1, StartedStays DEF Settled
  <2>3. ASSUME NEW q \in DOMAIN subagentRuns' \ exempt', Tells(q, r)'
        PROVE  subagentRuns'[q].ended /\ subagentRuns'[q].done
    <3>1. q \in DOMAIN subagentRuns \ exempt /\ Tells(q, r)
      BY <2>3 DEF Effect, Tells
    <3> QED
      BY <1>3, <2>1, <3>1 DEF Settled
  <2> QED
    BY <2>2, <2>3 DEF Settled
<1>8. WaitedFor'
  BY <1>7 DEF WaitedFor
<1> QED
  BY <1>4, <1>5, <1>6, <1>8 DEF MemoryKept

(* The file: saved by the step, or as it was while flows go on. *)
DiskKept == Records(disk)' /\ RecordsOK(disk)'

LEMMA DiskSaved ==
  ASSUME MemoryKept, disk' = subagentRuns'
  PROVE  DiskKept
BY DEF MemoryKept, DiskKept, Records, RecordsOK

LEMMA DiskUntouched ==
  ASSUME IInv, Next, disk' = disk, exempt \subseteq exempt',
         \A q \in Runs : Eases(flow[q], flow'[q], announced[q], announced'[q])
  PROVE  DiskKept
<1>1. Records(disk) /\ RecordsOK(disk) /\ RestOK /\ RestOK'
  BY RestStays DEF IInv
<1>2. Records(disk)'
  BY <1>1 DEF Records
<1>3. ASSUME NEW q \in DOMAIN disk
      PROVE  Started(q)' /\ RecordOK(disk[q], flow'[q], announced'[q], q \in exempt')
  <2>1. /\ q \in Runs /\ disk[q] \in Record /\ Started(q)
        /\ RecordOK(disk[q], flow[q], announced[q], q \in exempt)
    BY <1>1 DEF Records, RecordsOK
  <2>2. /\ announced[q] \in Nat /\ announced'[q] \in Nat
        /\ Eases(flow[q], flow'[q], announced[q], announced'[q])
        /\ q \in exempt => q \in exempt'
    BY <1>1, <2>1 DEF RestOK
  <2>3. Good(disk[q], disk[q], flow[q], flow'[q], announced[q], announced'[q], q \in exempt,
             q \in exempt')
    BY <2>1, <2>2, GoodEases
  <2>4. Started(q)'
    BY <2>1, StartedStays
  <2> QED
    BY <2>3, <2>4 DEF Good
<1>4. RecordsOK(disk)'
  BY <1>3 DEF RecordsOK
<1> QED
  BY <1>2, <1>4 DEF DiskKept

(* A flow starts for a run with a record, and only a flow announces. *)
FlowsOfRecords ==
  \A r \in Runs :
    /\ flow'[r] # "none" => flow[r] # "none" \/ r \in DOMAIN subagentRuns'
    /\ announced'[r] > 0 => announced[r] > 0 \/ flow[r] # "none"

LEMMA FreshStays ==
  ASSUME IInv, Next, MemoryKept, FlowsOfRecords
  PROVE  FreshOK'
<1>1. FreshOK /\ RestOK /\ RestOK' /\ RecordsOK(subagentRuns)'
  BY RestStays DEF IInv, MemoryKept
<1>2. ASSUME NEW r \in Runs, ~Started(r)'
      PROVE  flow'[r] = "none" /\ announced'[r] = 0
  <2>1. ~Started(r)
    BY <1>2, StartedStays
  <2>2. flow[r] = "none" /\ announced[r] = 0
    BY <1>1, <2>1 DEF FreshOK
  <2>3. r \notin DOMAIN subagentRuns'
    BY <1>1, <1>2 DEF RecordsOK
  <2>4. announced'[r] \in Nat
    BY <1>1 DEF RestOK
  <2> QED
    BY <2>2, <2>3, <2>4 DEF FlowsOfRecords
<1> QED
  BY <1>2, SpawningStays DEF FreshOK

LEMMA Assembled ==
  ASSUME IInv, Next, MemoryKept, DiskKept, FlowsOfRecords, CallbacksOK', OnceOK'
  PROVE  IInv'
BY FreshStays, RestStays, OfRequesterStays, SteerOfSessionStays DEF MemoryKept, DiskKept, IInv

-----------------------------------------------------------------------------
(* The steps that change no record. *)

LEMMA EasesKeeps ==
  ASSUME IInv, Next, OnceOK',
         UNCHANGED <<records, spawnedBy, completing, timers, steer, exempt>>,
         waiting' \subseteq waiting,
         \A q \in Runs : Eases(flow[q], flow'[q], announced[q], announced'[q]),
         \A r \in Runs : flow'[r] \in {"waking", "delivering"} =>
           flow[r] \in {"waking", "delivering"} \/ Settled(r)
  PROVE  IInv'
<1>1. /\ subagentRuns' = subagentRuns /\ disk' = disk /\ steer' = steer /\ exempt' = exempt
      /\ completing' = completing /\ timers' = timers /\ spawnedBy' = spawnedBy
  BY DEF records
<1>2. RestOK /\ RestOK' /\ Records(subagentRuns) /\ RecordsOK(subagentRuns) /\ SteerOK /\ CallbacksOK
  BY RestStays DEF IInv
<1>3. ASSUME NEW q \in DOMAIN subagentRuns
      PROVE  Good(subagentRuns[q], subagentRuns'[q], flow[q], flow'[q], announced[q],
                  announced'[q], q \in exempt, q \in exempt')
  <2>1. /\ q \in Runs /\ subagentRuns[q] \in Record
        /\ RecordOK(subagentRuns[q], flow[q], announced[q], q \in exempt)
    BY <1>2 DEF Records, RecordsOK
  <2>2. /\ announced[q] \in Nat /\ announced'[q] \in Nat
        /\ Eases(flow[q], flow'[q], announced[q], announced'[q])
    BY <1>2, <2>1 DEF RestOK
  <2> QED
    BY <1>1, <2>1, <2>2, GoodEases
<1>4. ASSUME NEW s \in Sessions, steer[s] # NoRun
      PROVE  /\ Started(steer[s])
             /\ steer[s] \in DOMAIN subagentRuns \ exempt =>
                  Steered(subagentRuns[steer[s]], flow'[steer[s]])
  <2>1. steer[s] \in Runs
    BY <1>2, <1>4 DEF RestOK
  <2> QED
    BY <1>2, <1>4, <2>1 DEF SteerOK, Steered, Eases
<1>5. Effect
  BY <1>1, <1>3, <1>4 DEF Effect
<1>6. MemoryKept /\ DiskKept
  BY <1>1, <1>5, EffectKeeps, DiskUntouched
<1>7. FlowsOfRecords
  BY DEF FlowsOfRecords, Eases
<1>8. CallbacksOK'
  BY <1>1, <1>2 DEF CallbacksOK
<1> QED
  BY <1>6, <1>7, <1>8, Assembled

LEMMA StillKeeps ==
  ASSUME IInv, Next, waiting' \subseteq waiting,
         UNCHANGED <<records, spawnedBy, completing, timers, flow, steer, announced, exempt>>
  PROVE  IInv'
<1>1. OnceOK /\ WaitedFor
  BY DEF IInv
<1>2. OnceOK'
  BY <1>1 DEF OnceOK
<1> QED
  BY <1>1, <1>2, EasesKeeps DEF Eases, WaitedFor

LEMMA QuietStepsKeep ==
  ASSUME IInv, Next, NEW r \in Runs,
         AgentErrs(r) \/ AgentRetries(r) \/ AgentGivesUp(r) \/ WaitFails(r) \/ KillAborts(r)
  PROVE  IInv'
BY StillKeeps DEF AgentErrs, AgentRetries, AgentGivesUp, WaitFails, KillAborts, agents, callbacks,
                  control, history, records

(* The flow of run r goes on to g. *)
LEMMA MoveKeeps ==
  ASSUME IInv, Next, NEW r \in Runs, NEW g \in Places, MoveTo(r, g), flow[r] \in Working,
         UNCHANGED <<records, spawnedBy, completing, waiting, timers, steer, announced, exempt>>,
         g \in {"waking", "delivering"} => flow[r] \in {"waking", "delivering"} \/ Settled(r)
  PROVE  IInv'
<1>1. OnceOK /\ WaitedFor /\ flow \in [Runs -> Places] /\ announced \in [Runs -> Nat]
  BY DEF IInv, RestOK
<1>2. /\ flow'[r] = g /\ flow[r] # "none" /\ announced' = announced
      /\ \A q \in Runs \ {r} : flow'[q] = flow[q]
  BY <1>1 DEF MoveTo, Working
<1>3. announced[r] = 0
  BY <1>1 DEF OnceOK, Working
<1>4. OnceOK'
  BY <1>1, <1>2, <1>3 DEF OnceOK
<1>5. ASSUME NEW q \in Runs PROVE Eases(flow[q], flow'[q], announced[q], announced'[q])
  BY <1>2 DEF Eases
<1>6. ASSUME NEW q \in Runs, flow'[q] \in {"waking", "delivering"}
      PROVE  flow[q] \in {"waking", "delivering"} \/ Settled(q)
  BY <1>2, <1>6
<1> QED
  BY <1>4, <1>5, <1>6, EasesKeeps

LEMMA SettlesKeeps ==
  ASSUME IInv, Next, NEW r \in Runs, FlowSettles(r)
  PROVE  IInv'
<1>1. /\ flow[r] = "settling" /\ flow[r] \in Working /\ Started(r)
      /\ OfRequester /\ Records(subagentRuns) /\ r[1] \in Sessions
  BY RunFacts DEF FlowSettles, Working, IInv, FreshOK
<1>2. UNCHANGED <<records, spawnedBy, completing, waiting, timers, steer, announced, exempt>>
  BY DEF FlowSettles, agents, callbacks, control, history
<1>3. CASE MoveTo(r, "failed") \/ MoveTo(r, "finishing")
  BY <1>1, <1>2, <1>3, MoveKeeps DEF Places
<1>4. CASE MoveTo(r, "waking") \/ MoveTo(r, "delivering")
  <2>1. ~Alive(r) /\ PendingDescendants(r[1]) = {}
    <3>1. flow'[r] \in {"waking", "delivering"}
      BY <1>4 DEF MoveTo, IInv, RestOK
    <3>2. ~MoveTo(r, "failed") /\ ~MoveTo(r, "finishing")
      BY <3>1 DEF MoveTo, IInv, RestOK
    <3> QED
      BY <3>2 DEF FlowSettles
  <2>2. ASSUME NEW q \in DOMAIN subagentRuns \ exempt, Tells(q, r)
        PROVE  subagentRuns[q].ended /\ subagentRuns[q].done
    <3>1. q[1] \in Sessions
      BY <1>1, RunFacts DEF Records
    <3>2. Requester[q[1]] = r[1]
      BY <1>1, <2>2, <3>1 DEF OfRequester, Tells
    <3> QED
      BY <2>1, <3>2 DEF PendingDescendants, IsAncestor
  <2>3. Settled(r)
    BY <1>1, <2>1, <2>2 DEF Settled
  <2> QED
    BY <1>1, <1>2, <1>4, <2>3, MoveKeeps DEF Places
<1> QED
  BY <1>3, <1>4 DEF FlowSettles

LEMMA DeliversKeeps ==
  ASSUME IInv, Next, NEW r \in Runs, FlowDelivers(r)
  PROVE  IInv'
<1>1. /\ flow[r] = "delivering" /\ OnceOK /\ WaitedFor /\ announced \in [Runs -> Nat]
      /\ flow \in [Runs -> Places]
  BY DEF FlowDelivers, IInv, RestOK
<1>2. announced[r] = 0 /\ flow[r] \in Working
  BY <1>1 DEF OnceOK, Working
<1>3. UNCHANGED <<records, spawnedBy, completing, waiting, timers, steer, exempt>>
  BY DEF FlowDelivers, agents, callbacks, control
<1>4. CASE UNCHANGED announced /\ (MoveTo(r, "failed") \/ MoveTo(r, "finishing"))
  BY <1>2, <1>3, <1>4, MoveKeeps DEF Places
<1>5. CASE MoveTo(r, "finishing") /\ announced' = [announced EXCEPT ![r] = @ + 1]
  <2>1. /\ flow'[r] = "finishing" /\ announced'[r] = 1
        /\ \A q \in Runs \ {r} : flow'[q] = flow[q] /\ announced'[q] = announced[q]
    BY <1>1, <1>2, <1>5 DEF MoveTo
  <2>2. OnceOK'
    BY <1>1, <2>1 DEF OnceOK
  <2>3. \A q \in Runs : Eases(flow[q], flow'[q], announced[q], announced'[q])
    BY <1>1, <2>1 DEF Eases, Working
  <2>4. \A q \in Runs : flow'[q] \in {"waking", "delivering"} => flow[q] \in {"waking", "delivering"}
    BY <2>1
  <2> QED
    BY <1>3, <2>2, <2>3, <2>4, EasesKeeps
<1> QED
  BY <1>4, <1>5 DEF FlowDelivers

LEMMA SpawnKeeps ==
  ASSUME IInv, Next, NEW s \in Sessions, Spawn(s)
  PROVE  IInv'
<1>1. /\ dispatched[s] = 0 /\ spawnedBy \in [Sessions -> Runs \cup {NoRun}]
      /\ \E by : spawnedBy' = [spawnedBy EXCEPT ![s] = by]
      /\ subagentRuns' = subagentRuns /\ disk' = disk /\ flow' = flow /\ announced' = announced
      /\ exempt' = exempt /\ steer' = steer /\ waiting' = waiting /\ timers' = timers
      /\ completing' = completing
  BY DEF Spawn, records, callbacks, control, history, IInv, RestOK
<1>2. /\ Records(subagentRuns) /\ RecordsOK(subagentRuns) /\ SteerOK /\ WaitedFor /\ CallbacksOK
      /\ OnceOK /\ RestOK
  BY DEF IInv
<1>3. \A q \in Runs : Started(q) => q[1] # s /\ Started(q)'
  BY <1>1, RunFacts, StartedStays DEF Started
<1>4. Records(subagentRuns)' /\ RecordsOK(subagentRuns)'
  BY <1>1, <1>2, <1>3 DEF Records, RecordsOK
<1>5. SteerOK'
  <2>1. \A t \in Sessions : steer[t] \in Runs \cup {NoRun}
    BY <1>2 DEF RestOK
  <2>2. ASSUME NEW t \in Sessions, steer[t] # NoRun PROVE Started(steer[t])'
    <3>1. steer[t] \in Runs /\ Started(steer[t])
      BY <1>2, <2>1, <2>2 DEF SteerOK
    <3> QED
      BY <1>1, <1>3, <3>1 DEF Started
  <2> QED
    BY <1>1, <1>2, <2>2 DEF SteerOK
<1>6. ASSUME NEW r \in Runs, flow'[r] \in {"waking", "delivering"} PROVE Settled(r)'
  <2>1. Settled(r)
    BY <1>1, <1>2, <1>6 DEF WaitedFor
  <2>2. Started(r)' /\ ~Alive(r)'
    BY <2>1, StartedStays DEF Settled
  <2>3. ASSUME NEW q \in DOMAIN subagentRuns \ exempt, Tells(q, r)'
        PROVE  subagentRuns[q].ended /\ subagentRuns[q].done
    <3>1. q[1] # s /\ q[1] \in Sessions
      BY <1>2, <1>3, RunFacts DEF Records, RecordsOK
    <3>2. Tells(q, r)
      BY <1>1, <2>3, <3>1 DEF Tells
    <3> QED
      BY <2>1, <3>2 DEF Settled
  <2> QED
    BY <1>1, <2>2, <2>3 DEF Settled
<1>7. MemoryKept
  BY <1>4, <1>5, <1>6 DEF MemoryKept, WaitedFor
<1>8. DiskKept
  BY <1>1, DiskUntouched DEF Eases
<1>9. FlowsOfRecords /\ CallbacksOK' /\ OnceOK'
  BY <1>1, <1>2 DEF FlowsOfRecords, CallbacksOK, OnceOK
<1> QED
  BY <1>7, <1>8, <1>9, Assembled

-----------------------------------------------------------------------------
(* Completion. *)

LEMMA CompletesKeep ==
  ASSUME IInv, Next, NEW r \in DOMAIN subagentRuns, NEW c \in BOOLEAN, NEW e,
         subagentRuns' = Completed(r, c), completing' = completing \cup {<<r, e>>},
         waiting' \subseteq waiting,
         UNCHANGED <<spawnedBy, timers, flow, steer, announced, exempt>>
  PROVE  MemoryKept /\ FlowsOfRecords /\ CallbacksOK' /\ OnceOK'
<1>1. /\ Records(subagentRuns) /\ RecordsOK(subagentRuns) /\ SteerOK /\ CallbacksOK /\ OnceOK
      /\ RestOK
  BY DEF IInv
<1>2. \A q \in DOMAIN subagentRuns :
        /\ q \in Runs /\ subagentRuns[q] \in Record /\ announced[q] \in Nat
        /\ RecordOK(subagentRuns[q], flow[q], announced[q], q \in exempt)
  BY <1>1 DEF Records, RecordsOK, RestOK
<1>3. /\ DOMAIN subagentRuns' = DOMAIN subagentRuns
      /\ \A q \in DOMAIN subagentRuns :
           subagentRuns'[q] = IF q = r THEN CompletedRecord(subagentRuns[r], c)
                              ELSE subagentRuns[q]
  BY <1>2, CompletedFacts
<1>4. ASSUME NEW q \in DOMAIN subagentRuns
      PROVE  /\ Good(subagentRuns[q], subagentRuns'[q], flow[q], flow'[q], announced[q],
                     announced'[q], q \in exempt, q \in exempt')
             /\ q = r => subagentRuns'[q].ended
             /\ Steered(subagentRuns[q], flow[q]) => Steered(subagentRuns'[q], flow'[q])
  <2>1. CASE q = r
    <3> DEFINE old == subagentRuns[r]
               new == CompletedRecord(old, c)
    <3>1. /\ old \in Record /\ announced[r] \in Nat
          /\ RecordOK(old, flow[r], announced[r], r \in exempt)
      BY <1>2
    <3>2. /\ Good(old, new, flow[r], flow[r], announced[r], announced[r], r \in exempt, r \in exempt)
          /\ new.ended /\ (Steered(old, flow[r]) => Steered(new, flow[r]))
      BY <3>1, GoodCompleted
    <3>3. subagentRuns'[q] = new
      BY <1>3, <2>1
    <3> QED
      BY <2>1, <3>2, <3>3
  <2>2. CASE q # r
    BY <1>2, <1>3, <2>2 DEF Good
  <2> QED
    BY <2>1, <2>2
<1>5. ASSUME NEW s \in Sessions, steer'[s] # NoRun
      PROVE  /\ Started(steer'[s])
             /\ steer'[s] \in DOMAIN subagentRuns' \ exempt' =>
                  Steered(subagentRuns'[steer'[s]], flow'[steer'[s]])
  BY <1>1, <1>3, <1>4, <1>5 DEF SteerOK
<1>6. Effect
  BY <1>3, <1>4, <1>5 DEF Effect
<1>7. CallbacksOK'
  <2>1. waiting' \subseteq DOMAIN subagentRuns' /\ timers' \subseteq DOMAIN subagentRuns'
    BY <1>1, <1>3 DEF CallbacksOK
  <2>2. ASSUME NEW x \in completing'
        PROVE  x[1] \in DOMAIN subagentRuns' /\ subagentRuns'[x[1]].ended
    <3>1. CASE x = <<r, e>>
      BY <1>3, <1>4, <3>1
    <3>2. CASE x \in completing
      BY <1>1, <1>3, <1>4, <3>2 DEF CallbacksOK, Good
    <3> QED
      BY <3>1, <3>2
  <2> QED
    BY <2>1, <2>2 DEF CallbacksOK
<1>8. FlowsOfRecords /\ OnceOK'
  BY <1>1 DEF FlowsOfRecords, OnceOK
<1> QED
  BY <1>6, <1>7, <1>8, EffectKeeps

LEMMA EventKeeps ==
  ASSUME IInv, Next, NEW r \in Runs, AgentEnds(r) \/ GraceFires(r)
  PROVE  IInv'
<1>1. UNCHANGED <<disk, spawnedBy, waiting, timers, flow, steer, announced, exempt>>
  BY DEF AgentEnds, GraceFires, agents, control, history
<1>2. CASE UNCHANGED <<subagentRuns, completing>>
  BY <1>1, <1>2, StillKeeps DEF records
<1>3. CASE ~UNCHANGED <<subagentRuns, completing>>
  <2>1. PICK c \in BOOLEAN, e \in {"event", "error"} :
          /\ r \in DOMAIN subagentRuns /\ subagentRuns' = Completed(r, c)
          /\ completing' = completing \cup {<<r, e>>}
    BY <1>3 DEF AgentEnds, GraceFires, Closed
  <2>2. MemoryKept /\ FlowsOfRecords /\ CallbacksOK' /\ OnceOK'
    BY <1>1, <2>1, CompletesKeep
  <2>3. DiskKept
    BY <1>1, DiskUntouched DEF Eases
  <2> QED
    BY <2>2, <2>3, Assembled
<1> QED
  BY <1>2, <1>3

LEMMA AnswerKeeps ==
  ASSUME IInv, Next, NEW r \in Runs, WaitAnswers(r)
  PROVE  IInv'
<1>1. /\ Records(subagentRuns) /\ RecordsOK(subagentRuns) /\ r \in DOMAIN subagentRuns
  BY DEF IInv, CallbacksOK, WaitAnswers
<1>2. UNCHANGED <<spawnedBy, timers, flow, steer, announced, exempt>> /\ waiting' \subseteq waiting
  BY DEF WaitAnswers, agents, control, history
<1>3. PICK c \in BOOLEAN : /\ subagentRuns' = Completed(r, c)
                           /\ completing' = completing \cup {<<r, "wait">>}
  BY DEF WaitAnswers
<1>4. MemoryKept /\ FlowsOfRecords /\ CallbacksOK' /\ OnceOK'
  BY <1>1, <1>2, <1>3, CompletesKeep
<1>5. ASSUME NEW q \in DOMAIN subagentRuns
      PROVE  /\ q \in Runs /\ Started(q)' /\ disk'[q] \in Record
             /\ RecordOK(disk'[q], flow'[q], announced'[q], q \in exempt')
  <2>1. /\ q \in Runs /\ subagentRuns[q] \in Record /\ Started(q)
        /\ RecordOK(subagentRuns[q], flow[q], announced[q], q \in exempt)
    BY <1>1 DEF Records, RecordsOK
  <2>2. disk'[q] = IF q = r THEN [subagentRuns[r] EXCEPT !.ended = TRUE] ELSE subagentRuns[q]
    BY DEF WaitAnswers
  <2>3. Started(q)'
    BY <2>1, StartedStays
  <2>4. disk'[q] \in Record /\ RecordOK(disk'[q], flow[q], announced[q], q \in exempt)
    <3> DEFINE rec == subagentRuns[q]
    <3>1. CASE q # r
      BY <2>1, <2>2, <3>1
    <3>2. CASE q = r
      <4>1. disk'[q] = [rec EXCEPT !.ended = TRUE] /\ rec \in Record
            /\ RecordOK(rec, flow[q], announced[q], q \in exempt)
        BY <2>1, <2>2, <3>2
      <4> HIDE DEF rec
      <4> QED
        BY <4>1 DEF Record, RecordOK
    <3> QED
      BY <3>1, <3>2
  <2> QED
    BY <1>2, <2>1, <2>3, <2>4
<1>6. DOMAIN disk' = DOMAIN subagentRuns
  BY DEF WaitAnswers
<1>7. DiskKept
  BY <1>5, <1>6 DEF DiskKept, Records, RecordsOK
<1> QED
  BY <1>4, <1>7, Assembled

-----------------------------------------------------------------------------
(* The steps that change one record. *)

(* The record of run r becomes v, and its flow is at g.                    *)
Changes(r, v, g) ==
  /\ r \in DOMAIN subagentRuns /\ DOMAIN subagentRuns' = DOMAIN subagentRuns
  /\ subagentRuns'[r] = v /\ \A q \in DOMAIN subagentRuns \ {r} : subagentRuns'[q] = subagentRuns[q]
  /\ flow'[r] = g /\ \A q \in Runs \ {r} : flow'[q] = flow[q]

LEMMA ChangeKeeps ==
  ASSUME IInv, Next, NEW r \in Runs, NEW v, NEW g, Changes(r, v, g),
         UNCHANGED <<spawnedBy, announced, exempt>>,
         completing' \subseteq completing, waiting' \subseteq waiting,
         timers' \subseteq timers \cup {r},
         Good(subagentRuns[r], v, flow[r], g, announced[r], announced[r], r \in exempt, r \in exempt),
         g \notin {"waking", "delivering"}, announced[r] > 0 => g \in {"none", "finishing"},
         \A s \in Sessions : steer'[s] \in {NoRun, steer[s], r},
         (\E s \in Sessions : steer'[s] = r) /\ r \notin exempt => Steered(v, g)
  PROVE  MemoryKept /\ FlowsOfRecords /\ CallbacksOK' /\ OnceOK'
<1>1. /\ Records(subagentRuns) /\ RecordsOK(subagentRuns) /\ SteerOK /\ CallbacksOK /\ OnceOK
      /\ RestOK
  BY DEF IInv
<1>2. \A q \in DOMAIN subagentRuns :
        /\ q \in Runs /\ subagentRuns[q] \in Record /\ Started(q)
        /\ RecordOK(subagentRuns[q], flow[q], announced[q], q \in exempt)
  BY <1>1 DEF Records, RecordsOK
<1>3. ASSUME NEW q \in DOMAIN subagentRuns
      PROVE  Good(subagentRuns[q], subagentRuns'[q], flow[q], flow'[q], announced[q],
                  announced'[q], q \in exempt, q \in exempt')
  <2>1. CASE q = r
    BY <2>1 DEF Changes
  <2>2. CASE q # r
    <3>1. subagentRuns'[q] = subagentRuns[q] /\ flow'[q] = flow[q]
      BY <1>2, <2>2 DEF Changes
    <3> QED
      BY <1>2, <3>1 DEF Good
  <2> QED
    BY <2>1, <2>2
<1>4. ASSUME NEW s \in Sessions, steer'[s] # NoRun
      PROVE  /\ Started(steer'[s])
             /\ steer'[s] \in DOMAIN subagentRuns' \ exempt' =>
                  Steered(subagentRuns'[steer'[s]], flow'[steer'[s]])
  <2>1. CASE steer'[s] = r
    BY <1>2, <2>1 DEF Changes
  <2>2. CASE steer'[s] # r
    <3>1. steer'[s] = steer[s] /\ steer[s] \in Runs
      BY <1>1, <1>4, <2>2 DEF RestOK
    <3> QED
      BY <1>1, <1>4, <2>2, <3>1 DEF SteerOK, Changes
  <2> QED
    BY <2>1, <2>2
<1>5. \A q \in Runs : flow'[q] \in {"waking", "delivering"} => flow[q] \in {"waking", "delivering"}
  BY DEF Changes
<1>6. Effect
  BY <1>3, <1>4, <1>5 DEF Effect, Changes
<1>7. CallbacksOK'
  BY <1>1, <1>3 DEF CallbacksOK, Changes, Good
<1>8. FlowsOfRecords
  BY <1>1 DEF FlowsOfRecords, Changes
<1>9. OnceOK'
  <2>1. ASSUME NEW q \in Runs, announced'[q] > 0
        PROVE  announced'[q] = 1 /\ flow'[q] \in {"none", "finishing"}
    <3>1. CASE q = r
      BY <1>1, <2>1, <3>1 DEF OnceOK, Changes
    <3>2. CASE q # r
      BY <1>1, <2>1, <3>2 DEF OnceOK, Changes
    <3> QED
      BY <3>1, <3>2
  <2> QED
    BY <2>1 DEF OnceOK
<1> QED
  BY <1>6, <1>7, <1>8, <1>9, EffectKeeps

(* The run that is steered before the step. *)
LEMMA SteeredNow ==
  ASSUME IInv, NEW s \in Sessions, steer[s] \in DOMAIN subagentRuns \ exempt
  PROVE  Steered(subagentRuns[steer[s]], flow[steer[s]])
<1>1. steer[s] # NoRun
  BY RunFacts DEF IInv, Records
<1> QED
  BY <1>1 DEF IInv, SteerOK

LEMMA CompletionKeeps ==
  ASSUME IInv, Next, NEW r \in Runs, CompleteEnds(r)
  PROVE  IInv'
<1>1. /\ Records(subagentRuns) /\ RecordsOK(subagentRuns) /\ CallbacksOK /\ RestOK /\ OnceOK
      /\ WaitedFor
  BY DEF IInv
<1>2. /\ disk' = subagentRuns' /\ waiting' = waiting /\ timers' = timers /\ steer' = steer
      /\ completing' \subseteq completing
      /\ UNCHANGED <<spawnedBy, announced, exempt>>
  BY DEF CompleteEnds, agents, control, history
<1>3. CASE /\ Present(r) /\ subagentRuns[r].suppress # "steer-restart"
           /\ ~subagentRuns[r].done /\ ~subagentRuns[r].handled
  <2> DEFINE old == subagentRuns[r]
             new == [old EXCEPT !.handled = TRUE]
  <2>1. /\ r \in DOMAIN subagentRuns /\ old \in Record /\ old.ended
        /\ announced[r] \in Nat /\ RecordOK(old, flow[r], announced[r], r \in exempt)
        /\ old.suppress # "steer-restart" /\ ~old.done /\ ~old.handled
    BY <1>1, <1>3 DEF CompleteEnds, Present, Records, RecordsOK, CallbacksOK, RestOK
  <2>2. Changes(r, new, "settling")
    BY <1>1, <1>3, <2>1 DEF CompleteEnds, Changes, RestOK, Record
  <2> HIDE DEF old
  <2>3. /\ Good(old, new, flow[r], "settling", announced[r], announced[r], r \in exempt, r \in exempt)
        /\ ~(announced[r] > 0) /\ ~Steered(old, flow[r])
    BY <2>1 DEF Good, Record, RecordOK, Working, Steered
  <2>4. MemoryKept /\ FlowsOfRecords /\ CallbacksOK' /\ OnceOK'
    <3>1. \A s \in Sessions : steer[s] = r => r \in exempt
      BY <2>1, <2>3, SteeredNow DEF old
    <3> HIDE DEF new
    <3> QED
      BY <1>2, <2>2, <2>3, <3>1, ChangeKeeps DEF old
  <2> QED
    BY <1>2, <2>4, DiskSaved, Assembled
<1>4. CASE UNCHANGED <<subagentRuns, flow>>
  <2>1. \A q \in DOMAIN subagentRuns :
          Good(subagentRuns[q], subagentRuns'[q], flow[q], flow'[q], announced[q], announced'[q],
               q \in exempt, q \in exempt')
    BY <1>1, <1>2, <1>4 DEF Good, Records, RecordsOK
  <2>2. \A s \in Sessions : steer'[s] # NoRun =>
          /\ Started(steer'[s])
          /\ steer'[s] \in DOMAIN subagentRuns' \ exempt' =>
               Steered(subagentRuns'[steer'[s]], flow'[steer'[s]])
    BY <1>2, <1>4 DEF IInv, SteerOK
  <2>3. Effect
    BY <1>2, <1>4, <2>1, <2>2 DEF Effect
  <2>4. FlowsOfRecords /\ CallbacksOK' /\ OnceOK'
    BY <1>1, <1>2, <1>4 DEF FlowsOfRecords, CallbacksOK, OnceOK
  <2> QED
    BY <1>2, <2>3, <2>4, EffectKeeps, DiskSaved, Assembled
<1> QED
  BY <1>3, <1>4 DEF CompleteEnds

(* What a failed flow may leave in the record of its run. *)
LEMMA FailedRecord ==
  ASSUME NEW old \in Record, NEW x, RecordOK(old, "failed", 0, x), NEW n \in {old.retries, old.retries + 1}
  PROVE  /\ \A w \in BOOLEAN : n < MaxAnnounceRetries =>
              Good(old, [old EXCEPT !.wake = w, !.handled = FALSE, !.retries = n],
                   "failed", "none", 0, 0, x, x)
         /\ Good(old, [old EXCEPT !.wake = FALSE, !.retries = n], "failed", "givingUp", 0, 0, x, x)
         /\ ~Steered(old, "failed")
<1>1. /\ old.ended /\ old.handled /\ old.suppress # "killed" /\ ~old.done
      /\ old.retries < MaxAnnounceRetries
  BY DEF RecordOK, Working
<1>2. n \in 0 .. MaxAnnounceRetries /\ MaxAnnounceRetries \in Nat
  BY <1>1, SubagentAssumption DEF Record
<1>3. ASSUME NEW w \in BOOLEAN, n < MaxAnnounceRetries
      PROVE  Good(old, [old EXCEPT !.wake = w, !.handled = FALSE, !.retries = n],
                  "failed", "none", 0, 0, x, x)
  <2> DEFINE new == [old EXCEPT !.wake = w, !.handled = FALSE, !.retries = n]
  <2>1. new \in Record
    BY <1>2 DEF Record
  <2>2. /\ new.ended = old.ended /\ new.done = old.done /\ new.suppress = old.suppress
        /\ new.retries = n
    BY DEF Record
  <2> HIDE DEF new
  <2>3. Good(old, new, "failed", "none", 0, 0, x, x)
    BY <1>1, <1>3, <2>1, <2>2 DEF Good, RecordOK, Working
  <2> QED
    BY <2>3 DEF new
<1>4. Good(old, [old EXCEPT !.wake = FALSE, !.retries = n], "failed", "givingUp", 0, 0, x, x)
  <2> DEFINE new == [old EXCEPT !.wake = FALSE, !.retries = n]
  <2>1. new \in Record
    BY <1>2 DEF Record
  <2>2. /\ new.ended = old.ended /\ new.done = old.done /\ new.suppress = old.suppress
        /\ new.handled = old.handled
    BY DEF Record
  <2> HIDE DEF new
  <2>3. Good(old, new, "failed", "givingUp", 0, 0, x, x)
    BY <1>1, <2>1, <2>2 DEF Good, RecordOK, Working
  <2> QED
    BY <2>3 DEF new
<1> QED
  BY <1>3, <1>4 DEF Steered

PutOff(r, n, w) ==
  /\ n < MaxAnnounceRetries
  /\ Changes(r, [subagentRuns[r] EXCEPT !.wake = w, !.handled = FALSE, !.retries = n], "none")
  /\ disk' = subagentRuns' /\ timers' = timers \cup {r}

LastTry(r, n) ==
  /\ Changes(r, [subagentRuns[r] EXCEPT !.wake = FALSE, !.retries = n], "givingUp")
  /\ disk' = disk /\ timers' = timers

LEMMA FailureKeeps ==
  ASSUME IInv, Next, NEW r \in Runs, FlowFails(r) \/ FlowExpires(r)
  PROVE  IInv'
<1>1. /\ Records(subagentRuns) /\ RecordsOK(subagentRuns) /\ RestOK /\ OnceOK
      /\ flow[r] = "failed"
  BY DEF IInv, FlowFails, FlowExpires
<1>2. announced[r] = 0 /\ flow \in [Runs -> Places]
  BY <1>1 DEF OnceOK, RestOK
<1>3. UNCHANGED <<spawnedBy, completing, waiting, steer, announced, exempt>>
  BY DEF FlowFails, FlowExpires, agents, callbacks, control, history
<1>4. CASE ~Present(r)
  <2>1. UNCHANGED <<records, timers>> /\ MoveTo(r, "none")
    BY <1>4 DEF FlowFails, FlowExpires
  <2> QED
    BY <1>1, <1>3, <2>1, MoveKeeps DEF Places, Working
<1>5. CASE Present(r)
  <2> DEFINE old == subagentRuns[r]
  <2>1. r \in DOMAIN subagentRuns /\ old \in Record /\ RecordOK(old, "failed", 0, r \in exempt)
    BY <1>1, <1>2, <1>5 DEF Present, Records, RecordsOK
  <2>2. \E n \in {old.retries, old.retries + 1} : LastTry(r, n) \/ \E w \in BOOLEAN : PutOff(r, n, w)
    <3>1. old.retries < MaxAnnounceRetries /\ old.wake \in BOOLEAN
      BY <2>1 DEF RecordOK, Working, Record
    <3>2. CASE /\ subagentRuns' = [subagentRuns EXCEPT ![r].wake = TRUE, ![r].handled = FALSE]
               /\ disk' = subagentRuns' /\ timers' = timers \cup {r} /\ MoveTo(r, "none")
      <4>1. subagentRuns'[r] = [old EXCEPT !.wake = TRUE, !.handled = FALSE, !.retries = old.retries]
        BY <2>1, <3>2 DEF Record
      <4>2. PutOff(r, old.retries, TRUE)
        BY <1>2, <2>1, <3>1, <3>2, <4>1 DEF Changes, MoveTo, PutOff
      <4> QED
        BY Zenon, <4>2
    <3>3. CASE /\ old.retries + 1 < MaxAnnounceRetries
               /\ subagentRuns' = [subagentRuns EXCEPT ![r].retries = old.retries + 1, ![r].handled = FALSE]
               /\ disk' = subagentRuns' /\ timers' = timers \cup {r} /\ MoveTo(r, "none")
      <4>1. subagentRuns'[r] = [old EXCEPT !.wake = old.wake, !.handled = FALSE, !.retries = old.retries + 1]
        BY <2>1, <3>3 DEF Record
      <4>2. PutOff(r, old.retries + 1, old.wake)
        BY <1>2, <2>1, <3>3, <4>1 DEF Changes, MoveTo, PutOff
      <4> QED
        BY Zenon, <3>1, <4>2
    <3>4. ASSUME NEW n \in {old.retries, old.retries + 1},
                 subagentRuns' = [subagentRuns EXCEPT ![r].wake = FALSE, ![r].retries = n],
                 disk' = disk, timers' = timers, MoveTo(r, "givingUp")
          PROVE  LastTry(r, n)
      <4>1. subagentRuns'[r] = [old EXCEPT !.wake = FALSE, !.retries = n]
        BY <2>1, <3>4 DEF Record
      <4> QED
        BY <1>2, <2>1, <3>4, <4>1 DEF Changes, MoveTo, LastTry
    <3>5. CASE FlowFails(r)
      <4> HIDE DEF old
      <4>1. CASE PendingDescendants(r[1]) = {} /\ ~(old.retries + 1 < MaxAnnounceRetries)
        <5>1. /\ subagentRuns' = [subagentRuns EXCEPT ![r].wake = FALSE, ![r].retries = old.retries + 1]
              /\ disk' = disk /\ timers' = timers /\ MoveTo(r, "givingUp")
          BY <1>5, <3>5, <4>1 DEF FlowFails, old
        <5> QED
          BY <3>4, <5>1
      <4>2. CASE ~(PendingDescendants(r[1]) = {} /\ ~(old.retries + 1 < MaxAnnounceRetries))
        <5>1. CASE PendingDescendants(r[1]) # {}
          BY <1>5, <3>2, <3>5, <5>1 DEF FlowFails
        <5>2. CASE PendingDescendants(r[1]) = {}
          <6>1. old.retries + 1 < MaxAnnounceRetries /\ ~(old.retries + 1 >= MaxAnnounceRetries)
            BY <2>1, <4>2, <5>2, SubagentAssumption DEF Record
          <6> QED
            BY <1>5, <3>3, <3>5, <5>2, <6>1 DEF FlowFails, old
        <5> QED
          BY <5>1, <5>2
      <4> QED
        BY <4>1, <4>2
    <3>6. CASE FlowExpires(r)
      <4> DEFINE n == IF PendingDescendants(r[1]) = {} THEN old.retries + 1 ELSE old.retries
      <4>1. /\ subagentRuns' = [subagentRuns EXCEPT ![r].wake = FALSE, ![r].retries = n]
            /\ disk' = disk /\ timers' = timers /\ MoveTo(r, "givingUp")
        BY <2>1, <3>6 DEF FlowExpires, Record
      <4>2. n \in {old.retries, old.retries + 1}
        OBVIOUS
      <4> HIDE DEF n
      <4> QED
        BY <3>4, <4>1, <4>2
    <3> QED
      BY <3>5, <3>6
  <2>3. ~Steered(old, flow[r]) /\ ~(announced[r] > 0)
    BY <1>1, <1>2 DEF Steered
  <2>4. \A s \in Sessions : steer[s] = r => r \in exempt
    BY <2>1, <2>3, SteeredNow
  <2>5. ASSUME NEW n \in {old.retries, old.retries + 1}, NEW w \in BOOLEAN, PutOff(r, n, w)
        PROVE  IInv'
    <3> DEFINE new == [old EXCEPT !.wake = w, !.handled = FALSE, !.retries = n]
    <3>1. Good(old, new, flow[r], "none", announced[r], announced[r], r \in exempt, r \in exempt)
      BY <1>1, <1>2, <2>1, <2>5, FailedRecord DEF PutOff
    <3>2. /\ Changes(r, new, "none") /\ disk' = subagentRuns' /\ timers' = timers \cup {r}
      BY <2>5 DEF PutOff
    <3> HIDE DEF new
    <3>3. MemoryKept /\ FlowsOfRecords /\ CallbacksOK' /\ OnceOK'
      BY <1>3, <2>3, <2>4, <3>1, <3>2, ChangeKeeps
    <3> QED
      BY <3>2, <3>3, DiskSaved, Assembled
  <2>6. ASSUME NEW n \in {old.retries, old.retries + 1}, LastTry(r, n)
        PROVE  IInv'
    <3> DEFINE new == [old EXCEPT !.wake = FALSE, !.retries = n]
    <3>1. Good(old, new, flow[r], "givingUp", announced[r], announced[r], r \in exempt, r \in exempt)
      BY <1>1, <1>2, <2>1, FailedRecord
    <3>2. Changes(r, new, "givingUp") /\ disk' = disk /\ timers' = timers
      BY <2>6 DEF LastTry
    <3> HIDE DEF new
    <3>3. MemoryKept /\ FlowsOfRecords /\ CallbacksOK' /\ OnceOK'
      BY <1>3, <2>3, <2>4, <3>1, <3>2, ChangeKeeps
    <3>4. \A q \in Runs : Eases(flow[q], flow'[q], announced[q], announced'[q])
      BY <1>1, <1>3, <3>2 DEF Changes, Eases, Working
    <3>5. DiskKept
      BY <1>3, <3>2, <3>4, DiskUntouched
    <3> QED
      BY <3>3, <3>5, Assembled
  <2> QED
    BY <2>2, <2>5, <2>6
<1> QED
  BY <1>4, <1>5

-----------------------------------------------------------------------------
(* Steers and wakes: the run goes on as the one dispatched now.            *)

LEMMA DispatchedFresh ==
  ASSUME IInv, NEW s \in Sessions, NEW n \in Runs, Dispatch(s, n), UNCHANGED spawning
  PROVE  /\ ~Started(n) /\ Started(n)' /\ n[1] = s
         /\ n \notin DOMAIN subagentRuns /\ flow[n] = "none" /\ announced[n] = 0
<1>1. RestOK /\ FreshOK /\ RecordsOK(subagentRuns)
  BY DEF IInv
<1>2. /\ n[1] = s /\ n[2] = dispatched[s] + 1 /\ dispatched[s] \in Nat /\ n[2] \in Nat
      /\ dispatched'[s] = n[2]
  BY <1>1, DispatchFacts, RunFacts
<1>3. ~(n[2] <= dispatched[n[1]]) /\ n[2] <= dispatched'[n[1]]
  BY <1>2
<1>4. n \notin spawning
  BY <1>1, <1>3 DEF FreshOK
<1> QED
  BY <1>1, <1>2, <1>3, <1>4 DEF Started, FreshOK, RecordsOK

(* Run n gets its record, and others may lose theirs.                      *)
Gains(n, w) ==
  /\ n \in DOMAIN subagentRuns' /\ subagentRuns'[n] = Fresh(w)
  /\ \A q \in DOMAIN subagentRuns' \ {n} :
       q \in DOMAIN subagentRuns /\ subagentRuns'[q] = subagentRuns[q] /\ flow'[q] = flow[q]
  /\ disk' = subagentRuns'
  /\ waiting' \subseteq DOMAIN subagentRuns' /\ timers' \subseteq DOMAIN subagentRuns'
  /\ completing' \subseteq completing /\ \A x \in completing' : x[1] \in DOMAIN subagentRuns'
  /\ exempt \subseteq exempt'

LEMMA GainKeeps ==
  ASSUME IInv, Next, NEW n \in Runs, NEW w \in BOOLEAN, Gains(n, w),
         ~Started(n), Started(n)', UNCHANGED <<spawnedBy, announced>>,
         \A q \in Runs : flow'[q] = flow[q] \/ flow'[q] = "none",
         \A s \in Sessions : steer'[s] \in {NoRun, steer[s]},
         \A r \in Runs : Settled(r) /\ Tells(n, r) => n \in exempt'
  PROVE  IInv'
<1>1. /\ Records(subagentRuns) /\ RecordsOK(subagentRuns) /\ SteerOK /\ CallbacksOK /\ OnceOK
      /\ RestOK /\ WaitedFor
  BY DEF IInv
<1>2. n \notin DOMAIN subagentRuns /\ flow[n] = "none" /\ announced[n] = 0
  BY <1>1 DEF IInv, FreshOK, RecordsOK
<1>3. /\ n \in DOMAIN subagentRuns' /\ subagentRuns'[n] = Fresh(w)
      /\ \A q \in DOMAIN subagentRuns' \ {n} :
           q \in DOMAIN subagentRuns /\ subagentRuns'[q] = subagentRuns[q] /\ flow'[q] = flow[q]
  BY DEF Gains
<1>4. /\ disk' = subagentRuns' /\ waiting' \subseteq DOMAIN subagentRuns'
      /\ timers' \subseteq DOMAIN subagentRuns'
      /\ completing' \subseteq completing /\ \A x \in completing' : x[1] \in DOMAIN subagentRuns'
      /\ exempt \subseteq exempt'
  BY DEF Gains
<1>5. \A q \in Runs : flow'[q] # "none" => flow'[q] = flow[q]
  OBVIOUS
<1>6. ASSUME NEW q \in DOMAIN subagentRuns'
      PROVE  /\ q \in Runs /\ Started(q)' /\ subagentRuns'[q] \in Record
             /\ RecordOK(subagentRuns'[q], flow'[q], announced'[q], q \in exempt')
  <2>1. CASE q = n
    <3>1. flow'[q] = "none" /\ announced'[q] = 0 /\ subagentRuns'[q] = Fresh(w)
      BY <1>2, <1>3, <1>5, <2>1
    <3>2. Fresh(w) \in Record /\ RecordOK(Fresh(w), "none", 0, q \in exempt')
      BY FreshFacts
    <3> QED
      BY <1>2, <2>1, <3>1, <3>2
  <2>2. CASE q # n
    <3>1. /\ q \in DOMAIN subagentRuns /\ q \in Runs
          /\ subagentRuns'[q] = subagentRuns[q] /\ flow'[q] = flow[q] /\ announced'[q] = announced[q]
      BY <1>1, <1>3, <2>2 DEF Records
    <3>2. /\ subagentRuns[q] \in Record /\ Started(q)
          /\ RecordOK(subagentRuns[q], flow[q], announced[q], q \in exempt)
      BY <1>1, <3>1 DEF Records, RecordsOK
    <3>3. Started(q)'
      BY <3>1, <3>2, StartedStays
    <3>4. RecordOK(subagentRuns[q], flow[q], announced[q], q \in exempt')
      BY <1>4, <3>2 DEF RecordOK
    <3> QED
      BY <3>1, <3>2, <3>3, <3>4
  <2> QED
    BY <2>1, <2>2
<1>7. Records(subagentRuns)' /\ RecordsOK(subagentRuns)'
  BY <1>6 DEF Records, RecordsOK
<1>8. SteerOK'
  <2>1. ASSUME NEW s \in Sessions, steer'[s] # NoRun
        PROVE  /\ Started(steer[s])'
               /\ steer'[s] \in DOMAIN subagentRuns' \ exempt' =>
                    Steered(subagentRuns'[steer'[s]], flow'[steer'[s]])
    <3>1. /\ steer'[s] = steer[s] /\ steer[s] \in Runs /\ Started(steer[s]) /\ steer[s] # n
      BY <1>1, <1>2, <2>1 DEF SteerOK, RestOK
    <3>2. \A r \in Runs : Started(r) => Started(r)'
      BY StartedStays
    <3>3. Started(steer[s])'
      BY <3>1, <3>2 DEF Started
    <3>4. ASSUME steer'[s] \in DOMAIN subagentRuns' \ exempt'
          PROVE  Steered(subagentRuns'[steer'[s]], flow'[steer'[s]])
      <4>1. /\ steer[s] \in DOMAIN subagentRuns \ exempt
            /\ subagentRuns'[steer[s]] = subagentRuns[steer[s]]
            /\ flow'[steer[s]] = flow[steer[s]]
        BY <1>3, <1>4, <3>1, <3>4
      <4>2. Steered(subagentRuns[steer[s]], flow[steer[s]])
        BY <4>1, SteeredNow
      <4> QED
        BY <3>1, <4>1, <4>2
    <3> QED
      BY <3>3, <3>4
  <2> QED
    BY <2>1 DEF SteerOK
<1>9. ASSUME NEW r \in Runs, flow'[r] \in {"waking", "delivering"} PROVE Settled(r)'
  <2>1. Settled(r)
    BY <1>1, <1>5, <1>9 DEF WaitedFor
  <2>2. Started(r)' /\ ~Alive(r)'
    BY <2>1, StartedStays DEF Settled
  <2>3. ASSUME NEW q \in DOMAIN subagentRuns' \ exempt', Tells(q, r)'
        PROVE  subagentRuns'[q].ended /\ subagentRuns'[q].done
    <3>1. Tells(q, r)
      BY <2>3 DEF Tells
    <3>2. q # n
      BY <2>1, <2>3, <3>1
    <3>3. q \in DOMAIN subagentRuns \ exempt /\ subagentRuns'[q] = subagentRuns[q]
      BY <1>3, <1>4, <2>3, <3>2
    <3> QED
      BY <2>1, <3>1, <3>3 DEF Settled
  <2> QED
    BY <2>2, <2>3 DEF Settled
<1>10. MemoryKept
  BY <1>7, <1>8, <1>9 DEF MemoryKept, WaitedFor
<1>11. CallbacksOK'
  BY <1>1, <1>2, <1>3, <1>4 DEF CallbacksOK
<1>12. FlowsOfRecords /\ OnceOK'
  BY <1>1, <1>5 DEF FlowsOfRecords, OnceOK
<1> QED
  BY <1>4, <1>10, <1>11, <1>12, DiskSaved, Assembled

LEMMA ReplaceKeeps ==
  ASSUME IInv, Next, NEW old \in Runs, NEW n \in Runs, NEW w \in BOOLEAN,
         Dispatch(old[1], n), Replace(old, n, w), UNCHANGED <<spawnedBy, spawning, announced>>,
         \A q \in Runs : flow'[q] = flow[q] \/ (q = old /\ flow'[q] = "none"),
         \A s \in Sessions : steer'[s] \in {NoRun, steer[s]},
         old \in DOMAIN subagentRuns \ exempt => ~subagentRuns[old].done
  PROVE  IInv'
<1>1. Records(subagentRuns) /\ CallbacksOK /\ old[1] \in Sessions
  BY RunFacts DEF IInv
<1>2. ~Started(n) /\ Started(n)' /\ n[1] = old[1] /\ n \notin DOMAIN subagentRuns
  BY <1>1, DispatchedFresh
<1>3. /\ DOMAIN subagentRuns' = (DOMAIN subagentRuns \ {old}) \cup {n}
      /\ subagentRuns'[n] = Fresh(w)
      /\ \A q \in DOMAIN subagentRuns \ {old} : subagentRuns'[q] = subagentRuns[q]
  <2> DEFINE m == Without(subagentRuns, {old})
  <2>1. /\ DOMAIN m = DOMAIN subagentRuns \ {old}
        /\ \A q \in DOMAIN subagentRuns \ {old} : m[q] = subagentRuns[q]
    BY WithoutFacts
  <2> DEFINE new == With(m, n, Fresh(w))
  <2>2. subagentRuns' = new
    BY DEF Replace
  <2>3. /\ DOMAIN new = DOMAIN m \cup {n} /\ new[n] = Fresh(w)
        /\ \A q \in DOMAIN m \ {n} : new[q] = m[q]
    BY DEF With
  <2> HIDE DEF m, new
  <2> QED
    BY <1>2, <2>1, <2>2, <2>3
<1>4. /\ disk' = subagentRuns' /\ waiting' = (waiting \ {old}) \cup {n} /\ timers' = timers \ {old}
      /\ completing' \subseteq completing /\ \A x \in completing' : ~Closed(subagentRuns', x[1])
      /\ exempt \subseteq exempt'
      /\ n \notin exempt' => old \in DOMAIN subagentRuns \ exempt
  BY DEF Replace, DropCallbacks
<1>5. Gains(n, w)
  BY <1>1, <1>3, <1>4 DEF Gains, CallbacksOK, Closed, Records
<1>6. ASSUME NEW r \in Runs, Settled(r), Tells(n, r) PROVE n \in exempt'
  BY <1>2, <1>4, <1>6 DEF Tells, Settled
<1> QED
  BY <1>2, <1>5, <1>6, GainKeeps

LEMMA RegisterKeeps ==
  ASSUME IInv, Next, NEW r \in Runs, Register(r)
  PROVE  IInv'
<1>1. /\ Records(subagentRuns) /\ CallbacksOK /\ FreshOK /\ RestOK /\ r[1] \in Sessions
  BY RunFacts DEF IInv
<1>2. ~Started(r) /\ Started(r)'
  BY <1>1 DEF Register, Started, FreshOK
<1>3. /\ DOMAIN subagentRuns' = DOMAIN subagentRuns \cup {r} /\ subagentRuns'[r] = Fresh(FALSE)
      /\ \A q \in DOMAIN subagentRuns \ {r} : subagentRuns'[q] = subagentRuns[q]
  <2> DEFINE new == With(subagentRuns, r, Fresh(FALSE))
  <2>1. subagentRuns' = new
    BY DEF Register
  <2>2. /\ DOMAIN new = DOMAIN subagentRuns \cup {r} /\ new[r] = Fresh(FALSE)
        /\ \A q \in DOMAIN subagentRuns \ {r} : new[q] = subagentRuns[q]
    BY DEF With
  <2> HIDE DEF new
  <2> QED
    BY <2>1, <2>2
<1>4. /\ disk' = subagentRuns' /\ waiting' = waiting \cup {r} /\ timers' = timers
      /\ completing' = completing /\ exempt \subseteq exempt'
      /\ UNCHANGED <<spawnedBy, announced, flow, steer>>
  BY DEF Register, control
<1>5. Gains(r, FALSE)
  BY <1>1, <1>3, <1>4 DEF Gains, CallbacksOK
<1>6. ASSUME NEW p \in Runs, Settled(p), Tells(r, p), r \notin exempt' PROVE FALSE
  <2> DEFINE by == spawnedBy[r[1]]
  <2>1. by # NoRun /\ by[1] = p[1] /\ by[2] <= p[2] /\ by \in Runs
    BY <1>1, <1>6 DEF Tells, RestOK
  <2>2. by = Current(by[1]) /\ Alive(by)
    BY <1>6, <2>1 DEF Register
  <2>3. p[2] <= dispatched[p[1]] /\ ~Alive(p)
    BY <1>6 DEF Settled, Started
  <2>4. by[2] = dispatched[by[1]]
    BY <2>2 DEF Current
  <2> HIDE DEF by
  <2>5. p[2] \in Int /\ by[2] \in Int
    BY <2>1, RunFacts
  <2>6. by[2] = p[2]
    BY <2>1, <2>3, <2>4, <2>5
  <2>7. by = p
    BY <2>1, <2>6, RunFacts
  <2> QED
    BY <2>2, <2>3, <2>7
<1> QED
  BY <1>2, <1>4, <1>5, <1>6, GainKeeps

LEMMA SteerSendKeeps ==
  ASSUME IInv, Next, NEW r \in Runs, SteerSends(r)
  PROVE  IInv'
<1>1. r[1] \in Sessions /\ steer \in [Sessions -> Runs \cup {NoRun}]
  BY RunFacts DEF IInv, RestOK
<1>2. PICK n \in Runs : Dispatch(r[1], n) /\ Replace(r, n, FALSE)
  BY DEF SteerSends
<1>3. /\ UNCHANGED <<spawnedBy, spawning, announced, flow>>
      /\ steer[r[1]] = r /\ steer' = [steer EXCEPT ![r[1]] = NoRun]
  BY DEF SteerSends
<1>4. r \in DOMAIN subagentRuns \ exempt => ~subagentRuns[r].done
  BY <1>1, <1>3, SteeredNow DEF Steered
<1> QED
  BY <1>1, <1>2, <1>3, <1>4, ReplaceKeeps

LEMMA WakeKeeps ==
  ASSUME IInv, Next, NEW r \in Runs, FlowWakes(r)
  PROVE  IInv'
<1>1. /\ flow[r] = "waking" /\ flow \in [Runs -> Places] /\ RecordsOK(subagentRuns)
      /\ UNCHANGED <<spawnedBy, spawning, steer, announced>>
  BY DEF FlowWakes, control, IInv, RestOK
<1>2. CASE MoveTo(r, "delivering") /\ UNCHANGED <<records, callbacks, timers, exempt>>
  BY <1>1, <1>2, MoveKeeps DEF Places, Working, callbacks
<1>3. CASE Present(r) /\ MoveTo(r, "none") /\ \E n \in Runs : Dispatch(r[1], n) /\ Replace(r, n, TRUE)
  <2>1. PICK n \in Runs : Dispatch(r[1], n) /\ Replace(r, n, TRUE)
    BY <1>3
  <2>2. \A q \in Runs : flow'[q] = flow[q] \/ (q = r /\ flow'[q] = "none")
    BY <1>1, <1>3 DEF MoveTo
  <2>3. ~subagentRuns[r].done
    BY <1>1, <1>3 DEF Present, RecordsOK, RecordOK, Working
  <2> QED
    BY <1>1, <2>1, <2>2, <2>3, ReplaceKeeps
<1> QED
  BY <1>2, <1>3 DEF FlowWakes

-----------------------------------------------------------------------------
(* The steps that resume runs. *)

(* Before runs are resumed, the step turns the records in memory into m    *)
(* and the flows into f.                                                   *)
Prepares(m, f) ==
  /\ Records(m) /\ DOMAIN m \subseteq DOMAIN subagentRuns
  /\ f \in [Runs -> Places] /\ \A q \in Runs : f[q] \in {"none", flow[q]}
  /\ \A q \in DOMAIN m :
       /\ Good(subagentRuns[q], m[q], flow[q], f[q], announced[q], announced[q],
               q \in exempt, q \in exempt)
       /\ (\E s \in Sessions : steer'[s] = q) /\ Steered(subagentRuns[q], flow[q]) =>
            Steered(m[q], f[q])

LEMMA ResumesKeep ==
  ASSUME IInv, Next, NEW m, NEW f, Prepares(m, f), NEW t \in SUBSET DOMAIN m, NEW w,
         NEW S \in SUBSET DOMAIN m, NEW early \in SUBSET S, Resume(m, f, t, w, S, early),
         UNCHANGED <<spawnedBy, announced, exempt>>,
         \A s \in Sessions : steer'[s] \in {NoRun, steer[s]},
         completing' \subseteq completing, \A x \in completing' : x[1] \in DOMAIN subagentRuns'
  PROVE  /\ MemoryKept /\ FlowsOfRecords /\ CallbacksOK' /\ OnceOK'
         /\ \A q \in Runs : flow'[q] # f[q] =>
              /\ q \in DOMAIN subagentRuns' /\ subagentRuns'[q] # m[q]
              /\ flow'[q] = "settling" /\ announced[q] = 0
<1>1. /\ Records(subagentRuns) /\ RecordsOK(subagentRuns) /\ SteerOK /\ CallbacksOK /\ OnceOK
      /\ RestOK
  BY DEF IInv
<1>2. /\ Records(m) /\ DOMAIN m \subseteq DOMAIN subagentRuns /\ f \in [Runs -> Places]
      /\ \A q \in Runs : f[q] \in {"none", flow[q]}
  BY DEF Prepares
<1>3. /\ DOMAIN subagentRuns' \subseteq DOMAIN m
      /\ \A q \in DOMAIN subagentRuns' : Resumed(m[q], subagentRuns'[q], f[q], flow'[q])
      /\ \A q \in Runs \ DOMAIN subagentRuns' : flow'[q] = f[q]
      /\ timers' \subseteq DOMAIN subagentRuns' /\ waiting' \subseteq DOMAIN subagentRuns'
  BY <1>2, ResumeFacts
<1>4. ASSUME NEW q \in DOMAIN subagentRuns'
      PROVE  /\ q \in Runs /\ announced[q] \in Nat
             /\ Good(subagentRuns[q], subagentRuns'[q], flow[q], flow'[q], announced[q], announced[q],
                     q \in exempt, q \in exempt)
             /\ (\E s \in Sessions : steer'[s] = q) /\ Steered(subagentRuns[q], flow[q]) =>
                  Steered(subagentRuns'[q], flow'[q])
             /\ announced[q] > 0 => flow'[q] = f[q]
             /\ flow'[q] # f[q] => flow'[q] = "settling" /\ subagentRuns'[q] # m[q]
  <2>1. /\ q \in DOMAIN m /\ q \in DOMAIN subagentRuns /\ q \in Runs /\ m[q] \in Record
        /\ announced[q] \in Nat
    BY <1>1, <1>2, <1>3 DEF Records, RestOK
  <2>2. /\ Good(subagentRuns[q], m[q], flow[q], f[q], announced[q], announced[q],
                q \in exempt, q \in exempt)
        /\ (\E s \in Sessions : steer'[s] = q) /\ Steered(subagentRuns[q], flow[q]) =>
             Steered(m[q], f[q])
    BY <2>1 DEF Prepares
  <2>3. RecordOK(m[q], f[q], announced[q], q \in exempt)
    BY <2>2 DEF Good
  <2>4. Resumed(m[q], subagentRuns'[q], f[q], flow'[q])
    BY <1>3
  <2>5. /\ Good(m[q], subagentRuns'[q], f[q], flow'[q], announced[q], announced[q],
                q \in exempt, q \in exempt)
        /\ announced[q] > 0 => flow'[q] = f[q]
        /\ Steered(m[q], f[q]) => Steered(subagentRuns'[q], flow'[q])
        /\ flow'[q] # f[q] => flow'[q] = "settling" /\ subagentRuns'[q] # m[q]
    BY <2>1, <2>3, <2>4, GoodResumed
  <2>6. Good(subagentRuns[q], subagentRuns'[q], flow[q], flow'[q], announced[q], announced[q],
             q \in exempt, q \in exempt)
    BY <2>2, <2>5 DEF Good
  <2> QED
    BY <2>1, <2>2, <2>5, <2>6
<1>5. ASSUME NEW s \in Sessions, steer'[s] # NoRun
      PROVE  /\ Started(steer'[s])
             /\ steer'[s] \in DOMAIN subagentRuns' \ exempt' =>
                  Steered(subagentRuns'[steer'[s]], flow'[steer'[s]])
  <2>1. steer'[s] = steer[s] /\ Started(steer[s])
    BY <1>1, <1>5 DEF SteerOK
  <2>2. ASSUME steer[s] \in DOMAIN subagentRuns' \ exempt'
        PROVE  Steered(subagentRuns'[steer[s]], flow'[steer[s]])
    <3>1. steer[s] \in DOMAIN subagentRuns \ exempt
      BY <1>2, <1>3, <2>2
    <3>2. Steered(subagentRuns[steer[s]], flow[steer[s]])
      BY <3>1, SteeredNow
    <3> QED
      BY <1>4, <2>1, <2>2, <3>2
  <2> QED
    BY <2>1, <2>2
<1>6. \A q \in Runs : flow'[q] # f[q] =>
        /\ q \in DOMAIN subagentRuns' /\ subagentRuns'[q] # m[q]
        /\ flow'[q] = "settling" /\ announced[q] = 0
  BY <1>3, <1>4
<1>7. \A q \in Runs : flow'[q] \in {"none", "settling", flow[q]}
  BY <1>2, <1>6
<1>8. Effect
  BY <1>2, <1>3, <1>4, <1>5, <1>7 DEF Effect
<1>9. CallbacksOK'
  BY <1>1, <1>3, <1>4 DEF CallbacksOK, Good
<1>10. FlowsOfRecords
  BY <1>2, <1>6 DEF FlowsOfRecords
<1>11. OnceOK'
  BY <1>1, <1>2, <1>6 DEF OnceOK
<1> QED
  BY <1>6, <1>8, <1>9, <1>10, <1>11, EffectKeeps

(* A step that prepares nothing. *)
LEMMA PreparesNothing ==
  ASSUME IInv
  PROVE  Prepares(subagentRuns, flow)
<1>1. Records(subagentRuns) /\ RecordsOK(subagentRuns) /\ flow \in [Runs -> Places]
  BY DEF IInv, RestOK
<1> QED
  BY <1>1 DEF Prepares, Good, Records, RecordsOK

LEMMA TimerKeeps ==
  ASSUME IInv, Next, NEW r \in Runs, ResumeTimer(r)
  PROVE  IInv'
<1>1. /\ r \in DOMAIN subagentRuns /\ timers \ {r} \in SUBSET DOMAIN subagentRuns
      /\ {r} \in SUBSET DOMAIN subagentRuns /\ {} \in SUBSET {r}
  BY DEF IInv, CallbacksOK, ResumeTimer
<1>2. /\ Resume(subagentRuns, flow, timers \ {r}, waiting, {r}, {})
      /\ UNCHANGED <<spawnedBy, announced, exempt, steer>>
      /\ completing' \subseteq completing /\ \A x \in completing' : ~Closed(subagentRuns', x[1])
      /\ disk' = IF subagentRuns' = subagentRuns THEN disk ELSE subagentRuns'
  BY DEF ResumeTimer, DropCallbacks, agents, control, history
<1>3. \A x \in completing' : x[1] \in DOMAIN subagentRuns'
  BY <1>2 DEF Closed
<1>4. Prepares(subagentRuns, flow)
  BY PreparesNothing
<1>5. /\ MemoryKept /\ FlowsOfRecords /\ CallbacksOK' /\ OnceOK'
      /\ \A q \in Runs : flow'[q] # flow[q] => subagentRuns'[q] # subagentRuns[q]
  BY <1>1, <1>2, <1>3, <1>4, ResumesKeep
<1>6. CASE disk' = subagentRuns'
  BY <1>5, <1>6, DiskSaved, Assembled
<1>7. CASE disk' = disk /\ subagentRuns' = subagentRuns
  <2>1. \A q \in Runs : Eases(flow[q], flow'[q], announced[q], announced'[q])
    BY <1>2, <1>5, <1>7 DEF Eases
  <2>2. DiskKept
    BY <1>2, <1>7, <2>1, DiskUntouched
  <2> QED
    BY <1>5, <2>2, Assembled
<1> QED
  BY <1>2, <1>6, <1>7

(* The record of a run whose flow is over. *)
LEMMA FinishedRecord ==
  ASSUME NEW old \in Record, NEW f \in {"finishing", "givingUp"}, NEW a \in Nat, NEW x,
         RecordOK(old, f, a, x)
  PROVE  Good(old, [old EXCEPT !.done = TRUE, !.wake = FALSE], f, "none", a, a, x, x)
<1> DEFINE new == [old EXCEPT !.done = TRUE, !.wake = FALSE]
<1>1. /\ new \in Record /\ new.ended = old.ended /\ new.done /\ new.suppress = old.suppress
      /\ new.handled = old.handled /\ new.retries = old.retries
  BY DEF Record
<1> HIDE DEF new
<1>2. Good(old, new, f, "none", a, a, x, x)
  BY <1>1 DEF Good, RecordOK, Working
<1> QED
  BY <1>2 DEF new

LEMMA FinishPrepares ==
  ASSUME IInv, NEW r \in Runs, flow[r] \in {"finishing", "givingUp"}, NEW m,
         \/ m = Without(subagentRuns, {r})
         \/ m = [q \in DOMAIN subagentRuns |->
                   [subagentRuns[q] EXCEPT !.done = @ \/ q = r, !.wake = @ /\ q # r]]
  PROVE  Prepares(m, [flow EXCEPT ![r] = "none"])
<1> DEFINE f == [flow EXCEPT ![r] = "none"]
<1>1. /\ Records(subagentRuns) /\ RecordsOK(subagentRuns) /\ flow \in [Runs -> Places]
      /\ announced \in [Runs -> Nat]
  BY DEF IInv, RestOK
<1>2. /\ f \in [Runs -> Places] /\ f[r] = "none" /\ \A q \in Runs \ {r} : f[q] = flow[q]
  BY <1>1 DEF Places
<1>3. \A q \in DOMAIN subagentRuns :
        /\ q \in Runs /\ subagentRuns[q] \in Record /\ announced[q] \in Nat
        /\ RecordOK(subagentRuns[q], flow[q], announced[q], q \in exempt)
  BY <1>1 DEF Records, RecordsOK
<1>4. /\ DOMAIN m \subseteq DOMAIN subagentRuns
      /\ \A q \in DOMAIN m \ {r} : m[q] = subagentRuns[q]
      /\ r \in DOMAIN m => m[r] = [subagentRuns[r] EXCEPT !.done = TRUE, !.wake = FALSE]
  <2>1. CASE m = Without(subagentRuns, {r})
    BY <2>1 DEF Without
  <2>2. CASE m = [q \in DOMAIN subagentRuns |->
                    [subagentRuns[q] EXCEPT !.done = @ \/ q = r, !.wake = @ /\ q # r]]
    <3>1. DOMAIN m = DOMAIN subagentRuns
      BY <2>2
    <3>2. ASSUME NEW q \in DOMAIN subagentRuns
          PROVE  /\ q # r => m[q] = subagentRuns[q]
                 /\ q = r => m[q] = [subagentRuns[q] EXCEPT !.done = TRUE, !.wake = FALSE]
      <4> DEFINE rec == subagentRuns[q]
      <4>1. m[q] = [rec EXCEPT !.done = @ \/ q = r, !.wake = @ /\ q # r] /\ rec \in Record
        BY <1>3, <2>2
      <4> HIDE DEF rec
      <4>2. CASE q = r
        <5>1. (rec.done \/ q = r) = TRUE /\ (rec.wake /\ q # r) = FALSE
          BY <4>2
        <5>2. m[q] = [rec EXCEPT !.done = TRUE, !.wake = FALSE]
          BY <4>1, <5>1
        <5> QED
          BY <4>2, <5>2 DEF rec
      <4>3. CASE q # r
        <5>1. (rec.done \/ q = r) = rec.done /\ (rec.wake /\ q # r) = rec.wake
          BY <4>1, <4>3 DEF Record
        <5>2. [rec EXCEPT !.done = rec.done, !.wake = rec.wake] = rec
          BY <4>1 DEF Record
        <5>3. m[q] = [rec EXCEPT !.done = rec.done, !.wake = rec.wake]
          BY <4>1, <5>1
        <5> QED
          BY <4>3, <5>2, <5>3 DEF rec
      <4> QED
        BY <4>2, <4>3
    <3> QED
      BY <3>1, <3>2
  <2> QED
    BY <2>1, <2>2
<1> HIDE DEF f
<1>5. ASSUME NEW q \in DOMAIN m
      PROVE  /\ Good(subagentRuns[q], m[q], flow[q], f[q], announced[q], announced[q],
                     q \in exempt, q \in exempt)
             /\ Steered(subagentRuns[q], flow[q]) => Steered(m[q], f[q])
  <2>1. CASE q = r
    <3>1. /\ subagentRuns[r] \in Record /\ announced[r] \in Nat
          /\ RecordOK(subagentRuns[r], flow[r], announced[r], r \in exempt)
      BY <1>3, <1>4, <2>1
    <3>2. Good(subagentRuns[r], [subagentRuns[r] EXCEPT !.done = TRUE, !.wake = FALSE], flow[r],
               "none", announced[r], announced[r], r \in exempt, r \in exempt)
      BY <3>1, FinishedRecord
    <3>3. m[r] = [subagentRuns[r] EXCEPT !.done = TRUE, !.wake = FALSE]
      BY <1>4, <2>1
    <3> QED
      BY <1>2, <2>1, <3>2, <3>3 DEF Steered
  <2>2. CASE q # r
    <3>1. m[q] = subagentRuns[q] /\ f[q] = flow[q] /\ q \in DOMAIN subagentRuns
      BY <1>2, <1>3, <1>4, <2>2
    <3> QED
      BY <1>3, <3>1 DEF Good
  <2> QED
    BY <2>1, <2>2
<1>6. \A q \in DOMAIN m : m[q] \in Record
  BY <1>5 DEF Good
<1>7. Records(m)
  BY <1>1, <1>4, <1>6 DEF Records
<1>8. Prepares(m, f)
  BY <1>2, <1>4, <1>5, <1>7 DEF Prepares
<1> QED
  BY <1>8 DEF f

LEMMA FinishKeeps ==
  ASSUME IInv, Next, NEW r \in Runs, FlowFinishes(r)
  PROVE  IInv'
<1> DEFINE m == IF flow[r] = "finishing" /\ kind[r[1]] = "delete"
                THEN Without(subagentRuns, {r})
                ELSE [q \in DOMAIN subagentRuns |->
                        [subagentRuns[q] EXCEPT !.done = @ \/ q = r, !.wake = @ /\ q # r]]
           f == [flow EXCEPT ![r] = "none"]
<1>1. PICK early \in SUBSET Backoff(m, Deferred(m, r)) :
        Resume(m, f, timers \cap DOMAIN m, waiting, Deferred(m, r), early)
  BY DEF FlowFinishes
<1>2. flow[r] \in {"finishing", "givingUp"}
  BY DEF FlowFinishes
<1>3. Prepares(m, f)
  BY <1>2, FinishPrepares
<1> HIDE DEF m, f
<1>4. /\ Deferred(m, r) \in SUBSET DOMAIN m /\ early \in SUBSET Deferred(m, r)
      /\ timers \cap DOMAIN m \in SUBSET DOMAIN m
  BY <1>1 DEF Backoff, Deferred
<1>5. /\ UNCHANGED <<spawnedBy, announced, exempt, steer>> /\ disk' = subagentRuns'
      /\ completing' \subseteq completing /\ \A x \in completing' : ~Closed(subagentRuns', x[1])
  BY DEF FlowFinishes, DropCallbacks, agents, control, history
<1>6. \A x \in completing' : x[1] \in DOMAIN subagentRuns'
  BY <1>5 DEF Closed
<1>7. MemoryKept /\ FlowsOfRecords /\ CallbacksOK' /\ OnceOK'
  BY <1>1, <1>3, <1>4, <1>5, <1>6, ResumesKeep
<1> QED
  BY <1>5, <1>7, DiskSaved, Assembled

LEMMA CrashKeeps ==
  ASSUME IInv, Next, Crash
  PROVE  IInv'
<1> DEFINE f == [r \in Runs |-> "none"]
<1>1. /\ Records(disk) /\ RecordsOK(disk) /\ OnceOK /\ RestOK
      /\ f \in [Runs -> Places] /\ \A r \in Runs : f[r] = "none"
  BY DEF IInv, Places
<1>2. PICK m \in {disk, <<>>} :
        \E early \in SUBSET Backoff(m, DOMAIN m) : Resume(m, f, {}, {}, DOMAIN m, early)
  BY DEF Crash
<1>3. /\ \A s \in Sessions : steer'[s] = NoRun
      /\ completing' = {} /\ disk' = subagentRuns' /\ announced' = announced /\ exempt' = exempt
  BY DEF Crash
<1> HIDE DEF f
<1>4. Records(m) /\ RecordsOK(m)
  BY <1>1 DEF Records, RecordsOK
<1>5. PICK early \in SUBSET DOMAIN m : Resume(m, f, {}, {}, DOMAIN m, early)
  BY <1>2 DEF Backoff
<1>6. /\ DOMAIN subagentRuns' \subseteq DOMAIN m
      /\ \A q \in DOMAIN subagentRuns' : Resumed(m[q], subagentRuns'[q], f[q], flow'[q])
      /\ \A q \in Runs \ DOMAIN subagentRuns' : flow'[q] = f[q]
      /\ timers' \subseteq DOMAIN subagentRuns' /\ waiting' \subseteq DOMAIN subagentRuns'
  <2> DEFINE S == DOMAIN m
             t == {}
  <2>1. S \in SUBSET DOMAIN m /\ t \subseteq DOMAIN m /\ early \in SUBSET S
    OBVIOUS
  <2>2. Resume(m, f, t, t, S, early)
    BY <1>5
  <2> HIDE DEF S, t
  <2> QED
    BY <1>1, <1>4, <2>1, <2>2, ResumeFacts
<1>7. ASSUME NEW q \in DOMAIN subagentRuns'
      PROVE  /\ q \in Runs /\ Started(q)' /\ subagentRuns'[q] \in Record
             /\ RecordOK(subagentRuns'[q], flow'[q], announced'[q], q \in exempt')
             /\ flow'[q] # "none" => flow'[q] = "settling" /\ announced[q] = 0
  <2>1. /\ q \in DOMAIN m /\ q \in Runs /\ m[q] \in Record /\ Started(q) /\ announced[q] \in Nat
        /\ RecordOK(m[q], flow[q], announced[q], q \in exempt)
    BY <1>1, <1>4, <1>6 DEF Records, RecordsOK, RestOK
  <2>2. RecordOK(m[q], f[q], announced[q], q \in exempt)
    BY <1>1, <2>1 DEF RecordOK, Working
  <2>3. Resumed(m[q], subagentRuns'[q], f[q], flow'[q])
    BY <1>6
  <2>4. /\ Good(m[q], subagentRuns'[q], f[q], flow'[q], announced[q], announced[q],
                q \in exempt, q \in exempt)
        /\ announced[q] > 0 => flow'[q] = f[q]
        /\ flow'[q] # f[q] => flow'[q] = "settling" /\ subagentRuns'[q] # m[q]
    BY <2>1, <2>2, <2>3, GoodResumed
  <2>5. Started(q)'
    BY <2>1, StartedStays
  <2> QED
    BY <1>1, <1>3, <2>1, <2>4, <2>5 DEF Good
<1>8. Records(subagentRuns)' /\ RecordsOK(subagentRuns)'
  BY <1>7 DEF Records, RecordsOK
<1>9. \A q \in Runs : flow'[q] # "none" =>
        q \in DOMAIN subagentRuns' /\ flow'[q] = "settling" /\ announced[q] = 0
  BY <1>1, <1>6, <1>7
<1>10. MemoryKept
  BY <1>3, <1>8, <1>9 DEF MemoryKept, SteerOK, WaitedFor
<1>11. FlowsOfRecords /\ CallbacksOK' /\ OnceOK'
  BY <1>1, <1>3, <1>6, <1>9 DEF FlowsOfRecords, CallbacksOK, OnceOK
<1> QED
  BY <1>3, <1>10, <1>11, DiskSaved, Assembled

-----------------------------------------------------------------------------
(* Steers, kills and sweeps. *)

LEMMA SteerMarkKeeps ==
  ASSUME IInv, Next, NEW r \in Runs, SteerMarks(r)
  PROVE  IInv'
<1> DEFINE old == subagentRuns[r]
           new == [old EXCEPT !.suppress = "steer-restart"]
<1>1. /\ Records(subagentRuns) /\ RecordsOK(subagentRuns) /\ RestOK
  BY DEF IInv
<1>2. /\ r \in DOMAIN subagentRuns /\ old \in Record /\ ~old.ended
      /\ announced[r] \in Nat /\ RecordOK(old, flow[r], announced[r], r \in exempt)
  BY <1>1 DEF SteerMarks, Present, Records, RecordsOK, RestOK
<1>3. /\ disk' = subagentRuns' /\ flow' = flow
      /\ UNCHANGED <<spawnedBy, announced, exempt, completing, waiting, timers>>
      /\ \A s \in Sessions : steer'[s] \in {NoRun, steer[s], r}
  BY <1>1 DEF SteerMarks, agents, callbacks, history, RestOK
<1>4. subagentRuns' = [subagentRuns EXCEPT ![r].suppress = "steer-restart"]
  BY DEF SteerMarks
<1>5. Changes(r, new, flow[r])
  BY <1>2, <1>3, <1>4 DEF Changes
<1> HIDE DEF old
<1>6. /\ flow[r] = "none" /\ ~(announced[r] > 0) /\ ~old.done /\ old.retries < MaxAnnounceRetries
  BY <1>2 DEF RecordOK
<1>7. /\ new \in Record /\ new.suppress = "steer-restart" /\ new.ended = old.ended
      /\ new.handled = old.handled /\ new.done = old.done /\ new.retries = old.retries
  BY <1>2 DEF Record
<1> HIDE DEF new
<1>8. /\ Good(old, new, flow[r], flow[r], announced[r], announced[r], r \in exempt, r \in exempt)
      /\ Steered(new, flow[r])
  BY <1>2, <1>6, <1>7 DEF Good, RecordOK, Working, Steered
<1>9. MemoryKept /\ FlowsOfRecords /\ CallbacksOK' /\ OnceOK'
  BY <1>3, <1>5, <1>6, <1>8, ChangeKeeps DEF old
<1> QED
  BY <1>3, <1>9, DiskSaved, Assembled

(* The steps that change records one by one, without a flow. *)
LEMMA EffectAssembled ==
  ASSUME IInv, Next, Effect, flow' = flow, announced' = announced,
         waiting' \subseteq DOMAIN subagentRuns', timers' \subseteq DOMAIN subagentRuns',
         completing' \subseteq completing, \A x \in completing' : x[1] \in DOMAIN subagentRuns',
         disk' = subagentRuns' \/ disk' = disk
  PROVE  IInv'
<1>1. CallbacksOK /\ OnceOK /\ exempt \subseteq exempt'
  BY DEF IInv, Effect
<1>2. MemoryKept
  BY EffectKeeps
<1>3. DiskKept
  BY <1>1, <1>2, DiskSaved, DiskUntouched DEF Eases
<1>4. CallbacksOK'
  BY <1>1 DEF CallbacksOK, Effect, Good
<1>5. FlowsOfRecords /\ OnceOK'
  BY <1>1 DEF FlowsOfRecords, OnceOK
<1> QED
  BY <1>2, <1>3, <1>4, <1>5, Assembled

LEMMA SweepKeeps ==
  ASSUME IInv, Next, NEW r \in Runs, Sweep(r)
  PROVE  IInv'
<1>1. Records(subagentRuns) /\ RecordsOK(subagentRuns) /\ CallbacksOK /\ SteerOK /\ WaitedFor
  BY DEF IInv
<1>2. /\ DOMAIN subagentRuns' = DOMAIN subagentRuns \ {r}
      /\ \A q \in DOMAIN subagentRuns' : subagentRuns'[q] = subagentRuns[q]
  BY DEF Sweep, Without
<1>3. /\ disk' = subagentRuns' /\ completing' \subseteq completing
      /\ \A x \in completing' : ~Closed(subagentRuns', x[1])
      /\ waiting' = waiting \ {r} /\ timers' = timers \ {r}
      /\ UNCHANGED <<spawnedBy, flow, announced, exempt, steer>>
  BY DEF Sweep, DropCallbacks, agents, control, history
<1>4. \A q \in DOMAIN subagentRuns' :
        Good(subagentRuns[q], subagentRuns'[q], flow[q], flow'[q], announced[q], announced'[q],
             q \in exempt, q \in exempt')
  BY <1>1, <1>2, <1>3 DEF Good, Records, RecordsOK
<1>5. \A s \in Sessions : steer'[s] # NoRun =>
        /\ Started(steer'[s])
        /\ steer'[s] \in DOMAIN subagentRuns' \ exempt' =>
             Steered(subagentRuns'[steer'[s]], flow'[steer'[s]])
  BY <1>1, <1>2, <1>3 DEF SteerOK
<1>6. Effect
  BY <1>2, <1>3, <1>4, <1>5 DEF Effect
<1>7. waiting' \subseteq DOMAIN subagentRuns' /\ timers' \subseteq DOMAIN subagentRuns'
  BY <1>1, <1>2, <1>3 DEF CallbacksOK
<1>8. \A x \in completing' : x[1] \in DOMAIN subagentRuns'
  BY <1>3 DEF Closed
<1> QED
  BY <1>3, <1>6, <1>7, <1>8, EffectAssembled

(* The record of a run that is killed. *)
LEMMA KilledRecord ==
  ASSUME NEW old \in Record, NEW f, NEW a \in Nat, NEW x, RecordOK(old, f, a, x), ~old.ended
  PROVE  Good(old, [old EXCEPT !.ended = TRUE, !.handled = TRUE, !.done = TRUE,
                               !.suppress = "killed"], f, f, a, a, x, TRUE)
<1> DEFINE new == [old EXCEPT !.ended = TRUE, !.handled = TRUE, !.done = TRUE,
                              !.suppress = "killed"]
<1>1. /\ new \in Record /\ new.ended /\ new.handled /\ new.done /\ new.suppress = "killed"
      /\ new.retries = old.retries
  BY DEF Record
<1> HIDE DEF new
<1>2. Good(old, new, f, f, a, a, x, TRUE)
  BY <1>1 DEF Good, RecordOK, Working
<1> QED
  BY <1>2 DEF new

LEMMA KillKeeps ==
  ASSUME IInv, Next, NEW r \in Runs, KillMarks(r)
  PROVE  IInv'
<1> DEFINE marked == {q \in DOMAIN subagentRuns : q[1] = r[1] /\ ~subagentRuns[q].ended}
<1>1. /\ Records(subagentRuns) /\ RecordsOK(subagentRuns) /\ CallbacksOK /\ SteerOK /\ RestOK
  BY DEF IInv
<1>2. /\ subagentRuns' = [q \in DOMAIN subagentRuns |->
            IF q \notin marked THEN subagentRuns[q]
            ELSE [subagentRuns[q] EXCEPT !.ended = TRUE, !.handled = TRUE, !.done = TRUE,
                                         !.suppress = "killed"]]
      /\ exempt' = exempt \cup marked /\ disk' \in {disk, subagentRuns'}
      /\ UNCHANGED <<spawnedBy, flow, announced, steer, waiting, timers, completing>>
  BY DEF KillMarks, agents
<1>3. \A q \in marked : q \in DOMAIN subagentRuns /\ ~subagentRuns[q].ended
  OBVIOUS
<1> HIDE DEF marked
<1>4. ASSUME NEW q \in DOMAIN subagentRuns
      PROVE  /\ Good(subagentRuns[q], subagentRuns'[q], flow[q], flow[q], announced[q],
                     announced[q], q \in exempt, q \in exempt')
             /\ q \notin exempt' => subagentRuns'[q] = subagentRuns[q]
  <2>1. /\ subagentRuns[q] \in Record /\ announced[q] \in Nat
        /\ RecordOK(subagentRuns[q], flow[q], announced[q], q \in exempt)
    BY <1>1 DEF Records, RecordsOK, RestOK
  <2>2. CASE q \in marked
    <3>1. subagentRuns'[q] = [subagentRuns[q] EXCEPT !.ended = TRUE, !.handled = TRUE,
                                                     !.done = TRUE, !.suppress = "killed"]
      BY <1>2, <2>2
    <3>2. ~subagentRuns[q].ended
      BY <1>3, <2>2
    <3>3. Good(subagentRuns[q], [subagentRuns[q] EXCEPT !.ended = TRUE, !.handled = TRUE,
                                                        !.done = TRUE, !.suppress = "killed"],
               flow[q], flow[q], announced[q], announced[q], q \in exempt, TRUE)
      BY <2>1, <3>2, KilledRecord
    <3>4. (q \in exempt') = TRUE
      BY <1>2, <2>2
    <3> QED
      BY <3>1, <3>3, <3>4
  <2>3. CASE q \notin marked
    <3>1. subagentRuns'[q] = subagentRuns[q] /\ (q \in exempt' <=> q \in exempt)
      BY <1>2, <2>3
    <3> QED
      BY <2>1, <3>1 DEF Good, RecordOK
  <2> QED
    BY <2>2, <2>3
<1>5. DOMAIN subagentRuns' = DOMAIN subagentRuns /\ exempt \subseteq exempt'
  BY <1>2
<1>6. \A s \in Sessions : steer'[s] # NoRun =>
        /\ Started(steer'[s])
        /\ steer'[s] \in DOMAIN subagentRuns' \ exempt' =>
             Steered(subagentRuns'[steer'[s]], flow'[steer'[s]])
  BY <1>1, <1>2, <1>4, <1>5 DEF SteerOK
<1>7. Effect
  BY <1>2, <1>4, <1>5, <1>6 DEF Effect, IInv
<1>8. /\ waiting' \subseteq DOMAIN subagentRuns' /\ timers' \subseteq DOMAIN subagentRuns'
      /\ \A x \in completing' : x[1] \in DOMAIN subagentRuns'
  BY <1>1, <1>2, <1>5 DEF CallbacksOK
<1> QED
  BY <1>2, <1>7, <1>8, EffectAssembled

LEMMA SteerFailKeeps ==
  ASSUME IInv, Next, NEW r \in Runs, SteerFails(r)
  PROVE  IInv'
<1> DEFINE m == [subagentRuns EXCEPT ![r].suppress = "no"]
           S == {q \in {r} : m[q].ended /\ ~m[q].done}
<1>1. /\ Records(subagentRuns) /\ RecordsOK(subagentRuns) /\ CallbacksOK /\ SteerOK
      /\ SteerOfSession /\ RestOK /\ r[1] \in Sessions
  BY RunFacts DEF IInv
<1>2. /\ UNCHANGED <<spawnedBy, announced, exempt>>
      /\ \A s \in Sessions : steer'[s] \in {NoRun, steer[s]}
      /\ steer'[r[1]] = NoRun
  BY <1>1 DEF SteerFails, agents, history, RestOK
<1>3. \A s \in Sessions : steer'[s] # r
  BY <1>1, <1>2, RunFacts DEF SteerOfSession
<1>4. CASE Present(r) /\ subagentRuns[r].suppress = "steer-restart"
  <2>1. /\ Resume(m, flow, timers, waiting, S, {}) /\ disk' = subagentRuns'
        /\ completing' \subseteq completing /\ \A x \in completing' : ~Closed(subagentRuns', x[1])
    BY <1>4 DEF SteerFails, DropCallbacks
  <2>2. /\ DOMAIN m = DOMAIN subagentRuns /\ r \in DOMAIN subagentRuns
        /\ \A q \in DOMAIN subagentRuns \ {r} : m[q] = subagentRuns[q]
        /\ m[r] = [subagentRuns[r] EXCEPT !.suppress = "no"]
    BY <1>4 DEF Present
  <2>3. S \in SUBSET DOMAIN m /\ {} \in SUBSET S
    BY <2>2
  <2> HIDE DEF m, S
  <2>4. \A q \in DOMAIN subagentRuns :
          /\ q \in Runs /\ subagentRuns[q] \in Record
          /\ RecordOK(subagentRuns[q], flow[q], announced[q], q \in exempt)
    BY <1>1 DEF Records, RecordsOK
  <2>5. ASSUME NEW q \in DOMAIN m
        PROVE  /\ Good(subagentRuns[q], m[q], flow[q], flow[q], announced[q], announced[q],
                       q \in exempt, q \in exempt)
               /\ q # r => m[q] = subagentRuns[q]
    <3>1. CASE q = r
      <4> DEFINE old == subagentRuns[r]
                 new == [old EXCEPT !.suppress = "no"]
      <4>1. /\ old \in Record /\ old.suppress = "steer-restart" /\ m[q] = new
            /\ RecordOK(old, flow[r], announced[r], r \in exempt)
        BY <1>4, <2>2, <2>4, <3>1
      <4> HIDE DEF old
      <4>2. /\ new \in Record /\ new.suppress = "no" /\ new.ended = old.ended
            /\ new.handled = old.handled /\ new.done = old.done /\ new.retries = old.retries
        BY <4>1 DEF Record
      <4> HIDE DEF new
      <4>3. Good(old, new, flow[r], flow[r], announced[r], announced[r], r \in exempt, r \in exempt)
        BY <4>1, <4>2 DEF Good, RecordOK
      <4> QED
        BY <3>1, <4>1, <4>3 DEF old
    <3>2. CASE q # r
      BY <2>2, <2>4, <3>2 DEF Good
    <3> QED
      BY <3>1, <3>2
  <2>6. Records(m)
    BY <2>2, <2>4, <2>5 DEF Records, Good
  <2>7. Prepares(m, flow)
    BY <1>1, <1>3, <2>2, <2>5, <2>6 DEF Prepares, RestOK
  <2>8. timers \in SUBSET DOMAIN m /\ \A x \in completing' : x[1] \in DOMAIN subagentRuns'
    BY <1>1, <2>1, <2>2 DEF CallbacksOK, Closed
  <2>9. MemoryKept /\ FlowsOfRecords /\ CallbacksOK' /\ OnceOK'
    BY <1>2, <2>1, <2>3, <2>7, <2>8, ResumesKeep
  <2> QED
    BY <2>1, <2>9, DiskSaved, Assembled
<1>5. CASE UNCHANGED <<records, flow, timers, callbacks>>
  <2>1. /\ subagentRuns' = subagentRuns /\ disk' = disk /\ flow' = flow /\ timers' = timers
        /\ waiting' = waiting /\ completing' = completing
    BY <1>5 DEF records, callbacks
  <2>2. \A q \in DOMAIN subagentRuns' :
          Good(subagentRuns[q], subagentRuns'[q], flow[q], flow'[q], announced[q], announced'[q],
               q \in exempt, q \in exempt')
    BY <1>1, <1>2, <2>1 DEF Good, Records, RecordsOK
  <2>3. \A s \in Sessions : steer'[s] # NoRun =>
          /\ Started(steer'[s])
          /\ steer'[s] \in DOMAIN subagentRuns' \ exempt' =>
               Steered(subagentRuns'[steer'[s]], flow'[steer'[s]])
    BY <1>1, <1>2, <2>1 DEF SteerOK
  <2>4. Effect
    BY <1>2, <2>1, <2>2, <2>3 DEF Effect
  <2> QED
    BY <1>1, <1>2, <2>1, <2>4, EffectAssembled DEF CallbacksOK
<1> QED
  BY <1>4, <1>5 DEF SteerFails

-----------------------------------------------------------------------------
(* The invariant holds, and what it says of announcements.                 *)

LEMMA IInvInit == Init => IInv
<1> SUFFICES ASSUME Init PROVE IInv
  OBVIOUS
<1>1. DOMAIN subagentRuns = {} /\ DOMAIN disk = {}
  BY DEF Init
<1>2. RestOK
  BY DEF Init, RestOK, Places
<1>3. CallbacksOK /\ FreshOK /\ OnceOK /\ WaitedFor
  BY DEF Init, CallbacksOK, FreshOK, OnceOK, WaitedFor
<1>4. SteerOK /\ SteerOfSession /\ OfRequester
  BY DEF Init, SteerOK, SteerOfSession, OfRequester
<1> QED
  BY <1>1, <1>2, <1>3, <1>4 DEF IInv, Records, RecordsOK

LEMMA IInvStep == IInv /\ [Next]_vars => IInv'
<1> SUFFICES ASSUME IInv, [Next]_vars PROVE IInv'
  OBVIOUS
<1>1. CASE UNCHANGED vars
  BY <1>1 DEF vars, IInv, Records, RestOK, RecordsOK, RecordOK, Started, CallbacksOK, FreshOK,
              OnceOK, SteerOK, Steered, SteerOfSession, OfRequester, WaitedFor, Settled, Tells,
              Alive
<1>2. CASE Next
  <2>1. ASSUME NEW s \in Sessions, Spawn(s) PROVE IInv'
    BY <1>2, <2>1, SpawnKeeps
  <2>2. ASSUME NEW r \in Runs, Register(r) PROVE IInv'
    BY <1>2, <2>2, RegisterKeeps
  <2>3. ASSUME NEW r \in Runs, RunStep(r) PROVE IInv'
    BY <1>2, <2>3, EventKeeps, QuietStepsKeep, AnswerKeeps, CompletionKeeps DEF RunStep
  <2>4. ASSUME NEW r \in Runs, FlowStep(r) PROVE IInv'
    BY <1>2, <2>4, SettlesKeeps, WakeKeeps, DeliversKeeps, FailureKeeps, FinishKeeps DEF FlowStep
  <2>5. ASSUME NEW r \in Runs, ResumeTimer(r) PROVE IInv'
    BY <1>2, <2>5, TimerKeeps
  <2>6. ASSUME NEW r \in Runs, ControlStep(r) PROVE IInv'
    BY <1>2, <2>6, SteerMarkKeeps, SteerSendKeeps, SteerFailKeeps, QuietStepsKeep, KillKeeps,
       SweepKeeps DEF ControlStep
  <2>7. CASE Crash
    BY <1>2, <2>7, CrashKeeps
  <2> QED
    BY <1>2, <2>1, <2>2, <2>3, <2>4, <2>5, <2>6, <2>7 DEF Next
<1> QED
  BY <1>1, <1>2

LEMMA Invariance == Spec => []IInv
BY IInvInit, IInvStep, PTL DEF Spec

(* The state has its types: records, callbacks, flows and counters.        *)
THEOREM TypeCorrect == Spec => []TypeOK
BY Invariance, IInvTypes, PTL

(* The result of a run is delivered at most once, whatever events, answers *)
(* and timers complete it, however it fails, is killed, taken back, put    *)
(* off or restored after a crash.                                          *)
THEOREM AnnouncedAtMostOnce == Spec => []AnnouncedOnce
<1>1. IInv => AnnouncedOnce
  BY DEF IInv, OnceOK, RestOK, AnnouncedOnce
<1> QED
  BY <1>1, Invariance, PTL

(* A result is not delivered while a run that the same session, as this    *)
(* run or an earlier one, has spawned may still have something to tell.    *)
THEOREM ChildrenFirst == Spec => ParentLast
<1> DEFINE Waits ==
      \A r \in Runs : announced'[r] > announced[r] =>
        \A q \in DOMAIN subagentRuns \ exempt :
          spawnedBy[q[1]] # NoRun /\ spawnedBy[q[1]][1] = r[1] /\ spawnedBy[q[1]][2] <= r[2] =>
            subagentRuns[q].ended /\ subagentRuns[q].done
<1>1. ASSUME IInv, [Next]_vars PROVE Waits
  <2> SUFFICES ASSUME NEW r \in Runs, announced'[r] > announced[r],
                      NEW q \in DOMAIN subagentRuns \ exempt, Tells(q, r)
               PROVE  subagentRuns[q].ended /\ subagentRuns[q].done
    BY DEF Tells
  <2>1. announced \in [Runs -> Nat] /\ WaitedFor
    BY <1>1 DEF IInv, RestOK
  <2>2. ~UNCHANGED announced
    BY <2>1
  <2>3. \E p \in Runs : FlowDelivers(p)
    <3>1. ASSUME NEW p \in Runs, Register(p) \/ RunStep(p) \/ ResumeTimer(p) \/ ControlStep(p)
          PROVE  UNCHANGED announced
      BY <3>1 DEF Register, RunStep, AgentEnds, AgentErrs, AgentRetries, AgentGivesUp, GraceFires,
                  WaitAnswers, WaitFails, CompleteEnds, ResumeTimer, ControlStep, SteerMarks,
                  SteerSends, SteerFails, KillAborts, KillMarks, Sweep, history
    <3>2. ASSUME NEW p \in Runs, FlowStep(p) PROVE UNCHANGED announced \/ FlowDelivers(p)
      BY <3>2 DEF FlowStep, FlowSettles, FlowWakes, FlowFails, FlowFinishes, FlowExpires, history
    <3>3. (\E s \in Sessions : Spawn(s)) \/ Crash \/ UNCHANGED vars => UNCHANGED announced
      BY DEF Spawn, Crash, vars, history
    <3> QED
      BY <1>1, <2>2, <3>1, <3>2, <3>3 DEF Next
  <2>4. PICK p \in Runs : FlowDelivers(p)
    BY <2>3
  <2>5. p = r /\ flow[p] = "delivering"
    BY <2>1, <2>2, <2>4 DEF FlowDelivers
  <2> QED
    BY <2>1, <2>5 DEF WaitedFor, Settled
<1>2. IInv /\ [Next]_vars => [Waits]_vars
  BY <1>1
<1> QED
  BY <1>2, Invariance, PTL DEF Spec, ParentLast
=============================================================================
