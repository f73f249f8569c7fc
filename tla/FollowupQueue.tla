---------------------------- MODULE FollowupQueue ----------------------------
(***************************************************************************)
(* The followup queue of one session (src/auto-reply/reply/queue/*.ts and  *)
(* src/utils/queue-helpers.ts): messages that arrive while an agent run is *)
(* active are queued, and a drain feeds them to followup runs.             *)
(*                                                                         *)
(* A drain is an async loop that keeps a reference to the queue OBJECT it  *)
(* started on, while the registry maps the session key to the CURRENT      *)
(* object: clearing the queue or finishing a drain removes the mapping, and *)
(* the next message creates a new object.  The module therefore has        *)
(* objects, one drain per object, and cuts the loop at its awaits: the     *)
(* debounce and the followup run.                                          *)
(***************************************************************************)
EXTENDS Integers, FiniteSets, SequencesExt

CONSTANTS
  Msgs,       \* bound: the deliveries; a redelivery is one of its own
  IdOf,       \* of each: the message id with its routing, the dedupe key
  NoId,       \* the key of a delivery without a message id
  Expiring,   \* bound: the keys the dedupe cache may forget
  RouteOf,    \* channel, target and thread of each message, as one value
  Unroutable, \* the route of a message whose channel cannot be routed to
  Settings,   \* queue settings resolved for a message: [mode, cap, drop]
  MaxQueues,  \* bound: queue objects created
  Direct,     \* bound: deliveries that may come when no run is registered
  MaxFails,   \* bound: followup runs that throw
  MaxClears   \* bound: calls of clearSessionQueues

ASSUME FollowupAssumption ==
  /\ {MaxQueues, MaxFails, MaxClears} \subseteq Nat
  /\ Direct \subseteq Msgs
  /\ \A s \in Settings : /\ s.mode \in {"collect", "followup"}
                         /\ s.cap \in Nat \ {0}
                         /\ s.drop \in {"old", "new", "summarize", "unset"}

VARIABLES
  reg,      \* the registry: map, objs, callback; see RegType
  recent,   \* RECENT_QUEUE_MESSAGE_IDS: the keys it holds, unexpired
  arrived,  \* the deliveries that have come
  deciding, \* those that read isActive = TRUE and await before enqueueing
  turn,     \* per delivery: its own reply run, when it ran at once
  fails, clears,                   \* counters against the bounds
  accepted, log, reported, evicted, cleared, forgotten \* history, see below

vars == <<reg, recent, arrived, deciding, turn, fails, clears,
          accepted, log, reported, evicted, cleared, forgotten>>

-----------------------------------------------------------------------------

Objs == 1 .. MaxQueues

(* One FollowupQueueState with the drain that holds it.  pc = "off" is     *)
(* draining = FALSE; droppedCount is Len(dropped).                         *)
QueueType ==
  [items   : Seq(Msgs),
   dropped : Seq(Msgs),                    \* evicted, to be summarised
   mode    : {"collect", "followup"},      \* "followup": every other mode
   cap     : Nat \ {0},
   drop    : {"old", "new", "summarize"},
   lastRun : BOOLEAN,                      \* lastRun is set
   pc      : {"off", "debounce", "running"},
   kind    : {"none", "collect", "single", "summary"}, \* the run in flight
   batch   : Seq(Msgs),                    \* items.slice() or items[0]
   summary : Seq(Msgs),                    \* dropped messages it reports
   force   : BOOLEAN]                      \* collectState.forceIndividualCollect

NoQueue == 0

RegType == [map      : {NoQueue} \cup Objs,   \* FOLLOWUP_QUEUES.get(key)
            objs     : [1 .. MaxQueues -> QueueType],
            created  : 0 .. MaxQueues,
            callback : BOOLEAN]               \* FOLLOWUP_RUN_CALLBACKS.has(key)

(* hasCrossChannelItems *)
CrossChannel(items) ==
  LET routes == {RouteOf[m] : m \in ToSet(items)}
  IN  Unroutable \in routes \/ Cardinality(routes) > 1

(* previewQueueSummaryPrompt: the dropped messages the prompt reports. *)
SummaryOf(o) == IF o.drop = "summarize" THEN o.dropped ELSE <<>>

Busy(o) == o.items # <<>> \/ o.dropped # <<>>

(* getFollowupQueue without an existing queue. *)
NewQueue(s) ==
  [items |-> <<>>, dropped |-> <<>>, mode |-> s.mode, cap |-> s.cap,
   drop |-> IF s.drop = "unset" THEN "summarize" ELSE s.drop,
   lastRun |-> FALSE, pc |-> "off", kind |-> "none",
   batch |-> <<>>, summary |-> <<>>, force |-> FALSE]

(* applyQueueRuntimeSettings *)
Configured(o, s) ==
  [o EXCEPT !.mode = s.mode, !.cap = s.cap,
            !.drop = IF s.drop = "unset" THEN @ ELSE s.drop]

-----------------------------------------------------------------------------
(* The drain, as functions of the registry.                                *)

(* scheduleFollowupDrain: start a drain on the mapped queue unless it has  *)
(* one; a drain that finds nothing to do runs to its finally block at once. *)
Scheduled(r) ==
  IF r.map = NoQueue \/ r.objs[r.map].pc # "off" THEN r
  ELSE IF Busy(r.objs[r.map])
       THEN [r EXCEPT !.callback = TRUE, !.objs[r.map].pc = "debounce",
                      !.objs[r.map].force = FALSE]
       ELSE [r EXCEPT !.callback = TRUE, !.map = NoQueue]

\* Broken form: the finally block does not reschedule.
Exited_NoReschedule(r, i) ==
  LET off == [r EXCEPT !.objs[i].pc = "off", !.objs[i].kind = "none",
                       !.objs[i].batch = <<>>, !.objs[i].summary = <<>>]
  IN  IF Busy(off.objs[i]) THEN off ELSE [off EXCEPT !.map = NoQueue]

\* Broken form: a failed run moves the head of the queue to its end.
Exited_Rotates(r, i) ==
  LET o == r.objs[i]
      off == [r EXCEPT !.objs[i].pc = "off", !.objs[i].kind = "none",
                       !.objs[i].batch = <<>>, !.objs[i].summary = <<>>,
                       !.objs[i].items = IF o.items = <<>> THEN @
                                         ELSE Append(Tail(@), Head(@))]
  IN  IF Busy(off.objs[i]) THEN Scheduled(off) ELSE [off EXCEPT !.map = NoQueue]

(* The finally block of the drain of object i. *)
Exited(r, i) ==
  LET off == [r EXCEPT !.objs[i].pc = "off", !.objs[i].kind = "none",
                       !.objs[i].batch = <<>>, !.objs[i].summary = <<>>]
  IN  IF Busy(off.objs[i]) THEN Scheduled(off) ELSE [off EXCEPT !.map = NoQueue]

(* The test of the while loop, after a followup run. *)
Looped(r, i) ==
  IF Busy(r.objs[i])
  THEN [r EXCEPT !.objs[i].pc = "debounce", !.objs[i].kind = "none",
                 !.objs[i].batch = <<>>, !.objs[i].summary = <<>>]
  ELSE Exited(r, i)

Running(r, i, kind, batch, summary, force) ==
  [r EXCEPT !.objs[i].pc = "running", !.objs[i].kind = kind,
            !.objs[i].batch = batch, !.objs[i].summary = summary,
            !.objs[i].force = force]

(* The loop body after the debounce, up to the call of runFollowup. *)
Woken(r, i) ==
  LET o     == r.objs[i]
      cross == CrossChannel(o.items)
      one   == o.force \/ cross     \* drainCollectQueueStep does not skip
  IN  IF o.mode = "collect" /\ ~one
      THEN IF o.items = <<>> /\ ~o.lastRun THEN Exited(r, i)
           ELSE Running(r, i, "collect", o.items, SummaryOf(o), o.force)
      ELSE IF o.items = <<>> THEN Exited(r, i)
      ELSE IF o.mode # "collect" /\ SummaryOf(o) # <<>>
           THEN IF ~o.lastRun THEN Exited(r, i)
                ELSE Running(r, i, "summary", <<Head(o.items)>>, SummaryOf(o), o.force)
      ELSE Running(r, i, "single", <<Head(o.items)>>, <<>>,
                   o.force \/ (o.mode = "collect" /\ cross))

(* items.splice(0, n) *)
Spliced(s, n) == SubSeq(s, n + 1, Len(s))

\* Broken form: the batch is removed by the queue's length after the run.
Drained_LiveLength(o) ==
  [o EXCEPT !.items = IF o.kind = "collect" THEN <<>> ELSE Spliced(@, 1),
            !.dropped = IF o.kind = "summary" \/ o.summary # <<>> THEN <<>> ELSE @]

(* After runFollowup returns: remove what was handed over, by position. *)
Drained(o) ==
  [o EXCEPT !.items = Spliced(@, IF o.kind = "collect" THEN Len(o.batch) ELSE 1),
            !.dropped = IF o.summary # <<>> THEN <<>> ELSE @]

-----------------------------------------------------------------------------

Init ==
  /\ reg = [map |-> NoQueue,
            objs |-> [i \in Objs |-> NewQueue([mode |-> "collect", cap |-> 1, drop |-> "unset"])],
            created |-> 0, callback |-> FALSE]
  /\ recent = {} /\ arrived = {} /\ deciding = {}
  /\ turn = [m \in Msgs |-> "none"]
  /\ fails = 0 /\ clears = 0
  /\ accepted = <<>> /\ log = <<>> /\ reported = {} /\ evicted = {} /\ cleared = {}
  /\ forgotten = {}

history == <<accepted, log, reported, evicted, cleared, forgotten>>

(* isEmbeddedPiRunActive: a reply run or a followup run is in progress. *)
RunActive ==
  \/ \E m \in Msgs : turn[m] = "running"
  \/ \E i \in Objs : reg.objs[i].pc = "running"

(* A message arrives and no run is (yet) registered: it runs at once; the  *)
(* session lane serialises it with other runs.                             *)
RunNow(m) ==
  /\ m \in Direct \ arrived
  /\ arrived' = arrived \cup {m}
  /\ turn' = [turn EXCEPT ![m] = "running"]
  /\ UNCHANGED <<reg, recent, deciding, fails, clears, history>>

(* A message (or its redelivery) arrives and a run is active: it will be   *)
(* queued, but only after awaits (getReplyFromConfig ... runReplyAgent).   *)
Decide(m) ==
  /\ RunActive
  /\ m \notin arrived
  /\ arrived' = arrived \cup {m}
  /\ deciding' = deciding \cup {m}
  /\ UNCHANGED <<reg, recent, turn, fails, clears, history>>

(* The cache drops a key: its five minutes are over, or ten thousand other *)
(* keys are younger.                                                       *)
Forget(d) ==
  /\ d \in recent \cap Expiring
  /\ recent' = recent \ {d}
  /\ forgotten' = forgotten \cup {d}
  /\ UNCHANGED <<reg, arrived, deciding, turn, fails, clears,
                 accepted, log, reported, evicted, cleared>>

(* isRunAlreadyQueued: a delivery without a message id never is. *)
Queued(m, items) == IdOf[m] # NoId /\ \E n \in ToSet(items) : IdOf[n] = IdOf[m]

(* RECENT_QUEUE_MESSAGE_IDS.check, after a push. *)
Remembering(m) == IF IdOf[m] = NoId THEN recent ELSE recent \cup {IdOf[m]}

(* getFollowupQueue: the mapped object, or a new one, with the settings. *)
Opened(s) ==
  IF reg.map # NoQueue
  THEN [reg EXCEPT !.objs[reg.map] = Configured(@, s)]
  ELSE [reg EXCEPT !.map = reg.created + 1, !.created = @ + 1,
                   !.objs[reg.created + 1] = NewQueue(s)]

\* Broken form: only the items still queued are looked at, not the recent ids.
Enqueue_QueuedOnly(m, s) ==
  LET r == Opened(s)
      q == r.objs[r.map]
      pushed == [r EXCEPT !.objs[r.map] =
                   [q EXCEPT !.lastRun = TRUE, !.items = Append(@, m)]]
  IN
  /\ m \in deciding
  /\ reg.map # NoQueue \/ reg.created < MaxQueues
  /\ deciding' = deciding \ {m}
  /\ UNCHANGED <<arrived, turn, fails, clears, log, reported, cleared, evicted, forgotten>>
  /\ IF Queued(m, q.items)
     THEN reg' = r /\ UNCHANGED <<recent, accepted>>
     ELSE /\ reg' = IF q.pc = "off" /\ reg.callback THEN Scheduled(pushed) ELSE pushed
          /\ recent' = Remembering(m)
          /\ accepted' = Append(accepted, m)

(* enqueueFollowupRun: dedupe against recent ids and queued items, make    *)
(* room by the drop policy, push, and kick an idle drain if its callback   *)
(* is cached.                                                              *)
Enqueue(m, s) ==
  LET r    == Opened(s)
      q    == r.objs[r.map]
      over == Len(q.items) - q.cap + 1          \* dropCount
      full == over > 0
      gone == IF full THEN SubSeq(q.items, 1, over) ELSE <<>>
      kept == IF full THEN Spliced(q.items, over) ELSE q.items
      next == [q EXCEPT !.lastRun = TRUE, !.items = Append(kept, m),
                        !.dropped = IF q.drop = "summarize" THEN @ \o gone ELSE @]
      pushed == [r EXCEPT !.objs[r.map] = next]
  IN
  /\ m \in deciding
  /\ reg.map # NoQueue \/ reg.created < MaxQueues
  /\ deciding' = deciding \ {m}
  /\ UNCHANGED <<arrived, turn, fails, clears, log, reported, cleared, forgotten>>
  /\ IF IdOf[m] \in recent \/ Queued(m, q.items)
     THEN reg' = r /\ UNCHANGED <<recent, accepted, evicted>>
     ELSE IF full /\ q.drop = "new"
     THEN /\ reg' = [r EXCEPT !.objs[r.map].lastRun = TRUE]
          /\ UNCHANGED <<recent, accepted, evicted>>
     ELSE /\ reg' = IF q.pc = "off" /\ reg.callback THEN Scheduled(pushed) ELSE pushed
          /\ recent' = Remembering(m)
          /\ accepted' = Append(accepted, m)
          /\ evicted' = IF q.drop = "old" THEN evicted \cup ToSet(gone) ELSE evicted

(* The embedded run of a reply ends; the reply itself has not finished. *)
TurnEnds(m) ==
  /\ turn[m] = "running"
  /\ turn' = [turn EXCEPT ![m] = "ended"]
  /\ UNCHANGED <<reg, recent, arrived, deciding, fails, clears, history>>

\* Broken form: only the success path finalizes.
Finalize_Forgotten(m) ==
  /\ turn[m] = "ended"
  /\ turn' = [turn EXCEPT ![m] = "done"]
  /\ UNCHANGED <<reg, recent, arrived, deciding, fails, clears, history>>

(* finalizeWithFollowup, on the success and on the error path. *)
Finalize(m) ==
  /\ turn[m] = "ended"
  /\ turn' = [turn EXCEPT ![m] = "done"]
  /\ reg' = Scheduled(reg)
  /\ UNCHANGED <<recent, arrived, deciding, fails, clears, history>>

(* The debounce of the drain of object i resolves. *)
Wake(i) ==
  /\ reg.objs[i].pc = "debounce"
  /\ reg' = Woken(reg, i)
  /\ UNCHANGED <<recent, arrived, deciding, turn, fails, clears, history>>

(* runFollowup returns. *)
RunReturns(i) ==
  LET o == reg.objs[i] IN
  /\ o.pc = "running"
  /\ reg' = Looped([reg EXCEPT !.objs[i] = Drained(o)], i)
  /\ log' = IF o.kind = "summary" THEN log ELSE log \o o.batch
  /\ reported' = reported \cup ToSet(o.summary)
  /\ UNCHANGED <<recent, arrived, deciding, turn, fails, clears,
                 accepted, evicted, cleared, forgotten>>

(* runFollowup throws: the items stay queued and the drain is rescheduled. *)
RunThrows(i) ==
  /\ reg.objs[i].pc = "running"
  /\ fails < MaxFails
  /\ fails' = fails + 1
  /\ reg' = Exited(reg, i)
  /\ UNCHANGED <<recent, arrived, deciding, turn, clears, history>>

\* Broken form: the mapping is removed but the object keeps its items.
Clear_MapOnly ==
  LET o == reg.objs[reg.map] IN
  /\ clears < MaxClears /\ clears' = clears + 1
  /\ reg.map # NoQueue
  /\ reg' = [reg EXCEPT !.map = NoQueue, !.callback = FALSE]
  /\ cleared' = cleared \cup ((ToSet(o.items) \cup ToSet(o.dropped)) \ ToSet(o.batch \o log))
  /\ UNCHANGED <<recent, arrived, deciding, turn, fails,
                 accepted, log, reported, evicted, forgotten>>

(* clearSessionQueues: /stop, session reset, subagent kill; the session    *)
(* lane it also clears is ClearSession of SessionRuns.  Messages           *)
(* handed to a run are past clearing.                                      *)
Clear ==
  LET o == reg.objs[reg.map]
      empty == [o EXCEPT !.items = <<>>, !.dropped = <<>>, !.lastRun = FALSE]
  IN
  /\ clears < MaxClears
  /\ clears' = clears + 1
  /\ IF reg.map = NoQueue
     THEN reg' = [reg EXCEPT !.callback = FALSE] /\ UNCHANGED cleared
     ELSE /\ reg' = [reg EXCEPT !.objs[reg.map] = empty, !.map = NoQueue,
                                !.callback = FALSE]
          /\ cleared' = cleared \cup
               ((ToSet(o.items) \cup ToSet(o.dropped)) \ ToSet(o.batch \o log))
  /\ UNCHANGED <<recent, arrived, deciding, turn, fails,
                 accepted, log, reported, evicted, forgotten>>

Next ==
  \/ \E m \in Msgs : RunNow(m) \/ Decide(m) \/ TurnEnds(m) \/ Finalize(m)
  \/ \E m \in Msgs, s \in Settings : Enqueue(m, s)
  \/ \E i \in Objs : Wake(i) \/ RunReturns(i) \/ RunThrows(i)
  \/ \E d \in Expiring : Forget(d)
  \/ Clear

Spec == Init /\ [][Next]_vars

(* Awaits resolve and runs end (they carry a timeout). *)
Fairness ==
  /\ \A m \in Msgs : /\ WF_vars(TurnEnds(m))
                     /\ WF_vars(Finalize(m))
                     /\ WF_vars(\E s \in Settings : Enqueue(m, s))
  /\ \A i \in Objs : WF_vars(Wake(i)) /\ WF_vars(RunReturns(i) \/ RunThrows(i))

FairSpec == Spec /\ Fairness

-----------------------------------------------------------------------------

TypeOK ==
  /\ reg \in RegType
  /\ recent \cup forgotten \subseteq {IdOf[m] : m \in Msgs} \ {NoId}
  /\ deciding \subseteq arrived /\ arrived \subseteq Msgs
  /\ turn \in [Msgs -> {"none", "running", "ended", "done"}]
  /\ ToSet(accepted) \cup ToSet(log) \cup reported \cup evicted \cup cleared \subseteq Msgs

(* A message sits where a drain or a later schedule will still find it. *)
Waiting(m) ==
  \E i \in Objs : /\ reg.map = i \/ reg.objs[i].pc # "off"
                  /\ m \in ToSet(reg.objs[i].items \o reg.objs[i].dropped \o reg.objs[i].batch)

(* The drop policy has removed messages, or the user has cleared them. *)
Overflowed ==
  evicted # {} \/ reported # {} \/ \E i \in Objs : reg.objs[i].dropped # <<>>

(* Accepted messages never vanish: each is waiting or was part of the      *)
(* prompt of a run that returned, through failed runs, mixed routes, mode  *)
(* changes and queues that are deleted and created again, as long as       *)
(* nothing was dropped or cleared.                                         *)
NoSilentLoss ==
  (~Overflowed /\ clears = 0) =>
    \A m \in ToSet(accepted) : Waiting(m) \/ m \in ToSet(log)

(* The same with clears: what the user cleared may go, nothing else.       *)
OnlyClearedVanish ==
  ~Overflowed =>
    \A m \in ToSet(accepted) : Waiting(m) \/ m \in ToSet(log) \cup cleared

(* No delivery is run twice, and a redelivered message is answered once,   *)
(* even when its first copy has already left the queue, as long as the     *)
(* cache has not dropped its id.                                           *)
RunOnce ==
  \A i, j \in 1 .. Len(log) : i # j =>
    /\ log[i] # log[j]
    /\ IdOf[log[i]] = IdOf[log[j]] => IdOf[log[i]] \in forgotten \cup {NoId}

(* Messages reach the agent in the order they were accepted, through       *)
(* batches, mixed channels, overflow, retries and drains that restart.      *)
InOrder ==
  clears = 0 => \A i, j \in 1 .. Len(log) : i < j =>
    \E a, b \in 1 .. Len(accepted) : a < b /\ accepted[a] = log[i] /\ accepted[b] = log[j]

(* Once a followup callback is cached, a queue with work always has a      *)
(* drain: neither the deletion of a drained queue nor a failed run nor a   *)
(* kick that comes too early leaves it asleep.                             *)
DrainAlive ==
  (reg.map # NoQueue /\ reg.callback /\ Busy(reg.objs[reg.map])) =>
    reg.objs[reg.map].pc # "off"

(* What /stop cleared, and was not already in a run, never runs.           *)
ClearedStaysCleared == cleared \cap ToSet(log) = {}

(* A message queued before the reply run in progress finalizes gets a run, *)
(* if it is neither dropped nor cleared.                                   *)
QueuedGetsRun ==
  \A m \in Msgs :
    (Waiting(m) /\ \E n \in Msgs : turn[n] \in {"running", "ended"}) ~>
      (m \in ToSet(log) \/ Overflowed \/ clears > 0)
=============================================================================
