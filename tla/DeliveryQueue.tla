---------------------------- MODULE DeliveryQueue ----------------------------
(***************************************************************************)
(* The write-ahead queue of outbound messages                              *)
(* (src/infra/outbound/delivery-queue.ts and the wrapper                   *)
(* deliverOutboundPayloads of deliver.ts).  A live delivery persists its   *)
(* entry, sends, and then acknowledges or counts a failure; at every start *)
(* of the gateway a recovery pass replays what it finds, next to the live  *)
(* deliveries of the new process.  The steps are the file operations and   *)
(* the send; the process may die between any two.                          *)
(***************************************************************************)
EXTENDS Integers

CONSTANTS
  Ids,         \* bound: the messages; entry ids in the order of enqueuedAt
  BestEffort,  \* messages delivered with bestEffort
  Watched,     \* messages whose caller passes onError
  MaxRetries,  \* MAX_RETRIES (5)
  MaxCrashes,  \* bound: process deaths
  MaxFaults    \* bound: file operations that fail

(* Five in the code.  A live delivery and one recovery pass can count two  *)
(* failures of a fresh entry between them, so at least two.                *)
ASSUME DeliveryAssumption ==
  /\ Ids \subseteq Nat
  /\ BestEffort \subseteq Ids /\ Watched \subseteq Ids
  /\ MaxRetries \in Nat /\ MaxRetries >= 2
  /\ {MaxCrashes, MaxFaults} \subseteq Nat

VARIABLES
  files,      \* what the queue directory holds of each entry
  retry,      \* retryCount as last written
  pc, seen,   \* the workers: next step, and the retryCount read from disk
  cur,        \* the entry the recovery pass is at
  todo,       \* its snapshot: entry -> retryCount, None once handled
  crashes, faults,                        \* counters against the bounds
  reached, aborted, permanent, acked, overlapped  \* history, see below

vars == <<files, retry, pc, seen, cur, todo, crashes, faults,
          reached, aborted, permanent, acked, overlapped>>

-----------------------------------------------------------------------------

Recovery == -1                  \* the recovery pass as a worker
Workers  == Ids \cup {Recovery} \* the live delivery of entry i is worker i
None     == -1

Entry(w) == IF w = Recovery THEN cur ELSE w

(* Where a worker goes when it is through with its entry. *)
After(w) == IF w = Recovery THEN "next" ELSE "done"

InProgress == {"send", "sendUnqueued", "ack", "unlink", "failRead", "failWrite"}

history == <<reached, aborted, permanent, acked, overlapped>>

Goto(w, step) == pc' = [pc EXCEPT ![w] = step]

Init ==
  /\ files = [i \in Ids |-> {}]
  /\ retry = [i \in Ids |-> 0]
  /\ pc = [w \in Workers |-> IF w = Recovery THEN "load" ELSE "new"]
  /\ seen = [w \in Workers |-> 0]
  /\ cur = None
  /\ todo = [i \in Ids |-> None]
  /\ crashes = 0 /\ faults = 0
  /\ reached = {} /\ aborted = {} /\ permanent = {} /\ acked = {} /\ overlapped = {}

(* A file operation that fails. *)
Fault == faults < MaxFaults /\ faults' = faults + 1

-----------------------------------------------------------------------------
(* The live delivery: deliverOutboundPayloads without skipQueue.           *)

(* enqueueDelivery: tmp file and rename; a failure is swallowed and the    *)
(* message is sent without an entry.                                       *)
Enqueue(i) ==
  /\ pc[i] = "new"
  /\ \/ /\ files' = [files EXCEPT ![i] = @ \cup {"json"}]
        /\ Goto(i, "send")
        /\ UNCHANGED faults
     \/ Fault /\ Goto(i, "sendUnqueued") /\ UNCHANGED files
  /\ UNCHANGED <<retry, seen, cur, todo, crashes, history>>

(* The send of a message without an entry, whatever comes of it. *)
SendUnqueued(i) ==
  /\ pc[i] = "sendUnqueued"
  /\ Goto(i, "done")
  /\ reached' \in {reached, reached \cup {i}}
  /\ UNCHANGED <<files, retry, seen, cur, todo, crashes, faults, aborted,
                 permanent, acked, overlapped>>

(* The caller's abort signal: the entry is acknowledged.  Under bestEffort *)
(* it is an error of the payload like any other.                           *)
Abort(i) ==
  /\ pc[i] = "send"
  /\ i \notin BestEffort
  /\ Goto(i, "ack")
  /\ aborted' = aborted \cup {i}
  /\ UNCHANGED <<files, retry, seen, cur, todo, crashes, faults, reached,
                 permanent, acked, overlapped>>

-----------------------------------------------------------------------------
(* Sending, acknowledging and counting a failure, for either worker.       *)

SendOk(w) ==
  /\ pc[w] = "send"
  /\ Goto(w, "ack")
  /\ reached' = reached \cup {Entry(w)}
  /\ UNCHANGED <<files, retry, seen, cur, todo, crashes, faults, aborted,
                 permanent, acked, overlapped>>

(* Under bestEffort the error of a payload is passed to onError; only the  *)
(* live wrapper of a caller that has one sees it.                          *)
Swallowed(w) == Entry(w) \in BestEffort /\ (w = Recovery \/ w \notin Watched)

\* Broken form: the recovery pass acknowledges after any error.
SendError_Acks(w) ==
  /\ pc[w] = "send"
  /\ Goto(w, IF w = Recovery \/ Swallowed(w) THEN "ack" ELSE "failRead")
  /\ UNCHANGED <<files, retry, seen, cur, todo, crashes, faults, history>>

(* The send fails: at a payload, or outside the handling of payloads (the  *)
(* channel's handler, the mirrored transcript at the end), where nothing   *)
(* is swallowed.  All of the message may have gone out by then.            *)
SendError(w) ==
  /\ pc[w] = "send"
  /\ \/ /\ Swallowed(w)
        /\ Goto(w, "ack")
        /\ UNCHANGED reached
     \/ /\ Goto(w, "failRead")
        /\ reached' \in {reached, reached \cup {Entry(w)}}
  /\ UNCHANGED <<files, retry, seen, cur, todo, crashes, faults, aborted,
                 permanent, acked, overlapped>>

(* ackDelivery, phase 1: rename the entry to its marker.  An entry that is *)
(* gone needs no more than its marker removed; another error is swallowed  *)
(* by the live wrapper and counted as a failed attempt by the recovery.    *)
AckRename(w) ==
  LET i == Entry(w) IN
  /\ pc[w] = "ack"
  /\ \/ /\ "json" \in files[i]
        /\ files' = [files EXCEPT ![i] = (@ \ {"json"}) \cup {"delivered"}]
        /\ Goto(w, "unlink")
        /\ acked' = acked \cup {i}
        /\ UNCHANGED faults
     \/ /\ "json" \notin files[i]
        /\ files' = [files EXCEPT ![i] = @ \ {"delivered"}]
        /\ Goto(w, After(w))
        /\ UNCHANGED <<acked, faults>>
     \/ /\ "json" \in files[i]
        /\ Fault
        /\ Goto(w, IF w = Recovery THEN "failRead" ELSE "done")
        /\ UNCHANGED <<files, acked>>
  /\ UNCHANGED <<retry, seen, cur, todo, crashes, reached, aborted, permanent, overlapped>>

(* ackDelivery, phase 2. *)
AckUnlink(w) ==
  /\ pc[w] = "unlink"
  /\ files' = [files EXCEPT ![Entry(w)] = @ \ {"delivered"}]
  /\ Goto(w, After(w))
  /\ UNCHANGED <<retry, seen, cur, todo, crashes, faults, history>>

(* failDelivery: read the entry; if it is gone the error is swallowed. *)
FailRead(w) ==
  LET i == Entry(w) IN
  /\ pc[w] = "failRead"
  /\ IF "json" \in files[i]
     THEN Goto(w, "failWrite") /\ seen' = [seen EXCEPT ![w] = retry[i]]
     ELSE Goto(w, After(w)) /\ UNCHANGED seen
  /\ UNCHANGED <<files, retry, cur, todo, crashes, faults, history>>

\* Broken form: the entry is written back with the count it was read with.
FailWrite_NoCount(w) ==
  LET i == Entry(w) IN
  /\ pc[w] = "failWrite"
  /\ files' = [files EXCEPT ![i] = @ \cup {"json"}]
  /\ retry' = [retry EXCEPT ![i] = seen[w]]
  /\ Goto(w, After(w))
  /\ UNCHANGED <<seen, cur, todo, crashes, faults, history>>

(* failDelivery: write the entry back with one retry more. *)
FailWrite(w) ==
  LET i == Entry(w) IN
  /\ pc[w] = "failWrite"
  /\ Goto(w, After(w))
  /\ \/ /\ files' = [files EXCEPT ![i] = @ \cup {"json"}]
        /\ retry' = [retry EXCEPT ![i] = seen[w] + 1]
        /\ UNCHANGED faults
     \/ Fault /\ UNCHANGED <<files, retry>>
  /\ seen' = [seen EXCEPT ![w] = 0]
  /\ UNCHANGED <<cur, todo, crashes, history>>

-----------------------------------------------------------------------------
(* recoverPendingDeliveries                                                *)

\* Broken form: leftover markers count as pending entries.
Load_MarkersPending ==
  /\ pc[Recovery] = "load"
  /\ Goto(Recovery, "next")
  /\ files' = [i \in Ids |-> files[i] \ {"delivered"}]
  /\ todo' = [i \in Ids |-> IF {"json", "delivered"} \cap files[i] # {} THEN retry[i] ELSE None]
  /\ overlapped' = overlapped \cup {i \in Ids : todo'[i] # None /\ pc[i] \in InProgress}
  /\ UNCHANGED <<retry, seen, cur, crashes, faults, reached, aborted, permanent, acked>>

(* loadPendingDeliveries: remove leftover markers, read every entry. *)
Load ==
  /\ pc[Recovery] = "load"
  /\ Goto(Recovery, "next")
  /\ files' = [i \in Ids |-> files[i] \ {"delivered"}]
  /\ todo' = [i \in Ids |-> IF "json" \in files[i] THEN retry[i] ELSE None]
  /\ overlapped' = overlapped \cup {i \in Ids : todo'[i] # None /\ pc[i] \in InProgress}
  /\ UNCHANGED <<retry, seen, cur, crashes, faults, reached, aborted, permanent, acked>>

(* The pass handles its entries oldest first. *)
Oldest(i) == todo[i] # None /\ \A j \in Ids : todo[j] # None => i <= j

(* moveToFailed; a rename that finds no entry is logged. *)
MovedToFailed(i) ==
  files' = [files EXCEPT ![i] = IF "json" \in @ THEN (@ \ {"json"}) \cup {"failed"} ELSE @]

\* Broken form: retryCount > MAX_RETRIES.
Exhausted_OffByOne(i) == todo[i] > MaxRetries

Exhausted(i) == todo[i] >= MaxRetries

GiveUp(i) ==
  /\ pc[Recovery] = "next" /\ Oldest(i)
  /\ Exhausted(i)
  /\ MovedToFailed(i)
  /\ todo' = [todo EXCEPT ![i] = None]
  /\ UNCHANGED <<retry, pc, seen, cur, crashes, faults, history>>

(* isEntryEligibleForRecoveryRetry: an entry that was attempted before may *)
(* have to wait, for a later start of the gateway.                         *)
Defer(i) ==
  /\ pc[Recovery] = "next" /\ Oldest(i)
  /\ ~Exhausted(i)
  /\ todo[i] > 0
  /\ todo' = [todo EXCEPT ![i] = None]
  /\ UNCHANGED <<files, retry, pc, seen, cur, crashes, faults, history>>

Replay(i) ==
  /\ pc[Recovery] = "next" /\ Oldest(i)
  /\ ~Exhausted(i)
  /\ cur' = i
  /\ todo' = [todo EXCEPT ![i] = None]
  /\ Goto(Recovery, "send")
  /\ UNCHANGED <<files, retry, seen, crashes, faults, history>>

\* Broken form: any error is taken for a permanent one.
ReplayPermanentError_Any ==
  /\ pc[Recovery] = "send"
  /\ Goto(Recovery, "next")
  /\ MovedToFailed(cur)
  /\ UNCHANGED <<retry, seen, cur, todo, crashes, faults, history>>

(* The send fails with a permanent error, of a payload or of the channel's *)
(* handler; the latter is thrown under bestEffort too.                     *)
ReplayPermanentError ==
  /\ pc[Recovery] = "send"
  /\ Goto(Recovery, "next")
  /\ MovedToFailed(cur)
  /\ permanent' = permanent \cup {cur}
  /\ UNCHANGED <<retry, seen, cur, todo, crashes, faults, reached, aborted,
                 acked, overlapped>>

(* All entries are handled or the time budget is spent. *)
RecoveryEnds ==
  /\ pc[Recovery] = "next"
  /\ Goto(Recovery, "done")
  /\ todo' = [i \in Ids |-> None] /\ cur' = None
  /\ UNCHANGED <<files, retry, seen, crashes, faults, history>>

-----------------------------------------------------------------------------

(* The process dies and the gateway starts again. *)
Crash ==
  /\ crashes < MaxCrashes
  /\ crashes' = crashes + 1
  /\ pc' = [w \in Workers |-> IF w = Recovery THEN "load"
                              ELSE IF pc[w] = "new" THEN "new" ELSE "done"]
  /\ todo' = [i \in Ids |-> None] /\ cur' = None
  /\ seen' = [w \in Workers |-> 0]
  /\ UNCHANGED <<files, retry, faults, history>>

(* An orderly restart, with no delivery in progress. *)
Restart ==
  /\ pc[Recovery] = "done"
  /\ \A i \in Ids : pc[i] \in {"new", "done"}
  /\ Goto(Recovery, "load")
  /\ UNCHANGED <<files, retry, seen, cur, todo, crashes, faults, history>>

Step(w) ==
  SendOk(w) \/ SendError(w) \/ AckRename(w) \/ AckUnlink(w) \/ FailRead(w) \/ FailWrite(w)

Next ==
  \/ \E i \in Ids : Enqueue(i) \/ SendUnqueued(i) \/ Abort(i)
  \/ \E w \in Workers : Step(w)
  \/ \E i \in Ids : GiveUp(i) \/ Defer(i) \/ Replay(i)
  \/ Load \/ ReplayPermanentError \/ RecoveryEnds
  \/ Crash \/ Restart

Spec == Init /\ [][Next]_vars

(* A worker takes its next step (sends carry timeouts).  That entries are  *)
(* retried at all rests on the environment: the gateway is restarted again *)
(* and again, and not always before an entry's backoff has elapsed.        *)
Fairness ==
  /\ \A w \in Workers : WF_vars(Step(w))
  /\ WF_vars(Load) /\ WF_vars(RecoveryEnds) /\ WF_vars(Restart)
  /\ \A i \in Ids : /\ WF_vars(SendUnqueued(i))
                    /\ SF_vars(Replay(i)) /\ SF_vars(GiveUp(i))

FairSpec == Spec /\ Fairness

-----------------------------------------------------------------------------

TypeOK ==
  /\ files \in [Ids -> SUBSET {"json", "delivered", "failed"}]
  /\ retry \in [Ids -> 0 .. MaxRetries]
  /\ pc \in [Workers -> InProgress \cup {"new", "done", "load", "next"}]
  /\ seen \in [Workers -> 0 .. MaxRetries]
  /\ cur \in Ids \cup {None}
  /\ todo \in [Ids -> {None} \cup 0 .. MaxRetries]
  /\ reached \cup aborted \cup permanent \cup acked \cup overlapped \subseteq Ids

(* An entry is lost in no order of file operations, sends, crashes and     *)
(* restarts: the queue implements Outbox.                                  *)
Promise == INSTANCE Outbox WITH
  owed      <- {i \in Ids : "json" \in files[i]},
  abandoned <- aborted,
  dead      <- {i \in Ids : "failed" \in files[i]}

Implements == Promise!Spec

(* ackDelivery is two-phase so that a crash between the delivery's end and *)
(* the cleanup does not replay it: once renamed, an entry is never sent    *)
(* again, unless a recovery pass had already read it while its live        *)
(* delivery was in progress.                                               *)
AckedNotReplayed ==
  [][\A w \in Workers :
       (pc'[w] = "send" /\ pc[w] # "send") => Entry(w)' \notin acked \ overlapped]_vars

(* An entry is set aside only for a permanent error or after MAX_RETRIES   *)
(* counted failures.                                                       *)
SetAsideForCause ==
  \A i \in Ids : "failed" \in files[i] => i \in permanent \/ retry[i] >= MaxRetries

(* What was persisted is eventually delivered, set aside or abandoned: an  *)
(* entry cannot fail for ever.                                             *)
EveryEntryResolved ==
  \A i \in Ids : []<>("json" \notin files[i])

(* A message whose delivery failed is not acknowledged. *)
FailedNotAcked == acked \subseteq reached \cup aborted
=============================================================================
