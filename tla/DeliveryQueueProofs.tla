------------------------ MODULE DeliveryQueueProofs ------------------------
(***************************************************************************)
(* Theorems about DeliveryQueue, for every set of messages, every number   *)
(* of retries, crashes and failing file operations.                        *)
(***************************************************************************)
EXTENDS DeliveryQueue, TLAPS

Steps == InProgress \cup {"new", "done", "load", "next"}

(* What the refinement rests on: a worker about to acknowledge an entry    *)
(* has seen it reach its recipient, seen its caller abort, or was told to  *)
(* ignore its failure.                                                     *)
AckJustified ==
  \A w \in Workers : pc[w] = "ack" => Entry(w) \in reached \cup aborted \cup BestEffort

Shape ==
  /\ files \in [Ids -> SUBSET {"json", "delivered", "failed"}]
  /\ pc \in [Workers -> Steps]
  /\ reached \subseteq Ids /\ aborted \subseteq Ids
  /\ cur \in Ids \cup {None}
  /\ pc[Recovery] \in InProgress => cur \in Ids

RInv == Shape /\ AckJustified

(* A worker that is sending, acknowledging or counting is at an entry. *)
LEMMA EntryInIds ==
  ASSUME Shape, NEW w \in Workers, pc[w] \in InProgress
  PROVE  Entry(w) \in Ids
BY DeliveryAssumption DEF Shape, Entry, Workers, Recovery

LEMMA RecoveryNotId == Recovery \notin Ids /\ None \notin Ids
BY DeliveryAssumption DEF Recovery, None

LEMMA RInvInit == Init => RInv
BY RecoveryNotId DEF Init, RInv, Shape, AckJustified, Workers, Steps, InProgress, Recovery

-----------------------------------------------------------------------------
(* The steps that leave the abstract outbox alone, and those that do not.  *)

Owed(f) == {i \in Ids : "json" \in f[i]}
Dead(f) == {i \in Ids : "failed" \in f[i]}

LEMMA OutboxStutters ==
  ASSUME Owed(files') = Owed(files), Dead(files') = Dead(files),
         reached' = reached, aborted' = aborted
  PROVE  [Promise!Next]_(Promise!vars)
BY DEF Promise!vars, Owed, Dead

LEMMA OutboxAccepts ==
  ASSUME NEW i \in Ids, Owed(files') = Owed(files) \cup {i}, Dead(files') = Dead(files),
         reached' = reached, aborted' = aborted
  PROVE  [Promise!Next]_(Promise!vars)
BY DEF Promise!Next, Promise!Accept, Owed, Dead

LEMMA OutboxReaches ==
  ASSUME NEW i \in Ids, files' = files, reached' = reached \cup {i}, aborted' = aborted
  PROVE  [Promise!Next]_(Promise!vars)
BY DEF Promise!Next, Promise!Reach

LEMMA OutboxAbandons ==
  ASSUME NEW i \in Ids, files' = files, reached' = reached, aborted' = aborted \cup {i}
  PROVE  [Promise!Next]_(Promise!vars)
BY DEF Promise!Next, Promise!Abandon

LEMMA OutboxSettles ==
  ASSUME NEW i \in Ids, i \in reached \cup aborted \cup BestEffort,
         Owed(files') = Owed(files) \ {i}, Dead(files') = Dead(files),
         reached' = reached, aborted' = aborted
  PROVE  [Promise!Next]_(Promise!vars)
BY DEF Promise!Next, Promise!Settle, Owed, Dead

LEMMA OutboxSetsAside ==
  ASSUME NEW i \in Ids, i \in Owed(files),
         Owed(files') = Owed(files) \ {i}, Dead(files') = Dead(files) \cup {i},
         reached' = reached, aborted' = aborted
  PROVE  [Promise!Next]_(Promise!vars)
BY DEF Promise!Next, Promise!SetAside, Owed, Dead

(* What each file operation does to the abstract outbox. *)
LEMMA FileOperations ==
  ASSUME Shape, NEW i \in Ids
  PROVE  /\ LET f == [files EXCEPT ![i] = @ \ {"delivered"}]
            IN  Owed(f) = Owed(files) /\ Dead(f) = Dead(files)
         /\ LET f == [files EXCEPT ![i] = @ \cup {"json"}]
            IN  Owed(f) = Owed(files) \cup {i} /\ Dead(f) = Dead(files)
         /\ LET f == [files EXCEPT ![i] = (@ \ {"json"}) \cup {"delivered"}]
            IN  Owed(f) = Owed(files) \ {i} /\ Dead(f) = Dead(files)
         /\ LET f == [files EXCEPT ![i] = (@ \ {"json"}) \cup {"failed"}]
            IN  Owed(f) = Owed(files) \ {i} /\ Dead(f) = Dead(files) \cup {i}
BY DEF Shape, Owed, Dead

LEMMA LoadKeeps ==
  ASSUME Shape, files' = [i \in Ids |-> files[i] \ {"delivered"}]
  PROVE  Owed(files') = Owed(files) /\ Dead(files') = Dead(files)
BY DEF Shape, Owed, Dead

(* Setting an entry aside, whether or not it is still there. *)
LEMMA MoveRefines ==
  ASSUME Shape, NEW i \in Ids, MovedToFailed(i), reached' = reached, aborted' = aborted
  PROVE  [Promise!Next]_(Promise!vars)
<1>1. CASE "json" \in files[i]
  <2>1. files' = [files EXCEPT ![i] = (@ \ {"json"}) \cup {"failed"}]
    BY <1>1 DEF MovedToFailed
  <2>2. i \in Owed(files)
    BY <1>1 DEF Owed
  <2> QED
    BY <2>1, <2>2, FileOperations, OutboxSetsAside
<1>2. CASE "json" \notin files[i]
  <2>1. files' = files
    BY <1>2 DEF MovedToFailed, Shape
  <2> QED
    BY <2>1, OutboxStutters
<1> QED
  BY <1>1, <1>2

-----------------------------------------------------------------------------
(* The invariant is kept when one worker moves. *)

LEMMA WorkerMoves ==
  ASSUME RInv, NEW w \in Workers, NEW step \in Steps,
         pc' = [pc EXCEPT ![w] = step],
         files' \in [Ids -> SUBSET {"json", "delivered", "failed"}],
         reached \subseteq reached', reached' \subseteq Ids,
         aborted \subseteq aborted', aborted' \subseteq Ids,
         cur' = cur,
         step \in InProgress => pc[w] \in InProgress \/ w # Recovery,
         step = "ack" => Entry(w) \in reached' \cup aborted' \cup BestEffort
  PROVE  RInv'
<1>1. pc' \in [Workers -> Steps]
  BY DEF RInv, Shape
<1>2. pc'[Recovery] \in InProgress => cur' \in Ids
  BY DEF RInv, Shape, Workers
<1>3. AckJustified'
  <2> SUFFICES ASSUME NEW v \in Workers, pc'[v] = "ack"
               PROVE  Entry(v)' \in reached' \cup aborted' \cup BestEffort
    BY DEF AckJustified
  <2>1. Entry(v)' = Entry(v)
    BY DEF Entry
  <2>2. CASE v = w
    BY <2>1, <2>2 DEF RInv, Shape
  <2>3. CASE v # w
    BY <2>1, <2>3 DEF RInv, Shape, AckJustified
  <2> QED
    BY <2>2, <2>3
<1> QED
  BY <1>1, <1>2, <1>3 DEF RInv, Shape

-----------------------------------------------------------------------------
(* Every step keeps the invariant and is a step of the abstract outbox, or *)
(* leaves it alone.                                                        *)

LEMMA LiveRefines ==
  ASSUME RInv, NEW i \in Ids, Enqueue(i) \/ SendUnqueued(i) \/ Abort(i)
  PROVE  RInv' /\ [Promise!Next]_(Promise!vars)
<1> USE DEF RInv
<1>0. i \in Workers /\ i # Recovery /\ Entry(i) = i
  BY RecoveryNotId DEF Workers, Entry
<1>1. CASE Enqueue(i)
  <2> USE <1>1 DEF Enqueue, Goto, history
  <2>1. CASE files' = [files EXCEPT ![i] = @ \cup {"json"}] /\ Goto(i, "send")
    <3>1. RInv'
      BY <1>0, <2>1, WorkerMoves DEF Shape, Steps, InProgress
    <3> QED
      BY <2>1, <3>1, FileOperations, OutboxAccepts
  <2>2. CASE Goto(i, "sendUnqueued") /\ UNCHANGED files
    <3>1. RInv'
      BY <1>0, <2>2, WorkerMoves DEF Shape, Steps, InProgress
    <3> QED
      BY <2>2, <3>1, OutboxStutters
  <2> QED
    BY <2>1, <2>2
<1>2. CASE SendUnqueued(i)
  <2> USE <1>2 DEF SendUnqueued, Goto
  <2>1. RInv'
    BY <1>0, WorkerMoves DEF Shape, Steps, InProgress
  <2>2. CASE reached' = reached
    BY <2>1, <2>2, OutboxStutters
  <2>3. CASE reached' = reached \cup {i}
    BY <2>1, <2>3, OutboxReaches
  <2> QED
    BY <2>2, <2>3
<1>3. CASE Abort(i)
  <2> USE <1>3 DEF Abort, Goto
  <2>1. RInv'
    BY <1>0, WorkerMoves DEF Shape, Steps, InProgress
  <2> QED
    BY <2>1, OutboxAbandons
<1> QED
  BY <1>1, <1>2, <1>3

LEMMA WorkerRefines ==
  ASSUME RInv, NEW w \in Workers, Step(w)
  PROVE  RInv' /\ [Promise!Next]_(Promise!vars)
<1> USE DEF RInv
<1>1. CASE SendOk(w)
  <2> USE <1>1 DEF SendOk, Goto
  <2>1. Entry(w) \in Ids
    BY EntryInIds DEF InProgress
  <2>2. RInv'
    BY <2>1, WorkerMoves DEF Shape, Steps, InProgress
  <2> QED
    BY <2>1, <2>2, OutboxReaches
<1>2. CASE SendError(w)
  <2> USE <1>2 DEF SendError, Goto
  <2>1. Entry(w) \in Ids
    BY EntryInIds DEF InProgress
  <2>2. CASE Swallowed(w) /\ Goto(w, "ack") /\ UNCHANGED reached
    <3>1. Entry(w) \in BestEffort
      BY <2>2 DEF Swallowed
    <3>2. RInv'
      BY <2>1, <2>2, <3>1, WorkerMoves DEF Shape, Steps, InProgress
    <3> QED
      BY <2>2, <3>2, OutboxStutters
  <2>3. CASE Goto(w, "failRead") /\ reached' \in {reached, reached \cup {Entry(w)}}
    <3>1. RInv'
      BY <2>1, <2>3, WorkerMoves DEF Shape, Steps, InProgress
    <3>2. CASE reached' = reached
      BY <3>1, <3>2, OutboxStutters
    <3>3. CASE reached' = reached \cup {Entry(w)}
      BY <2>1, <3>1, <3>3, OutboxReaches
    <3> QED
      BY <2>3, <3>2, <3>3
  <2> QED
    BY <2>2, <2>3
<1>3. CASE AckRename(w)
  <2> DEFINE i == Entry(w)
  <2>1. i \in Ids /\ i \in reached \cup aborted \cup BestEffort
    BY <1>3, EntryInIds DEF AckRename, InProgress, AckJustified
  <2> HIDE DEF i
  <2>2. CASE /\ files' = [files EXCEPT ![i] = (@ \ {"json"}) \cup {"delivered"}]
             /\ Goto(w, "unlink")
    <3>1. RInv'
      BY <1>3, <2>1, <2>2, WorkerMoves DEF AckRename, Goto, Shape, Steps, InProgress
    <3> QED
      BY <1>3, <2>1, <2>2, <3>1, FileOperations, OutboxSettles DEF AckRename
  <2>3. CASE files' = [files EXCEPT ![i] = @ \ {"delivered"}] /\ Goto(w, After(w))
    <3>1. RInv'
      BY <1>3, <2>1, <2>3, WorkerMoves DEF AckRename, Goto, After, Shape, Steps, InProgress
    <3> QED
      BY <1>3, <2>1, <2>3, <3>1, FileOperations, OutboxStutters DEF AckRename
  <2>4. CASE UNCHANGED files /\ Goto(w, IF w = Recovery THEN "failRead" ELSE "done")
    <3>1. RInv'
      BY <1>3, <2>4, WorkerMoves DEF AckRename, Goto, Shape, Steps, InProgress
    <3> QED
      BY <1>3, <2>4, <3>1, OutboxStutters DEF AckRename
  <2> QED
    BY <1>3, <2>2, <2>3, <2>4 DEF AckRename, i
<1>4. CASE AckUnlink(w)
  <2> USE <1>4 DEF AckUnlink, Goto, history
  <2>1. Entry(w) \in Ids
    BY EntryInIds DEF InProgress
  <2>2. RInv'
    BY <2>1, WorkerMoves DEF After, Shape, Steps, InProgress
  <2> QED
    BY <2>1, <2>2, FileOperations, OutboxStutters
<1>5. CASE FailRead(w)
  <2>1. \E step \in {"failWrite", After(w)} : pc' = [pc EXCEPT ![w] = step]
    BY <1>5 DEF FailRead, Goto
  <2>2. RInv'
    BY <1>5, <2>1, WorkerMoves DEF FailRead, history, After, Shape, Steps, InProgress
  <2> QED
    BY <1>5, <2>2, OutboxStutters DEF FailRead, history
<1>6. CASE FailWrite(w)
  <2> DEFINE i == Entry(w)
  <2>1. i \in Ids
    BY <1>6, EntryInIds DEF FailWrite, InProgress
  <2> HIDE DEF i
  <2>2. files' = [files EXCEPT ![i] = @ \cup {"json"}] \/ files' = files
    BY <1>6 DEF FailWrite, i
  <2>3. RInv'
    <3>1. files' \in [Ids -> SUBSET {"json", "delivered", "failed"}]
      BY <2>1, <2>2 DEF Shape
    <3>2. After(w) \in Steps \ InProgress
      BY DEF After, Steps, InProgress
    <3>3. UNCHANGED <<cur, reached, aborted>> /\ pc' = [pc EXCEPT ![w] = After(w)]
      BY <1>6 DEF FailWrite, Goto, history
    <3> QED
      BY <3>1, <3>2, <3>3, WorkerMoves DEF Shape, InProgress
  <2>4. CASE files' = [files EXCEPT ![i] = @ \cup {"json"}]
    BY <1>6, <2>1, <2>3, <2>4, FileOperations, OutboxAccepts DEF FailWrite, history
  <2>5. CASE files' = files
    BY <1>6, <2>3, <2>5, OutboxStutters DEF FailWrite, history
  <2> QED
    BY <2>2, <2>4, <2>5
<1> QED
  BY <1>1, <1>2, <1>3, <1>4, <1>5, <1>6 DEF Step

LEMMA PassRefines ==
  ASSUME RInv, NEW i \in Ids, GiveUp(i) \/ Defer(i) \/ Replay(i)
  PROVE  RInv' /\ [Promise!Next]_(Promise!vars)
<1> USE DEF RInv
<1>1. CASE GiveUp(i)
  <2>1. RInv'
    BY <1>1 DEF GiveUp, MovedToFailed, history, Shape, AckJustified, Entry
  <2> QED
    BY <1>1, <2>1, MoveRefines DEF GiveUp, history
<1>2. CASE Defer(i)
  <2>1. RInv'
    BY <1>2 DEF Defer, history, Shape, AckJustified, Entry
  <2> QED
    BY <1>2, <2>1, OutboxStutters DEF Defer, history
<1>3. CASE Replay(i)
  <2>1. RInv'
    BY <1>3 DEF Replay, Goto, history, Shape, AckJustified, Entry, Steps, InProgress
  <2> QED
    BY <1>3, <2>1, OutboxStutters DEF Replay, history
<1> QED
  BY <1>1, <1>2, <1>3

LEMMA RecoveryRefines ==
  ASSUME RInv, Load \/ ReplayPermanentError \/ RecoveryEnds \/ Crash \/ Restart
  PROVE  RInv' /\ [Promise!Next]_(Promise!vars)
<1> USE DEF RInv
<1>1. CASE Load
  <2>1. RInv'
    BY <1>1 DEF Load, Goto, Shape, AckJustified, Entry, Steps, InProgress
  <2> QED
    BY <1>1, <2>1, LoadKeeps, OutboxStutters DEF Load
<1>2. CASE ReplayPermanentError
  <2>1. cur \in Ids
    BY <1>2 DEF ReplayPermanentError, Shape, InProgress
  <2>2. RInv'
    BY <1>2, <2>1 DEF ReplayPermanentError, MovedToFailed, Goto, Shape, AckJustified, Entry,
                      Steps, InProgress
  <2> QED
    BY <1>2, <2>1, <2>2, MoveRefines DEF ReplayPermanentError
<1>3. CASE RecoveryEnds
  <2>1. RInv'
    BY <1>3 DEF RecoveryEnds, Goto, history, Shape, AckJustified, Entry, Steps, InProgress
  <2> QED
    BY <1>3, <2>1, OutboxStutters DEF RecoveryEnds, history
<1>4. CASE Crash
  <2>1. RInv'
    BY <1>4, RecoveryNotId
       DEF Crash, history, Shape, AckJustified, Entry, Workers, Steps, InProgress
  <2> QED
    BY <1>4, <2>1, OutboxStutters DEF Crash, history
<1>5. CASE Restart
  <2>1. RInv'
    BY <1>5 DEF Restart, Goto, history, Shape, AckJustified, Entry, Steps, InProgress
  <2> QED
    BY <1>5, <2>1, OutboxStutters DEF Restart, history
<1> QED
  BY <1>1, <1>2, <1>3, <1>4, <1>5

LEMMA StepRefines ==
  ASSUME RInv, [Next]_vars
  PROVE  RInv' /\ [Promise!Next]_(Promise!vars)
<1>1. CASE UNCHANGED vars
  <2>1. RInv'
    BY <1>1 DEF vars, RInv, Shape, AckJustified, Entry
  <2> QED
    BY <1>1, <2>1, OutboxStutters DEF vars
<1> QED
  BY <1>1, LiveRefines, WorkerRefines, PassRefines, RecoveryRefines DEF Next

(* No entry is lost in any order of file operations, sends, crashes and    *)
(* restarts: the write-ahead queue implements the abstract outbox.         *)
THEOREM OutboxImplemented == Spec => Implements
<1>1. Init => Promise!Init
  BY DEF Init, Promise!Init
<1>2. Spec => []RInv
  <2>1. RInv /\ [Next]_vars => RInv'
    BY StepRefines
  <2> QED
    BY RInvInit, <2>1, PTL DEF Spec
<1>3. RInv /\ [Next]_vars => [Promise!Next]_(Promise!vars)
  BY StepRefines
<1> QED
  BY <1>1, <1>2, <1>3, PTL DEF Spec, Implements, Promise!Spec

-----------------------------------------------------------------------------
(* No message is sent again once its entry has been acknowledged, short of *)
(* the overlap of a live delivery with a pass that had loaded its entry.   *)

AtRecovery(i) == cur = i /\ pc[Recovery] \in InProgress

Counts ==
  /\ retry \in [Ids -> Nat]
  /\ seen \in [Workers -> Nat]
  /\ todo \in [Ids -> Nat \cup {None}]

(* A message that was not submitted yet has left no trace. *)
Untouched(i) ==
  pc[i] = "new" => /\ "json" \notin files[i] /\ todo[i] = None
                   /\ i \notin acked /\ ~AtRecovery(i)

(* Two workers are at one entry only if the pass loaded it while its live  *)
(* delivery was in progress.                                               *)
OverlapNoted(i) ==
  pc[i] \in InProgress /\ (todo[i] # None \/ AtRecovery(i)) => i \in overlapped

(* An acknowledged entry is gone, and nobody is left who would restore it. *)
Gone(i) ==
  i \in acked \ overlapped =>
    /\ "json" \notin files[i] /\ todo[i] = None
    /\ pc[i] # "new" /\ (pc[i] \in InProgress => pc[i] = "unlink")
    /\ AtRecovery(i) => pc[Recovery] = "unlink"

(* The pass takes an entry off its list before it works on it. *)
TakenOff(i) == AtRecovery(i) => todo[i] = None

AInv ==
  /\ RInv
  /\ Counts
  /\ \A i \in Ids : Untouched(i) /\ OverlapNoted(i) /\ Gone(i) /\ TakenOff(i)

LEMMA AInvInit == Init => AInv
<1> SUFFICES ASSUME Init PROVE AInv
  OBVIOUS
<1>1. RInv
  BY RInvInit
<1>2. Counts
  BY DEF Init, Counts
<1>3. \A i \in Ids : i \in Workers /\ i # Recovery
  BY RecoveryNotId DEF Workers
<1>4. \A i \in Ids : Untouched(i) /\ OverlapNoted(i) /\ Gone(i) /\ TakenOff(i)
  BY <1>3 DEF Init, Untouched, OverlapNoted, Gone, TakenOff, AtRecovery, InProgress, Workers
<1> QED
  BY <1>1, <1>2, <1>4 DEF AInv

LEMMA CountsStep ==
  ASSUME AInv, [Next]_vars
  PROVE  Counts'
<1> USE DEF AInv, Counts
<1>1. ASSUME NEW i \in Ids, Enqueue(i) \/ SendUnqueued(i) \/ Abort(i) PROVE Counts'
  BY <1>1 DEF Enqueue, SendUnqueued, Abort
<1>2. ASSUME NEW w \in Workers, Step(w) PROVE Counts'
  <2>1. CASE SendOk(w) \/ SendError(w) \/ AckRename(w) \/ AckUnlink(w)
    BY <2>1 DEF SendOk, SendError, AckRename, AckUnlink
  <2>2. CASE FailRead(w)
    <3>1. Entry(w) \in Ids
      BY <2>2, EntryInIds DEF FailRead, RInv, InProgress
    <3> QED
      BY <2>2, <3>1 DEF FailRead
  <2>3. CASE FailWrite(w)
    BY <2>3 DEF FailWrite
  <2> QED
    BY <1>2, <2>1, <2>2, <2>3 DEF Step
<1>3. ASSUME NEW i \in Ids, GiveUp(i) \/ Defer(i) \/ Replay(i) PROVE Counts'
  BY <1>3 DEF GiveUp, Defer, Replay
<1>4. CASE Load \/ ReplayPermanentError \/ RecoveryEnds \/ Crash \/ Restart \/ UNCHANGED vars
  BY <1>4 DEF Load, ReplayPermanentError, RecoveryEnds, Crash, Restart, vars
<1> QED
  BY <1>1, <1>2, <1>3, <1>4 DEF Next

(* The four parts are about one entry each: a step of a worker at another  *)
(* entry keeps them.                                                       *)
EntryInv(i) == Untouched(i) /\ OverlapNoted(i) /\ Gone(i) /\ TakenOff(i)

LEMMA LiveKeeps ==
  ASSUME AInv, NEW i \in Ids, Enqueue(i) \/ SendUnqueued(i) \/ Abort(i), NEW j \in Ids
  PROVE  EntryInv(j)'
<1>1. /\ i \in Workers /\ j \in Workers /\ i # Recovery /\ j # Recovery
      /\ Recovery \in Workers
  BY RecoveryNotId DEF Workers
<1>2. /\ pc \in [Workers -> Steps] /\ EntryInv(j)
      /\ files \in [Ids -> SUBSET {"json", "delivered", "failed"}]
  BY DEF AInv, RInv, Shape, EntryInv
<1>3. /\ UNCHANGED <<todo, cur, acked, overlapped>>
      /\ \E step \in {"send", "sendUnqueued", "ack", "done"} : pc' = [pc EXCEPT ![i] = step]
      /\ pc[i] \in {"new", "send", "sendUnqueued"}
      /\ j # i => files'[j] = files[j]
  BY <1>2 DEF Enqueue, SendUnqueued, Abort, Goto, history
<1>4. CASE j = i
  <2>1. i \notin acked \ overlapped
    BY <1>2, <1>3, <1>4 DEF EntryInv, Untouched, Gone, InProgress
  <2> QED
    BY <1>1, <1>2, <1>3, <1>4, <2>1
       DEF EntryInv, Untouched, OverlapNoted, Gone, TakenOff, AtRecovery, InProgress
<1>5. CASE j # i
  BY <1>1, <1>2, <1>3, <1>5
     DEF EntryInv, Untouched, OverlapNoted, Gone, TakenOff, AtRecovery, InProgress
<1> QED
  BY <1>4, <1>5

(* A worker that goes on at its entry and leaves the acknowledged ones     *)
(* alone.                                                                  *)
LEMMA MoveKeeps ==
  ASSUME AInv, NEW w \in Workers, pc[w] \in InProgress \ {"unlink"}, NEW step \in Steps \ {"new"},
         pc' = [pc EXCEPT ![w] = step],
         UNCHANGED <<todo, cur, overlapped, acked>>,
         \A j \in Ids : j # Entry(w) /\ "json" \in files'[j] => "json" \in files[j],
         NEW j \in Ids
  PROVE  EntryInv(j)'
<1>1. /\ j \in Workers /\ j # Recovery /\ Recovery \in Workers
  BY RecoveryNotId DEF Workers
<1>2. pc \in [Workers -> Steps] /\ EntryInv(j) /\ Entry(w) \in Ids
  BY EntryInIds DEF AInv, RInv, Shape, EntryInv
<1>3. Entry(w) = j => j \notin acked \ overlapped
  BY <1>1, <1>2 DEF EntryInv, Gone, Entry, AtRecovery, InProgress
<1>4. pc[j] = "new" => Entry(w) # j
  BY <1>1, <1>2 DEF EntryInv, Untouched, Entry, AtRecovery, InProgress
<1>5. \A v \in Workers : pc'[v] = IF v = w THEN step ELSE pc[v]
  BY <1>2
<1>6. AtRecovery(j)' => AtRecovery(j)
  BY <1>1, <1>5 DEF AtRecovery
<1>7. pc'[j] \in InProgress => pc[j] \in InProgress
  BY <1>1, <1>5
<1>8. pc'[j] = "new" => pc[j] = "new"
  BY <1>1, <1>5
<1>9. Untouched(j)' /\ OverlapNoted(j)' /\ TakenOff(j)'
  BY <1>2, <1>4, <1>6, <1>7, <1>8 DEF EntryInv, Untouched, OverlapNoted, TakenOff
<1>10. Gone(j)'
  <2> SUFFICES ASSUME j \in acked \ overlapped PROVE Gone(j)'
    BY DEF Gone
  <2>1. Entry(w) # j
    BY <1>3
  <2>2. pc'[j] = pc[j] /\ (AtRecovery(j)' => pc'[Recovery] = pc[Recovery])
    BY <1>1, <1>5, <2>1 DEF Entry, AtRecovery
  <2> QED
    BY <1>2, <1>6, <2>1, <2>2 DEF EntryInv, Gone
<1> QED
  BY <1>9, <1>10 DEF EntryInv

LEMMA WorkerKeeps ==
  ASSUME AInv, NEW w \in Workers, Step(w), NEW j \in Ids
  PROVE  EntryInv(j)'
<1>1. /\ j \in Workers /\ j # Recovery /\ Recovery \in Workers
  BY RecoveryNotId DEF Workers
<1>2. /\ pc \in [Workers -> Steps] /\ EntryInv(j)
      /\ files \in [Ids -> SUBSET {"json", "delivered", "failed"}]
  BY DEF AInv, RInv, Shape, EntryInv
<1>3. pc[w] \in InProgress
  BY DEF Step, SendOk, SendError, AckRename, AckUnlink, FailRead, FailWrite, InProgress
<1>4. Entry(w) \in Ids
  BY <1>3, EntryInIds DEF AInv, RInv
<1>5. After(w) \in Steps \ {"new"}
  BY DEF After, Steps
<1>6. CASE SendOk(w) \/ SendError(w) \/ FailRead(w)
  <2>1. \E step \in {"ack", "failRead", "failWrite", After(w)} : pc' = [pc EXCEPT ![w] = step]
    BY <1>6 DEF SendOk, SendError, FailRead, Goto
  <2>2. UNCHANGED <<files, todo, cur, overlapped, acked>> /\ pc[w] # "unlink"
    BY <1>6 DEF SendOk, SendError, FailRead, history
  <2> QED
    BY <1>3, <1>5, <2>1, <2>2, MoveKeeps DEF Steps, InProgress
<1>7. CASE FailWrite(w)
  <2>1. pc' = [pc EXCEPT ![w] = After(w)] /\ pc[w] # "unlink"
    BY <1>7 DEF FailWrite, Goto
  <2>2. UNCHANGED <<todo, cur, overlapped, acked>>
    BY <1>7 DEF FailWrite, history
  <2>3. \A k \in Ids : k # Entry(w) => files'[k] = files[k]
    BY <1>2, <1>7 DEF FailWrite
  <2> QED
    BY <1>3, <1>5, <2>1, <2>2, <2>3, MoveKeeps
<1>8. CASE AckUnlink(w)
  <2>1. /\ UNCHANGED <<todo, cur, overlapped, acked>>
        /\ \A v \in Workers : pc'[v] = IF v = w THEN After(w) ELSE pc[v]
        /\ "json" \in files'[j] => "json" \in files[j]
    BY <1>2, <1>4, <1>8 DEF AckUnlink, Goto, history
  <2>2. AtRecovery(j)' => AtRecovery(j) /\ w # Recovery
    BY <1>1, <1>3, <2>1 DEF AtRecovery, After, InProgress
  <2>3. pc'[j] = pc[j] \/ (pc[j] \in InProgress /\ pc'[j] = "done")
    BY <1>1, <1>3, <2>1 DEF After
  <2> QED
    BY <1>1, <1>2, <2>1, <2>2, <2>3
       DEF EntryInv, Untouched, OverlapNoted, Gone, TakenOff, AtRecovery, InProgress
<1>9. CASE AckRename(w)
  <2> DEFINE i == Entry(w)
  <2>1. /\ UNCHANGED <<todo, cur, overlapped>> /\ pc[w] = "ack"
        /\ \A k \in Ids : k # i => files'[k] = files[k]
    BY <1>2, <1>9 DEF AckRename
  <2>2. CASE UNCHANGED acked
    <3>1. PICK step \in {"unlink", "failRead", "done", After(w)} : pc' = [pc EXCEPT ![w] = step]
      BY <1>9 DEF AckRename, Goto
    <3>2. step \in Steps \ {"new"} /\ pc[w] \in InProgress \ {"unlink"}
      BY <1>3, <1>5, <2>1 DEF Steps, InProgress
    <3>3. \A k \in Ids : k # Entry(w) /\ "json" \in files'[k] => "json" \in files[k]
      BY <2>1
    <3> QED
      BY <2>1, <2>2, <3>1, <3>2, <3>3, MoveKeeps
  <2>3. CASE /\ "json" \in files[i]
             /\ files' = [files EXCEPT ![i] = (@ \ {"json"}) \cup {"delivered"}]
             /\ Goto(w, "unlink") /\ acked' = acked \cup {i}
    <3>1. \A v \in Workers : pc'[v] = IF v = w THEN "unlink" ELSE pc[v]
      BY <1>2, <2>3 DEF Goto
    <3>2. AtRecovery(j)' <=> AtRecovery(j)
      BY <1>1, <1>3, <2>1, <3>1 DEF AtRecovery, InProgress
    <3>3. pc'[j] \in InProgress <=> pc[j] \in InProgress
      BY <1>1, <1>3, <3>1 DEF InProgress
    <3>4. CASE j = i
      <4>1. "json" \notin files'[j]
        BY <1>2, <1>4, <2>3, <3>4
      <4>2. pc[j] # "new"
        BY <1>2, <2>3, <3>4 DEF EntryInv, Untouched
      <4>3. pc'[j] # "new"
        BY <1>1, <3>1, <4>2
      <4>4. Untouched(j)' /\ OverlapNoted(j)' /\ TakenOff(j)'
        BY <1>2, <2>1, <3>2, <3>3, <4>3 DEF EntryInv, Untouched, OverlapNoted, TakenOff
      <4>5. Gone(j)'
        <5> SUFFICES ASSUME j \notin overlapped PROVE Gone(j)'
          BY <2>1 DEF Gone
        <5>1. CASE w = Recovery
          <6>1. AtRecovery(j)
            BY <1>3, <3>4, <5>1 DEF AtRecovery, Entry
          <6>2. todo[j] = None /\ pc[j] \notin InProgress
            BY <1>2, <6>1 DEF EntryInv, OverlapNoted, TakenOff
          <6>3. pc'[j] = pc[j]
            BY <1>1, <3>1, <5>1
          <6> QED
            BY <1>1, <2>1, <3>1, <4>1, <4>2, <5>1, <6>2, <6>3 DEF Gone
        <5>2. CASE w # Recovery
          <6>1. w = j /\ pc[j] \in InProgress
            BY <1>3, <3>4, <5>2 DEF Entry
          <6>2. todo[j] = None /\ ~AtRecovery(j)
            BY <1>2, <6>1 DEF EntryInv, OverlapNoted
          <6> QED
            BY <2>1, <3>1, <3>2, <4>1, <6>1, <6>2 DEF Gone
        <5> QED
          BY <5>1, <5>2
      <4> QED
        BY <4>4, <4>5 DEF EntryInv
    <3>5. CASE j # i
      <4>1. files'[j] = files[j] /\ (j \in acked' <=> j \in acked)
        BY <2>1, <2>3, <3>5
      <4>2. w # j /\ pc'[j] = pc[j]
        BY <1>1, <3>1, <3>5 DEF Entry
      <4>3. AtRecovery(j) => pc'[Recovery] = pc[Recovery]
        BY <1>1, <3>1, <3>5 DEF Entry, AtRecovery
      <4> QED
        BY <1>2, <2>1, <3>2, <4>1, <4>2, <4>3
           DEF EntryInv, Untouched, OverlapNoted, Gone, TakenOff
    <3> QED
      BY <3>4, <3>5
  <2> QED
    BY <1>9, <2>2, <2>3 DEF AckRename
<1> QED
  BY <1>6, <1>7, <1>8, <1>9 DEF Step

LEMMA PassKeeps ==
  ASSUME AInv, NEW i \in Ids, GiveUp(i) \/ Defer(i) \/ Replay(i), NEW j \in Ids
  PROVE  EntryInv(j)'
<1>1. /\ j \in Workers /\ j # Recovery /\ Recovery \in Workers
  BY RecoveryNotId DEF Workers
<1>2. /\ pc \in [Workers -> Steps] /\ EntryInv(j) /\ EntryInv(i)
      /\ files \in [Ids -> SUBSET {"json", "delivered", "failed"}]
      /\ todo \in [Ids -> Nat \cup {None}]
  BY DEF AInv, RInv, Shape, Counts, EntryInv
<1>3. /\ pc[Recovery] = "next" /\ todo[i] # None
      /\ todo'[j] = IF j = i THEN None ELSE todo[j]
      /\ "json" \in files'[j] => "json" \in files[j]
      /\ UNCHANGED <<acked, overlapped>>
  BY <1>2 DEF GiveUp, Defer, Replay, Oldest, MovedToFailed, history
<1>4. ~AtRecovery(j)
  BY <1>3 DEF AtRecovery, InProgress
<1>5. CASE GiveUp(i) \/ Defer(i)
  <2>1. UNCHANGED <<pc, cur>>
    BY <1>5 DEF GiveUp, Defer
  <2>2. ~AtRecovery(j)'
    BY <1>4, <2>1 DEF AtRecovery
  <2> QED
    BY <1>2, <1>3, <2>1, <2>2
       DEF EntryInv, Untouched, OverlapNoted, Gone, TakenOff
<1>6. CASE Replay(i)
  <2>1. /\ cur' = i /\ pc'[Recovery] = "send" /\ pc'[j] = pc[j]
    BY <1>1, <1>2, <1>6 DEF Replay, Goto
  <2>2. AtRecovery(j)' => j = i
    BY <2>1 DEF AtRecovery
  <2> QED
    BY <1>2, <1>3, <2>1, <2>2
       DEF EntryInv, Untouched, OverlapNoted, Gone, TakenOff
<1> QED
  BY <1>5, <1>6

LEMMA RecoveryKeeps ==
  ASSUME AInv, Load \/ ReplayPermanentError \/ RecoveryEnds \/ Crash \/ Restart, NEW j \in Ids
  PROVE  EntryInv(j)'
<1>1. /\ j \in Workers /\ j # Recovery /\ Recovery \in Workers
  BY RecoveryNotId DEF Workers
<1>2. /\ pc \in [Workers -> Steps] /\ EntryInv(j)
      /\ files \in [Ids -> SUBSET {"json", "delivered", "failed"}]
      /\ todo \in [Ids -> Nat \cup {None}]
  BY DEF AInv, RInv, Shape, Counts, EntryInv
<1>3. CASE Load
  <2>1. /\ todo'[j] # None => "json" \in files[j]
        /\ "json" \in files'[j] <=> "json" \in files[j]
        /\ overlapped \subseteq overlapped' /\ acked' = acked
        /\ todo'[j] # None /\ pc[j] \in InProgress => j \in overlapped'
        /\ pc'[j] = pc[j] /\ pc'[Recovery] = "next"
    BY <1>1, <1>2, <1>3 DEF Load, Goto
  <2>2. ~AtRecovery(j)'
    BY <2>1 DEF AtRecovery, InProgress
  <2> QED
    BY <1>2, <2>1, <2>2 DEF EntryInv, Untouched, OverlapNoted, Gone, TakenOff
<1>4. CASE ReplayPermanentError
  <2>1. /\ UNCHANGED <<todo, acked, overlapped>>
        /\ "json" \in files'[j] => "json" \in files[j]
        /\ pc'[j] = pc[j] /\ pc'[Recovery] = "next"
    BY <1>1, <1>2, <1>4 DEF ReplayPermanentError, MovedToFailed, Goto
  <2>2. ~AtRecovery(j)'
    BY <2>1 DEF AtRecovery, InProgress
  <2> QED
    BY <1>2, <2>1, <2>2 DEF EntryInv, Untouched, OverlapNoted, Gone, TakenOff
<1>5. CASE RecoveryEnds \/ Crash \/ Restart
  <2>1. /\ todo'[j] = None \/ todo'[j] = todo[j]
        /\ UNCHANGED <<files, acked, overlapped>>
        /\ pc'[j] = pc[j] \/ (pc[j] # "new" /\ pc'[j] = "done")
        /\ pc'[Recovery] \in {"load", "done"}
    BY <1>1, <1>2, <1>5 DEF RecoveryEnds, Crash, Restart, Goto, history
  <2>2. ~AtRecovery(j)'
    BY <2>1 DEF AtRecovery, InProgress
  <2>3. /\ pc'[j] = "new" => pc[j] = "new"
        /\ pc'[j] \in InProgress => pc[j] = pc'[j]
    BY <2>1 DEF InProgress
  <2>4. Untouched(j)' /\ OverlapNoted(j)' /\ TakenOff(j)'
    BY <1>2, <2>1, <2>2, <2>3 DEF EntryInv, Untouched, OverlapNoted, TakenOff
  <2>5. Gone(j)'
    BY <1>2, <2>1, <2>2, <2>3 DEF EntryInv, Gone
  <2> QED
    BY <2>4, <2>5 DEF EntryInv
<1> QED
  BY <1>3, <1>4, <1>5

LEMMA AInvStep ==
  ASSUME AInv, [Next]_vars
  PROVE  AInv'
<1>1. RInv'
  BY StepRefines DEF AInv
<1>2. Counts'
  BY CountsStep
<1>3. ASSUME NEW j \in Ids PROVE EntryInv(j)'
  <2>1. CASE UNCHANGED vars
    BY <2>1 DEF vars, AInv, EntryInv, Untouched, OverlapNoted, Gone, TakenOff, AtRecovery
  <2> QED
    BY <2>1, LiveKeeps, WorkerKeeps, PassKeeps, RecoveryKeeps DEF Next
<1> QED
  BY <1>1, <1>2, <1>3 DEF AInv, EntryInv

(* Only the start of a live delivery and the recovery pass begin a send. *)
LEMMA SendsBegin ==
  ASSUME RInv, [Next]_vars, NEW w \in Workers, pc'[w] = "send", pc[w] # "send"
  PROVE  \/ w \in Ids /\ Enqueue(w)
         \/ w = Recovery /\ \E i \in Ids : Replay(i)
<1> USE DEF RInv, Shape
<1>1. \A v, u \in Workers, step \in Steps \ {"send"} :
        pc' = [pc EXCEPT ![u] = step] => pc'[v] # "send" \/ pc[v] = "send"
  OBVIOUS
<1>2. Recovery \in Workers /\ \A i \in Ids : i \in Workers /\ i # Recovery
  BY RecoveryNotId DEF Workers
<1>3. ASSUME NEW i \in Ids, SendUnqueued(i) \/ Abort(i) PROVE FALSE
  BY <1>2, <1>3 DEF SendUnqueued, Abort, Goto
<1>4. ASSUME NEW u \in Workers, Step(u) PROVE FALSE
  <2>1. \E step \in Steps \ {"send"} : pc' = [pc EXCEPT ![u] = step]
    BY <1>4 DEF Step, SendOk, SendError, AckRename, AckUnlink, FailRead, FailWrite, Goto,
                After, Steps, InProgress
  <2> QED
    BY <1>1, <2>1
<1>5. ASSUME NEW i \in Ids, GiveUp(i) \/ Defer(i) PROVE FALSE
  BY <1>5 DEF GiveUp, Defer
<1>6. ASSUME Load \/ ReplayPermanentError \/ RecoveryEnds \/ Crash \/ Restart \/ UNCHANGED vars
      PROVE  FALSE
  BY <1>2, <1>6 DEF Load, ReplayPermanentError, RecoveryEnds, Crash, Restart, Goto, vars
<1>7. ASSUME NEW i \in Ids, Enqueue(i) PROVE w = i
  BY <1>2, <1>7 DEF Enqueue, Goto
<1>8. ASSUME NEW i \in Ids, Replay(i) PROVE w = Recovery
  BY <1>2, <1>8 DEF Replay, Goto
<1> QED
  BY <1>3, <1>4, <1>5, <1>6, <1>7, <1>8 DEF Next

(* An acknowledged entry is never sent again, whatever crashes, restarts    *)
(* and failing file operations intervene, unless a pass had loaded it while *)
(* its live delivery was in progress.                                      *)
THEOREM AckedStaysAcked == Spec => AckedNotReplayed
<1>1. Spec => []AInv
  BY AInvInit, AInvStep, PTL DEF Spec
<1>2. AInv /\ [Next]_vars =>
        [\A w \in Workers :
           (pc'[w] = "send" /\ pc[w] # "send") => Entry(w)' \notin acked \ overlapped]_vars
  <2> SUFFICES ASSUME AInv, [Next]_vars, NEW w \in Workers, pc'[w] = "send", pc[w] # "send"
               PROVE  Entry(w)' \notin acked \ overlapped
    OBVIOUS
  <2>1. CASE w \in Ids /\ Enqueue(w)
    <3>1. Entry(w)' = w /\ pc[w] = "new"
      BY <2>1, RecoveryNotId DEF Entry, Enqueue
    <3> QED
      BY <2>1, <3>1 DEF AInv, Untouched
  <2>2. ASSUME w = Recovery, NEW i \in Ids, Replay(i) PROVE Entry(w)' \notin acked \ overlapped
    <3>1. Entry(w)' = i /\ todo[i] # None
      BY <2>2 DEF Entry, Replay, Oldest
    <3> QED
      BY <3>1 DEF AInv, Gone
  <2> QED
    BY <2>1, <2>2, SendsBegin DEF AInv
<1> QED
  BY <1>1, <1>2, PTL DEF Spec, AckedNotReplayed

-----------------------------------------------------------------------------
(* The retry counters: they stay within MAX_RETRIES, and an entry is set   *)
(* aside only for cause, although failDelivery writes back a count it read *)
(* one await earlier.                                                      *)

Live(i) == pc[i] \in InProgress

(* The pass has the entry before it, or may still load it. *)
Ahead(i) == pc[Recovery] = "load" \/ todo[i] # None \/ AtRecovery(i)

(* A live delivery counts one failure, and at most one pass gets at its    *)
(* entry meanwhile, since the next pass starts when no delivery is in      *)
(* progress or after a crash.  So two workers at one entry have small      *)
(* counts, and a worker alone has read the latest one.                     *)
CountOK(i) ==
  /\ pc[i] = "new" => retry[i] = 0
  /\ Live(i) => retry[i] <= 1
  /\ pc[i] = "failWrite" => seen[i] <= retry[i]
  /\ Live(i) /\ Ahead(i) => retry[i] = 0
  /\ todo[i] # None => todo[i] <= retry[i] /\ (retry[i] = todo[i] \/ retry[i] <= 1)
  /\ AtRecovery(i) => retry[i] < MaxRetries
  /\ AtRecovery(i) /\ pc[Recovery] = "failWrite" => seen[Recovery] <= retry[i]
  /\ retry[i] <= MaxRetries

(* An entry set aside for its failures is gone, and nobody restores it. *)
SetAsideOK(i) ==
  "failed" \in files[i] /\ i \notin permanent =>
    /\ retry[i] >= MaxRetries
    /\ "json" \notin files[i] /\ todo[i] = None
    /\ ~Live(i) /\ pc[i] # "new" /\ ~AtRecovery(i)

Ranges ==
  /\ seen \in [Workers -> 0 .. MaxRetries]
  /\ permanent \subseteq Ids /\ acked \subseteq Ids /\ overlapped \subseteq Ids

CInv ==
  /\ AInv
  /\ Ranges
  /\ \A i \in Ids : CountOK(i) /\ SetAsideOK(i)

LEMMA CInvInit == Init => CInv
<1> SUFFICES ASSUME Init PROVE CInv
  OBVIOUS
<1>1. \A i \in Ids : i \in Workers /\ i # Recovery
  BY RecoveryNotId DEF Workers
<1>2. MaxRetries \in Nat /\ MaxRetries >= 2
  BY DeliveryAssumption
<1>3. ASSUME NEW i \in Ids PROVE CountOK(i) /\ SetAsideOK(i)
  <2>1. /\ pc[i] = "new" /\ retry[i] = 0 /\ todo[i] = None /\ files[i] = {}
        /\ cur = None /\ i # None
    BY <1>1, RecoveryNotId DEF Init, Workers
  <2>2. ~Live(i) /\ ~AtRecovery(i)
    BY <2>1 DEF Live, AtRecovery, InProgress
  <2> QED
    BY <1>2, <2>1, <2>2 DEF CountOK, SetAsideOK
<1>4. Ranges
  BY <1>2 DEF Init, Ranges
<1> QED
  BY <1>3, <1>4, AInvInit DEF CInv

(* What the parts about one entry rest on. *)
LEMMA Setting ==
  ASSUME CInv, NEW j \in Ids
  PROVE  /\ j \in Workers /\ j # Recovery /\ Recovery \in Workers
         /\ pc \in [Workers -> Steps]
         /\ files \in [Ids -> SUBSET {"json", "delivered", "failed"}]
         /\ retry \in [Ids -> Nat] /\ seen \in [Workers -> Nat]
         /\ todo \in [Ids -> Nat \cup {None}]
         /\ CountOK(j) /\ SetAsideOK(j)
         /\ Untouched(j) /\ TakenOff(j)
         /\ MaxRetries \in Nat /\ MaxRetries >= 2
  BY RecoveryNotId, DeliveryAssumption DEF CInv, AInv, RInv, Shape, Counts, Workers

LEMMA RangesStep ==
  ASSUME CInv, [Next]_vars
  PROVE  Ranges'
<1>0. /\ Ranges /\ RInv /\ \A i \in Ids : retry[i] \in 0 .. MaxRetries
      /\ 0 \in 0 .. MaxRetries /\ cur \in Ids \cup {None}
  BY Setting, DeliveryAssumption DEF CInv, AInv, RInv, Shape, CountOK
<1>1. ASSUME NEW i \in Ids, Enqueue(i) \/ SendUnqueued(i) \/ Abort(i) PROVE Ranges'
  BY <1>0, <1>1 DEF Enqueue, SendUnqueued, Abort, history, Ranges
<1>2. ASSUME NEW w \in Workers, Step(w) PROVE Ranges'
  <2>1. Entry(w) \in Ids
    BY <1>0, <1>2, EntryInIds
       DEF Step, SendOk, SendError, AckRename, AckUnlink, FailRead, FailWrite, InProgress, RInv
  <2>2. CASE SendOk(w) \/ SendError(w) \/ AckRename(w) \/ AckUnlink(w)
    BY <1>0, <2>1, <2>2 DEF SendOk, SendError, AckRename, AckUnlink, history, Ranges
  <2>3. CASE FailRead(w) \/ FailWrite(w)
    BY <1>0, <2>1, <2>3 DEF FailRead, FailWrite, history, Ranges
  <2> QED
    BY <1>2, <2>2, <2>3 DEF Step
<1>3. ASSUME NEW i \in Ids, GiveUp(i) \/ Defer(i) \/ Replay(i) PROVE Ranges'
  BY <1>0, <1>3 DEF GiveUp, Defer, Replay, history, Ranges
<1>4. CASE ReplayPermanentError
  <2>1. cur \in Ids
    BY <1>0, <1>4 DEF ReplayPermanentError, RInv, Shape, InProgress
  <2> QED
    BY <1>0, <1>4, <2>1 DEF ReplayPermanentError, Ranges
<1>5. CASE Load \/ RecoveryEnds \/ Crash \/ Restart \/ UNCHANGED vars
  BY <1>0, <1>5 DEF Load, RecoveryEnds, Crash, Restart, history, vars, Ranges
<1> QED
  BY <1>1, <1>2, <1>3, <1>4, <1>5 DEF Next

-----------------------------------------------------------------------------
(* The parts about one entry, step by step. *)

LEMMA LiveCounts ==
  ASSUME CInv, NEW i \in Ids, Enqueue(i) \/ SendUnqueued(i) \/ Abort(i), NEW j \in Ids
  PROVE  CountOK(j)' /\ SetAsideOK(j)'
<1>1. i \in Workers /\ i # Recovery
  BY Setting
<1>2. /\ UNCHANGED <<todo, cur, retry, seen, permanent>>
      /\ \E step \in {"send", "sendUnqueued", "ack", "done"} :
           \A v \in Workers : pc'[v] = IF v = i THEN step ELSE pc[v]
      /\ pc[i] \in {"new", "send", "sendUnqueued"}
      /\ files'[j] \in {files[j], files[j] \cup {"json"}}
      /\ j # i => files'[j] = files[j]
  BY Setting DEF Enqueue, SendUnqueued, Abort, Goto, history
<1>3. /\ pc'[Recovery] = pc[Recovery] /\ (AtRecovery(j)' <=> AtRecovery(j))
      /\ Ahead(j)' <=> Ahead(j)
  BY <1>1, <1>2, Setting DEF AtRecovery, Ahead
<1>4. CASE j = i
  BY <1>1, <1>2, <1>3, <1>4, Setting DEF CountOK, SetAsideOK, Live, InProgress
<1>5. CASE j # i
  <2>1. pc'[j] = pc[j] /\ (Live(j)' <=> Live(j))
    BY <1>2, <1>5, Setting DEF Live
  <2> QED
    BY <1>2, <1>3, <1>5, <2>1, Setting DEF CountOK, SetAsideOK
<1> QED
  BY <1>4, <1>5

(* A worker's step that leaves every counter and adds no entry. *)
LEMMA QuietCounts ==
  ASSUME CInv, NEW w \in Workers, pc[w] \in InProgress,
         NEW step \in Steps \ {"new", "load", "failWrite"},
         pc' = [pc EXCEPT ![w] = step],
         UNCHANGED <<todo, cur, retry, seen, permanent>>,
         NEW j \in Ids,
         "json" \in files'[j] => "json" \in files[j],
         "failed" \in files'[j] <=> "failed" \in files[j]
  PROVE  CountOK(j)' /\ SetAsideOK(j)'
<1>1. \A v \in Workers : pc'[v] = IF v = w THEN step ELSE pc[v]
  BY Setting
<1>2. /\ AtRecovery(j)' => AtRecovery(j)
      /\ pc'[Recovery] \in {"load", "failWrite"} => pc'[Recovery] = pc[Recovery]
      /\ Live(j)' => Live(j)
      /\ pc'[j] \in {"new", "failWrite"} => pc'[j] = pc[j]
  BY <1>1, Setting DEF AtRecovery, Live
<1>3. Ahead(j)' => Ahead(j)
  BY <1>2 DEF Ahead
<1> QED
  BY <1>2, <1>3, Setting DEF CountOK, SetAsideOK

LEMMA WorkerCounts ==
  ASSUME CInv, NEW w \in Workers, Step(w), NEW j \in Ids
  PROVE  CountOK(j)' /\ SetAsideOK(j)'
<1>1. pc[w] \in InProgress
  BY DEF Step, SendOk, SendError, AckRename, AckUnlink, FailRead, FailWrite, InProgress
<1>2. Entry(w) \in Ids
  BY <1>1, EntryInIds DEF CInv, AInv, RInv
<1>3. After(w) \in Steps \ {"new", "load", "failWrite"}
  BY DEF After, Steps, InProgress
<1>4. Live(j) \/ AtRecovery(j) \/ pc[j] = "new"
         => SetAsideOK(j) /\ ~("failed" \in files[j] /\ j \notin permanent)
  BY Setting DEF SetAsideOK
<1>5. Entry(w) = j => (w = j /\ Live(j)) \/ (w = Recovery /\ AtRecovery(j))
  BY <1>1 DEF Entry, AtRecovery, Live
<1>6. CASE SendOk(w) \/ SendError(w) \/ AckUnlink(w) \/ AckRename(w)
  <2>1. PICK step \in {"ack", "failRead", "unlink", "done", After(w)} :
            pc' = [pc EXCEPT ![w] = step]
    BY <1>6 DEF SendOk, SendError, AckUnlink, AckRename, Goto
  <2>2. step \in Steps \ {"new", "load", "failWrite"}
    BY <1>3 DEF Steps, InProgress
  <2>3. UNCHANGED <<todo, cur, retry, seen, permanent>>
    BY <1>6 DEF SendOk, SendError, AckUnlink, AckRename, history
  <2>4. /\ "json" \in files'[j] => "json" \in files[j]
        /\ "failed" \in files'[j] <=> "failed" \in files[j]
    BY <1>2, <1>6, Setting DEF SendOk, SendError, AckUnlink, AckRename
  <2> QED
    BY <1>1, <2>1, <2>2, <2>3, <2>4, QuietCounts
<1>7. CASE FailRead(w)
  <2>1. UNCHANGED <<files, todo, cur, retry, permanent>>
    BY <1>7 DEF FailRead, history
  <2>2. CASE Goto(w, After(w)) /\ UNCHANGED seen
    BY <1>1, <1>3, <2>1, <2>2, QuietCounts DEF Goto
  <2>3. CASE Goto(w, "failWrite") /\ seen' = [seen EXCEPT ![w] = retry[Entry(w)]]
    <3>1. \A v \in Workers : /\ pc'[v] = IF v = w THEN "failWrite" ELSE pc[v]
                             /\ seen'[v] = IF v = w THEN retry[Entry(w)] ELSE seen[v]
      BY <2>3, Setting DEF Goto
    <3>2. /\ AtRecovery(j)' <=> AtRecovery(j)
          /\ Live(j)' <=> Live(j)
          /\ pc'[j] = "new" <=> pc[j] = "new"
          /\ pc'[Recovery] = "load" <=> pc[Recovery] = "load"
      BY <1>1, <2>1, <3>1, Setting DEF AtRecovery, Live, InProgress
    <3>3. Ahead(j)' <=> Ahead(j)
      BY <2>1, <3>2 DEF Ahead
    <3>4. pc'[j] = "failWrite" => seen'[j] <= retry[j]
      BY <3>1, Setting DEF Entry, CountOK
    <3>5. AtRecovery(j)' /\ pc'[Recovery] = "failWrite" => seen'[Recovery] <= retry[j]
      <4>1. CASE w = Recovery
        BY <2>1, <3>1, <4>1, Setting DEF Entry, AtRecovery
      <4>2. CASE w # Recovery
        BY <3>1, <3>2, <4>2, Setting DEF CountOK
      <4> QED
        BY <4>1, <4>2
    <3> QED
      BY <2>1, <3>2, <3>3, <3>4, <3>5, Setting DEF CountOK, SetAsideOK
  <2> QED
    BY <1>7, <2>2, <2>3 DEF FailRead
<1>8. CASE FailWrite(w)
  <2>1. /\ UNCHANGED <<todo, cur, permanent>>
        /\ \A v \in Workers : /\ pc'[v] = IF v = w THEN After(w) ELSE pc[v]
                              /\ v # w => seen'[v] = seen[v]
        /\ "failed" \in files'[j] <=> "failed" \in files[j]
        /\ pc[w] = "failWrite"
    BY <1>2, <1>8, Setting DEF FailWrite, Goto, history
  <2>2. /\ AtRecovery(j)' => AtRecovery(j) /\ w # Recovery
        /\ Live(j)' => Live(j) /\ w # j
        /\ pc'[j] \in {"new", "failWrite"} => pc'[j] = pc[j] /\ w # j
        /\ pc'[Recovery] \in {"load", "failWrite"} => pc'[Recovery] = pc[Recovery] /\ w # Recovery
    BY <1>1, <1>3, <2>1, Setting DEF AtRecovery, Live, After, InProgress
  <2>3. Ahead(j)' => Ahead(j)
    BY <2>1, <2>2 DEF Ahead
  <2>4. CASE files'[j] = files[j] /\ retry'[j] = retry[j]
    BY <2>1, <2>2, <2>3, <2>4, Setting DEF CountOK, SetAsideOK
  <2>5. CASE j = Entry(w) /\ retry'[j] = seen[w] + 1
    <3>1. SetAsideOK(j)'
      BY <1>4, <1>5, <2>1, <2>5 DEF SetAsideOK
    <3>2. CASE w = j
      <4>1. /\ Live(j) /\ ~Live(j)' /\ retry[j] \in 0 .. 1 /\ seen[j] \in 0 .. 1
            /\ Ahead(j) => retry'[j] = 1 /\ retry[j] = 0
            /\ retry'[j] \in 1 .. 2
        BY <1>1, <2>1, <2>2, <2>5, <3>2, Setting DEF CountOK, Live
      <4>2. AtRecovery(j)' => Ahead(j) /\ (pc'[Recovery] = "failWrite" => seen'[Recovery] <= 0)
        BY <2>1, <2>2, <4>1, Setting DEF CountOK, Ahead
      <4>3. todo[j] # None => Ahead(j) /\ todo[j] = 0
        BY <4>1, Setting DEF CountOK, Ahead
      <4>4. pc'[j] \notin {"new", "failWrite"}
        BY <2>2, <3>2
      <4> QED
        BY <2>1, <2>2, <3>1, <4>1, <4>2, <4>3, <4>4, Setting DEF CountOK
    <3>3. CASE w = Recovery
      <4>1. AtRecovery(j) /\ ~AtRecovery(j)' /\ todo[j] = None /\ pc[j] # "new"
        BY <1>5, <2>2, <2>5, <3>3, Setting DEF TakenOff, Untouched
      <4>2. ~Ahead(j)'
        BY <2>1, <2>2, <3>3, <4>1 DEF Ahead
      <4>3. /\ retry'[j] \in 1 .. MaxRetries
            /\ Live(j) => retry'[j] = 1 /\ retry[j] = 0
        BY <2>1, <2>5, <3>3, <4>1, Setting DEF CountOK, Ahead
      <4>4. pc'[j] = pc[j] /\ seen'[j] = seen[j] /\ (Live(j)' => Live(j))
        BY <2>1, <2>2, <3>3, Setting
      <4>5. pc'[j] = "failWrite" => seen'[j] <= retry'[j]
        <5>1. pc[j] = "failWrite" => Live(j) /\ seen[j] <= retry[j] /\ seen[j] \in Nat
          BY Setting DEF CountOK, Live, InProgress
        <5> QED
          BY <4>3, <4>4, <5>1
      <4> QED
        BY <2>1, <3>1, <4>1, <4>2, <4>3, <4>4, <4>5, Setting DEF CountOK
    <3> QED
      BY <1>5, <2>5, <3>2, <3>3
  <2> QED
    BY <1>2, <1>8, <2>4, <2>5, Setting DEF FailWrite
<1> QED
  BY <1>6, <1>7, <1>8 DEF Step

LEMMA PassCounts ==
  ASSUME CInv, NEW i \in Ids, GiveUp(i) \/ Defer(i) \/ Replay(i), NEW j \in Ids
  PROVE  CountOK(j)' /\ SetAsideOK(j)'
<1>1. /\ pc[Recovery] = "next" /\ todo[i] # None /\ CountOK(i)
      /\ todo'[j] = IF j = i THEN None ELSE todo[j]
      /\ UNCHANGED <<retry, seen, permanent>>
      /\ pc'[j] = pc[j]
      /\ "json" \in files'[j] => "json" \in files[j]
  BY Setting DEF GiveUp, Defer, Replay, Oldest, MovedToFailed, Goto, history
<1>2. ~AtRecovery(j) /\ (Live(j)' <=> Live(j))
  BY <1>1 DEF AtRecovery, Live, InProgress
<1>3. CASE Replay(i)
  <2>1. /\ pc'[Recovery] = "send" /\ cur' = i /\ files' = files
        /\ todo[i] < MaxRetries
    BY <1>1, <1>3, Setting DEF Replay, Goto, Exhausted
  <2>2. AtRecovery(j)' => j = i
    BY <2>1 DEF AtRecovery
  <2>3. Ahead(j)' => Ahead(j)
    BY <1>1, <2>1, <2>2 DEF Ahead
  <2>4. AtRecovery(j)' => retry[j] < MaxRetries
    BY <1>1, <2>1, <2>2, Setting DEF CountOK
  <2>5. CountOK(j)'
    BY <1>1, <1>2, <2>1, <2>3, <2>4, Setting DEF CountOK
  <2>6. SetAsideOK(j)'
    BY <1>1, <1>2, <2>1, <2>2, Setting DEF SetAsideOK
  <2> QED
    BY <2>5, <2>6
<1>4. CASE GiveUp(i) \/ Defer(i)
  <2>1. UNCHANGED <<pc, cur>>
    BY <1>4 DEF GiveUp, Defer
  <2>2. ~AtRecovery(j)' /\ (Ahead(j)' => Ahead(j))
    BY <1>1, <1>2, <2>1 DEF AtRecovery, Ahead
  <2>3. CountOK(j)'
    BY <1>1, <1>2, <2>1, <2>2, Setting DEF CountOK
  <2>4. CASE files'[j] = files[j]
    BY <1>1, <1>2, <2>1, <2>2, <2>3, <2>4, Setting DEF SetAsideOK
  <2>5. CASE files'[j] # files[j]
    <3>1. /\ GiveUp(i) /\ j = i /\ "json" \in files[j]
          /\ files'[j] = (files[j] \ {"json"}) \cup {"failed"}
      BY <1>4, <2>5, Setting DEF GiveUp, Defer, MovedToFailed
    <3>2. todo[j] >= MaxRetries /\ todo[j] \in Nat
      BY <1>1, <3>1, Setting DEF GiveUp, Exhausted
    <3>3. retry[j] >= MaxRetries /\ ~Live(j)
      BY <1>1, <3>1, <3>2, Setting DEF CountOK, Ahead
    <3>4. pc[j] # "new"
      BY <3>1, Setting DEF Untouched
    <3> QED
      BY <1>1, <1>2, <2>1, <2>2, <2>3, <3>1, <3>3, <3>4 DEF SetAsideOK
  <2> QED
    BY <2>4, <2>5
<1> QED
  BY <1>3, <1>4

LEMMA RecoveryCounts ==
  ASSUME CInv, Load \/ ReplayPermanentError \/ RecoveryEnds \/ Crash \/ Restart, NEW j \in Ids
  PROVE  CountOK(j)' /\ SetAsideOK(j)'
<1>1. CASE Load
  <2>1. /\ UNCHANGED <<retry, seen, permanent>> /\ pc[Recovery] = "load"
        /\ pc'[Recovery] = "next" /\ pc'[j] = pc[j]
        /\ todo'[j] = IF "json" \in files[j] THEN retry[j] ELSE None
        /\ "json" \in files'[j] <=> "json" \in files[j]
        /\ "failed" \in files'[j] <=> "failed" \in files[j]
    BY <1>1, Setting DEF Load, Goto
  <2>2. /\ ~AtRecovery(j)' /\ (Live(j)' <=> Live(j)) /\ Ahead(j)
    BY <2>1 DEF AtRecovery, Live, Ahead, InProgress
  <2>3. CountOK(j)'
    <3>1. retry[j] \in Nat /\ (todo'[j] # None => todo'[j] = retry[j])
      BY <2>1, Setting
    <3>2. Live(j) => retry[j] = 0
      BY <2>2, Setting DEF CountOK
    <3> QED
      BY <2>1, <2>2, <3>1, <3>2, Setting DEF CountOK
  <2>4. SetAsideOK(j)'
    BY <2>1, <2>2, Setting DEF SetAsideOK
  <2> QED
    BY <2>3, <2>4
<1>2. CASE ReplayPermanentError
  <2>1. /\ UNCHANGED <<retry, seen, todo, cur>> /\ permanent' = permanent \cup {cur}
        /\ pc'[Recovery] = "next" /\ pc'[j] = pc[j]
        /\ "json" \in files'[j] => "json" \in files[j]
        /\ j # cur => files'[j] = files[j]
    BY <1>2, Setting DEF ReplayPermanentError, MovedToFailed, Goto
  <2>2. /\ ~AtRecovery(j)' /\ (Live(j)' <=> Live(j)) /\ (Ahead(j)' => Ahead(j))
    BY <2>1 DEF AtRecovery, Live, Ahead, InProgress
  <2>3. CountOK(j)'
    BY <2>1, <2>2, Setting DEF CountOK
  <2>4. SetAsideOK(j)'
    <3>1. CASE j = cur
      BY <2>1, <3>1 DEF SetAsideOK
    <3>2. CASE j # cur
      BY <2>1, <2>2, <3>2, Setting DEF SetAsideOK
    <3> QED
      BY <3>1, <3>2
  <2> QED
    BY <2>3, <2>4
<1>3. CASE RecoveryEnds \/ Crash
  <2>1. /\ UNCHANGED <<files, retry, permanent>> /\ todo'[j] = None
        /\ pc'[Recovery] \in {"load", "done"}
        /\ pc'[Recovery] = "load" => pc'[j] \in {"new", "done"}
        /\ pc'[j] = "new" => pc[j] = "new"
        /\ pc'[j] # "done" => (pc'[j] = pc[j] /\ seen'[j] = seen[j]) \/ pc'[j] = "new"
        /\ pc[j] = "new" <=> pc'[j] = "new"
    BY <1>3, Setting DEF RecoveryEnds, Crash, Goto, history
  <2>2. /\ ~AtRecovery(j)' /\ (Live(j)' => Live(j) /\ pc'[j] = pc[j] /\ seen'[j] = seen[j])
        /\ pc'[j] = "failWrite" => Live(j)' /\ Live(j)
        /\ ~(Live(j)' /\ Ahead(j)')
    BY <2>1 DEF AtRecovery, Live, Ahead, InProgress
  <2>3. CountOK(j)'
    BY <2>1, <2>2, Setting DEF CountOK
  <2>4. SetAsideOK(j)'
    BY <2>1, <2>2, Setting DEF SetAsideOK
  <2> QED
    BY <2>3, <2>4
<1>4. CASE Restart
  <2>1. /\ UNCHANGED <<files, retry, seen, todo, cur, permanent>>
        /\ pc'[Recovery] = "load" /\ pc'[j] = pc[j] /\ pc[j] \in {"new", "done"}
    BY <1>4, Setting DEF Restart, Goto, history
  <2>2. ~AtRecovery(j)' /\ ~Live(j)' /\ ~Live(j)
    BY <2>1 DEF AtRecovery, Live, InProgress
  <2> QED
    BY <2>1, <2>2, Setting DEF CountOK, SetAsideOK
<1> QED
  BY <1>1, <1>2, <1>3, <1>4

LEMMA CInvStep ==
  ASSUME CInv, [Next]_vars
  PROVE  CInv'
<1>1. AInv' /\ Ranges'
  BY AInvStep, RangesStep DEF CInv
<1>2. ASSUME NEW j \in Ids PROVE CountOK(j)' /\ SetAsideOK(j)'
  <2>1. CASE UNCHANGED vars
    BY <2>1, Setting DEF vars, CountOK, SetAsideOK, Live, Ahead, AtRecovery
  <2> QED
    BY <2>1, LiveCounts, WorkerCounts, PassCounts, RecoveryCounts DEF Next
<1> QED
  BY <1>1, <1>2 DEF CInv

LEMMA CInvHolds == Spec => []CInv
BY CInvInit, CInvStep, PTL DEF Spec

-----------------------------------------------------------------------------

(* The retry counters never pass MAX_RETRIES, on disk, in memory or in the *)
(* snapshot of a pass, and every other variable keeps its type.            *)
THEOREM CountersBounded == Spec => []TypeOK
<1>1. ASSUME CInv PROVE TypeOK
  <2>1. \A i \in Ids : retry[i] \in 0 .. MaxRetries /\ todo[i] \in {None} \cup 0 .. MaxRetries
    <3> TAKE i \in Ids
    <3>1. retry[i] \in Nat /\ todo[i] \in Nat \cup {None} /\ MaxRetries \in Nat
      BY <1>1, Setting
    <3> QED
      BY <1>1, <3>1, Setting DEF CountOK
  <2>2. /\ retry \in [Ids -> 0 .. MaxRetries]
        /\ todo \in [Ids -> {None} \cup 0 .. MaxRetries]
    BY <1>1, <2>1 DEF CInv, AInv, Counts
  <2>3. pc \in [Workers -> InProgress \cup {"new", "done", "load", "next"}]
    BY <1>1 DEF CInv, AInv, RInv, Shape, Steps
  <2> QED
    BY <1>1, <2>2, <2>3 DEF CInv, Ranges, AInv, RInv, Shape, TypeOK
<1> QED
  BY <1>1, CInvHolds, PTL

(* An entry is in failed/ only for a permanent error or after MAX_RETRIES  *)
(* counted failures, and a late failDelivery never takes such a count back. *)
THEOREM SetAsideOnlyForCause == Spec => []SetAsideForCause
<1>1. CInv => SetAsideForCause
  BY DEF CInv, SetAsideOK, SetAsideForCause
<1> QED
  BY <1>1, CInvHolds, PTL
=============================================================================
