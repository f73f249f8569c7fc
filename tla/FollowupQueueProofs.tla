-------------------------- MODULE FollowupQueueProofs --------------------------
(***************************************************************************)
(* Theorems about FollowupQueue, for every set of deliveries, ids, routes  *)
(* and settings and every bound.                                           *)
(*                                                                         *)
(* A followup run is handed a batch and its items stay queued until it     *)
(* returns; then a prefix is removed by position, whatever enqueues and    *)
(* overflow did meanwhile.  The invariant says why nothing is answered     *)
(* twice even so: what is left of a batch in the queue lies within the     *)
(* first Len(batch) positions, every message sits in one queue object, and *)
(* as long as nothing is cleared only the mapped object has a drain.       *)
(***************************************************************************)
EXTENDS FollowupQueue, TLAPS

Items(i)   == ToSet(reg.objs[i].items)
Dropped(i) == ToSet(reg.objs[i].dropped)
Batch(i)   == ToSet(reg.objs[i].batch)

(* Everything object i still refers to. *)
Held(i) == Items(i) \cup Dropped(i) \cup Batch(i)

Distinct(s) == \A p, q \in 1 .. Len(s) : s[p] = s[q] => p = q

(* Queue object o: what is left of the batch of a run lies where the       *)
(* splice after the run removes it.                                        *)
Removable(o) ==
  /\ o.kind # "collect" /\ o.pc = "running" => Len(o.batch) = 1
  /\ \A p \in 1 .. Len(o.items) : o.items[p] \in ToSet(o.batch) => p <= Len(o.batch)

Idle(o) == o.items = <<>> /\ o.dropped = <<>> /\ o.pc = "off"

Shape ==
  /\ reg \in RegType
  /\ turn \in [Msgs -> {"none", "running", "ended", "done"}]
  /\ accepted \in Seq(Msgs) /\ log \in Seq(Msgs)
  /\ reported \subseteq Msgs /\ evicted \subseteq Msgs /\ cleared \subseteq Msgs
  /\ clears \in Nat /\ fails \in Nat

Slots ==
  /\ reg.map <= reg.created
  /\ \A i \in Objs :
       /\ i > reg.created => Idle(reg.objs[i])
       /\ reg.objs[i].pc # "running" =>
            reg.objs[i].batch = <<>> /\ reg.objs[i].summary = <<>>
       /\ reg.objs[i].kind = "summary" => reg.objs[i].summary # <<>>
       /\ Removable(reg.objs[i])

(* Only accepted messages circulate. *)
Known ==
  /\ ToSet(log) \cup cleared \subseteq ToSet(accepted)
  /\ \A i \in Objs : Held(i) \subseteq ToSet(accepted)

(* A delivery is decided on once and accepted at most once. *)
Fresh ==
  /\ deciding \cup ToSet(accepted) \subseteq arrived /\ arrived \subseteq Msgs
  /\ deciding \cap ToSet(accepted) = {}

(* The cache knows the id of what was accepted, or has forgotten it; two   *)
(* deliveries of one message are accepted only after that.                 *)
Remembered ==
  /\ recent \cup forgotten \subseteq {IdOf[m] : m \in Msgs} \ {NoId}
  /\ \A m \in ToSet(accepted) : IdOf[m] \in recent \cup forgotten \cup {NoId}
  /\ \A m, n \in ToSet(accepted) :
       m # n /\ IdOf[m] = IdOf[n] => IdOf[m] \in forgotten \cup {NoId}

(* A message sits in one place from which it can still reach the log. *)
Apart ==
  /\ Distinct(log) /\ ClearedStaysCleared
  /\ \A i \in Objs :
       /\ Distinct(reg.objs[i].items) /\ Distinct(reg.objs[i].batch)
       /\ (Items(i) \cup Batch(i)) \cap ToSet(log) = {}
       /\ Items(i) \cap Dropped(i) = {}
       /\ (Items(i) \cup Batch(i)) \cap cleared = {}
  /\ \A i, j \in Objs : i # j => Held(i) \cap Held(j) = {}

(* Until something is cleared only the mapped object has work or a drain. *)
OneDrain == clears = 0 => \A i \in Objs : i # reg.map => Idle(reg.objs[i])

Prefix(s, t) == Len(s) <= Len(t) /\ \A p \in 1 .. Len(s) : s[p] = t[p]

(* Until something is dropped or cleared a batch is what the queue starts  *)
(* with, and accepted messages are queued or logged.                       *)
Kept ==
  (~Overflowed /\ clears = 0) =>
    /\ \A i \in Objs : Prefix(reg.objs[i].batch, reg.objs[i].items)
    /\ \A m \in ToSet(accepted) :
         m \in ToSet(log) \/ \E i \in Objs : i = reg.map /\ m \in Items(i)

Precedes(s, x, y) == \E a, b \in 1 .. Len(s) : a < b /\ s[a] = x /\ s[b] = y

(* x was accepted before y. *)
Before(x, y) == Precedes(accepted, x, y)

Sorted(s) == \A p, q \in 1 .. Len(s) : p < q => Before(s[p], s[q])

AllBefore(A, B) == \A x \in A, y \in B : Before(x, y)

Ordered ==
  clears = 0 =>
    /\ Sorted(log)
    /\ \A i \in Objs :
         /\ Sorted(reg.objs[i].items) /\ Sorted(reg.objs[i].batch)
         /\ AllBefore(ToSet(log), Items(i) \cup Batch(i))
         /\ AllBefore(Batch(i), Items(i) \ Batch(i))

IInv ==
  /\ Shape /\ Slots /\ Known /\ Apart
  /\ OneDrain /\ Kept /\ Ordered /\ DrainAlive
  /\ Fresh /\ Remembered

-----------------------------------------------------------------------------
(* Sequences. *)

LEMMA SplicedSeq ==
  ASSUME NEW S, NEW s \in Seq(S), NEW n \in Nat
  PROVE  /\ Spliced(s, n) \in Seq(S)
         /\ Len(Spliced(s, n)) = IF n <= Len(s) THEN Len(s) - n ELSE 0
         /\ \A p \in 1 .. Len(Spliced(s, n)) :
              p + n \in 1 .. Len(s) /\ Spliced(s, n)[p] = s[p + n]
  BY DEF Spliced

LEMMA ElementOf ==
  ASSUME NEW S, NEW s \in Seq(S)
  PROVE  /\ ToSet(s) \subseteq S
         /\ \A p \in 1 .. Len(s) : s[p] \in ToSet(s)
         /\ \A x \in ToSet(s) : \E p \in 1 .. Len(s) : s[p] = x
<1>1. DOMAIN s = 1 .. Len(s) /\ \A p \in 1 .. Len(s) : s[p] \in S
  OBVIOUS
<1> QED
  BY <1>1, Zenon DEF ToSet

LEMMA EmptyElements ==
  /\ ToSet(<<>>) = {}
  /\ \A S : \A s \in Seq(S) : ToSet(s) = {} => s = <<>>
<1>1. ToSet(<<>>) = {}
  BY DEF ToSet
<1>2. ASSUME NEW S, NEW s \in Seq(S), ToSet(s) = {} PROVE s = <<>>
  <2>1. Len(s) \in Nat /\ 1 \notin 1 .. Len(s)
    BY <1>2, ElementOf
  <2> QED
    BY <2>1
<1> QED
  BY <1>1, <1>2

LEMMA SplicedElements ==
  ASSUME NEW S, NEW s \in Seq(S), NEW n \in Nat
  PROVE  ToSet(Spliced(s, n)) \subseteq ToSet(s)
  BY SplicedSeq, ElementOf

LEMMA AppendElements ==
  ASSUME NEW S, NEW s \in Seq(S), NEW x \in S
  PROVE  ToSet(Append(s, x)) = ToSet(s) \cup {x}
<1> DEFINE t == Append(s, x)
<1>1. /\ t \in Seq(S) /\ Len(s) \in Nat /\ Len(t) = Len(s) + 1
      /\ \A p \in 1 .. Len(s) : t[p] = s[p]
      /\ t[Len(s) + 1] = x
  OBVIOUS
<1>2. /\ \A p \in 1 .. Len(s) : p \in 1 .. Len(t)
      /\ Len(s) + 1 \in 1 .. Len(t)
      /\ \A p \in 1 .. Len(t) : p \in 1 .. Len(s) \/ p = Len(s) + 1
  BY <1>1
<1> HIDE DEF t
<1>3. ASSUME NEW y \in ToSet(t) PROVE y \in ToSet(s) \cup {x}
  BY <1>1, <1>2, <1>3, ElementOf
<1>4. x \in ToSet(t) /\ ToSet(s) \subseteq ToSet(t)
  <2>1. \A p \in 1 .. Len(t) : t[p] \in ToSet(t)
    BY <1>1, ElementOf
  <2>2. ASSUME NEW y \in ToSet(s) PROVE y \in ToSet(t)
    <3> PICK p \in 1 .. Len(s) : s[p] = y
      BY ElementOf
    <3> QED
      BY <1>1, <1>2, <2>1, Zenon
  <2> QED
    BY <1>1, <1>2, <2>1, <2>2, Zenon
<1> QED
  BY <1>3, <1>4 DEF t

LEMMA ConcatElements ==
  ASSUME NEW S, NEW s \in Seq(S), NEW t \in Seq(S)
  PROVE  ToSet(s \o t) = ToSet(s) \cup ToSet(t)
<1> DEFINE u == s \o t
<1>1. /\ u \in Seq(S) /\ Len(s) \in Nat /\ Len(t) \in Nat /\ Len(u) = Len(s) + Len(t)
      /\ \A p \in 1 .. Len(s) : u[p] = s[p]
      /\ \A p \in 1 .. Len(t) : u[Len(s) + p] = t[p]
      /\ \A p \in 1 .. Len(u) : p \notin 1 .. Len(s) => u[p] = t[p - Len(s)]
  OBVIOUS
<1>2. /\ \A p \in 1 .. Len(s) : p \in 1 .. Len(u)
      /\ \A p \in 1 .. Len(t) : Len(s) + p \in 1 .. Len(u)
      /\ \A p \in 1 .. Len(u) : p \notin 1 .. Len(s) => p - Len(s) \in 1 .. Len(t)
  BY <1>1
<1> HIDE DEF u
<1>3. \A p \in 1 .. Len(u) : u[p] \in ToSet(u)
  BY <1>1, ElementOf
<1>4. ASSUME NEW y \in ToSet(s) PROVE y \in ToSet(u)
  <2> PICK p \in 1 .. Len(s) : s[p] = y
    BY ElementOf
  <2> QED
    BY <1>1, <1>2, <1>3, Zenon
<1>5. ASSUME NEW y \in ToSet(t) PROVE y \in ToSet(u)
  <2> PICK p \in 1 .. Len(t) : t[p] = y
    BY ElementOf
  <2> QED
    BY <1>1, <1>2, <1>3, Zenon
<1>6. ASSUME NEW y \in ToSet(u) PROVE y \in ToSet(s) \cup ToSet(t)
  <2> PICK p \in 1 .. Len(u) : u[p] = y
    BY <1>1, ElementOf
  <2>1. CASE p \in 1 .. Len(s)
    BY <1>1, <2>1, ElementOf
  <2>2. CASE p \notin 1 .. Len(s)
    <3>1. p - Len(s) \in 1 .. Len(t) /\ y = t[p - Len(s)]
      BY <1>1, <1>2, <2>2
    <3>2. \A k \in 1 .. Len(t) : t[k] \in ToSet(t)
      BY ElementOf
    <3> QED
      BY <3>1, <3>2
  <2> QED
    BY <2>1, <2>2
<1> QED
  BY <1>4, <1>5, <1>6 DEF u

LEMMA HeadElement ==
  ASSUME NEW S, NEW s \in Seq(S), s # <<>>
  PROVE  /\ <<Head(s)>> \in Seq(S) /\ Len(<<Head(s)>>) = 1 /\ Len(s) >= 1
         /\ <<Head(s)>>[1] = s[1] /\ ToSet(<<Head(s)>>) = {s[1]}
         /\ s[1] \in ToSet(s)
<1>1. /\ Head(s) = s[1] /\ s[1] \in S /\ Len(s) \in Nat /\ Len(s) >= 1
  OBVIOUS
<1>2. <<s[1]>> \in Seq(S) /\ Len(<<s[1]>>) = 1 /\ <<s[1]>>[1] = s[1]
  BY <1>1
<1>3. s[1] \in ToSet(s)
  BY <1>1, ElementOf
<1>4. ToSet(<<s[1]>>) = {s[1]}
  BY <1>1 DEF ToSet
<1> QED
  BY <1>1, <1>2, <1>3, <1>4

-----------------------------------------------------------------------------
(* The registry. *)

LEMMA ObjectType ==
  ASSUME NEW r \in RegType
  PROVE  /\ r.map \in {NoQueue} \cup Objs
         /\ \A i \in Objs :
              /\ r.objs[i] \in QueueType
              /\ r.objs[i].items \in Seq(Msgs) /\ r.objs[i].dropped \in Seq(Msgs)
              /\ r.objs[i].batch \in Seq(Msgs) /\ r.objs[i].summary \in Seq(Msgs)
  BY DEF RegType, QueueType, Objs

(* Object q is o with its drain moved on: the same messages, and its run,  *)
(* if any, is still in flight or has been given up.                        *)
Quiet(o, q) ==
  /\ q \in QueueType
  /\ q.items = o.items /\ q.dropped = o.dropped
  /\ \/ q.batch = o.batch /\ q.summary = o.summary /\ q.kind = o.kind
        /\ (q.pc = "running" <=> o.pc = "running")
     \/ q.batch = <<>> /\ q.summary = <<>> /\ q.kind = "none" /\ q.pc # "running"
  /\ Idle(o) => Idle(q)

(* Every object is quiet, and the mapping goes only when a drain finds its *)
(* object without work.                                                    *)
QuietReg(r, s) ==
  /\ s \in RegType /\ s.created = r.created
  /\ \A j \in Objs : Quiet(r.objs[j], s.objs[j])
  /\ \/ s.map = r.map
     \/ /\ s.map = NoQueue
        /\ \E i \in Objs : (i = r.map \/ r.objs[i].pc # "off") /\ Idle(s.objs[i])

(* Every object is quiet, and a queue is there to enqueue into: the mapped *)
(* one, or a new one.                                                      *)
OpenedReg(r, s) ==
  /\ s \in RegType /\ s.map \in Objs
  /\ \A j \in Objs : Quiet(r.objs[j], s.objs[j])
  /\ \/ s.map = r.map /\ s.created = r.created
     \/ r.map = NoQueue /\ s.map = r.created + 1 /\ s.created = r.created + 1

QuietStep(r, s) == QuietReg(r, s) \/ OpenedReg(r, s)

(* The mapped object has a drain, or no work, or no callback to run it. *)
Awake(r) ==
  (r.map # NoQueue /\ r.callback /\ Busy(r.objs[r.map])) => r.objs[r.map].pc # "off"

LEMMA ScheduledQuiet ==
  ASSUME NEW r \in RegType
  PROVE  QuietReg(r, Scheduled(r)) /\ Awake(Scheduled(r))
<1>1. CASE r.map = NoQueue \/ r.objs[r.map].pc # "off"
  <2>1. Scheduled(r) = r
    BY <1>1 DEF Scheduled
  <2>2. \A j \in Objs : Quiet(r.objs[j], r.objs[j])
    BY ObjectType DEF Quiet
  <2> QED
    BY <1>1, <2>1, <2>2 DEF QuietReg, Awake
<1>2. CASE ~(r.map = NoQueue \/ r.objs[r.map].pc # "off") /\ Busy(r.objs[r.map])
  <2> DEFINE i == r.map
             q == [r.objs[i] EXCEPT !.pc = "debounce", !.force = FALSE]
             s == [[r EXCEPT !.callback = TRUE] EXCEPT !.objs[i] = q]
  <2>1. i \in Objs /\ r.objs[i] \in QueueType
    BY <1>2, ObjectType
  <2>2. q \in QueueType /\ Quiet(r.objs[i], q)
    BY <1>2, <2>1 DEF QueueType, Quiet, Busy, Idle
  <2>3. s \in RegType /\ \A j \in Objs : s.objs[j] = IF j = i THEN q ELSE r.objs[j]
    BY <2>1, <2>2 DEF RegType, Objs
  <2>4. Scheduled(r) = s
    BY <1>2, <2>1 DEF Scheduled, RegType, QueueType, Objs
  <2>5. \A j \in Objs : Quiet(r.objs[j], s.objs[j])
    BY <2>2, <2>3, ObjectType DEF Quiet
  <2>6. s.created = r.created /\ s.map = r.map /\ q.pc = "debounce"
    BY <2>1 DEF RegType, QueueType
  <2>7. s.objs[s.map].pc = "debounce"
    BY <2>1, <2>3, <2>6
  <2> HIDE DEF s
  <2> QED
    BY <2>3, <2>4, <2>5, <2>6, <2>7 DEF QuietReg, Awake
<1>3. CASE ~(r.map = NoQueue \/ r.objs[r.map].pc # "off") /\ ~Busy(r.objs[r.map])
  <2> DEFINE s == [r EXCEPT !.callback = TRUE, !.map = NoQueue]
  <2>1. /\ s \in RegType /\ s.objs = r.objs /\ s.created = r.created /\ s.map = NoQueue
        /\ Scheduled(r) = s
    BY <1>3 DEF Scheduled, RegType
  <2>2. r.map \in Objs /\ Idle(r.objs[r.map])
    BY <1>3, ObjectType DEF Busy, Idle
  <2>3. \A j \in Objs : Quiet(r.objs[j], s.objs[j])
    BY <2>1, ObjectType DEF Quiet
  <2> QED
    BY <2>1, <2>2, <2>3 DEF QuietReg, Awake
<1> QED
  BY <1>1, <1>2, <1>3

(* The updates of one object and of the registry a drain makes. *)
DrainAt(o, pc, kind, batch, summary) ==
  [o EXCEPT !.pc = pc, !.kind = kind, !.batch = batch, !.summary = summary]

DrainIn(r, i, pc, kind, batch, summary) ==
  [r EXCEPT !.objs[i].pc = pc, !.objs[i].kind = kind,
            !.objs[i].batch = batch, !.objs[i].summary = summary]

Put(r, i, q) == [r EXCEPT !.objs[i] = q]

LEMMA DrainUpdate ==
  ASSUME NEW r \in RegType, NEW i \in Objs, NEW pc, NEW kind, NEW batch, NEW summary
  PROVE  DrainIn(r, i, pc, kind, batch, summary) =
         Put(r, i, DrainAt(r.objs[i], pc, kind, batch, summary))
  BY DEF RegType, QueueType, Objs, DrainIn, DrainAt, Put

LEMMA RunUpdate ==
  ASSUME NEW r \in RegType, NEW i \in Objs,
         NEW kind, NEW batch, NEW summary, NEW force
  PROVE  Running(r, i, kind, batch, summary, force) =
         Put(r, i, [DrainAt(r.objs[i], "running", kind, batch, summary)
                      EXCEPT !.force = force])
<1> DEFINE q == DrainAt(r.objs[i], "running", kind, batch, summary)
<1>1. Running(r, i, kind, batch, summary, force) =
        [DrainIn(r, i, "running", kind, batch, summary) EXCEPT !.objs[i].force = force]
  BY DEF Running, DrainIn
<1>2. \A x : [Put(r, i, x) EXCEPT !.objs[i].force = force] =
             Put(r, i, [x EXCEPT !.force = force])
  BY DEF RegType, Objs, Put
<1>3. DrainIn(r, i, "running", kind, batch, summary) = Put(r, i, q)
  BY DrainUpdate
<1> HIDE DEF q
<1> QED
  BY <1>1, <1>2, <1>3 DEF q

LEMMA Replaced ==
  ASSUME NEW r \in RegType, NEW i \in Objs, NEW q \in QueueType
  PROVE  /\ Put(r, i, q) \in RegType /\ Put(r, i, q).map = r.map
         /\ Put(r, i, q).created = r.created /\ Put(r, i, q).callback = r.callback
         /\ \A j \in Objs : Put(r, i, q).objs[j] = IF j = i THEN q ELSE r.objs[j]
  BY DEF RegType, Objs, Put

(* A drain that lets go of its run. *)
LEMMA ReleasedQuiet ==
  ASSUME NEW r \in RegType, NEW i \in Objs, NEW pc \in {"off", "debounce"},
         r.objs[i].pc # "off"
  PROVE  LET s == DrainIn(r, i, pc, "none", <<>>, <<>>)
             q == DrainAt(r.objs[i], pc, "none", <<>>, <<>>)
         IN  /\ s \in RegType /\ s.map = r.map
             /\ s.created = r.created /\ s.callback = r.callback
             /\ q \in QueueType /\ q.pc = pc /\ Quiet(r.objs[i], q)
             /\ q.items = r.objs[i].items /\ q.dropped = r.objs[i].dropped
             /\ q.batch = <<>>
             /\ \A j \in Objs : s.objs[j] = IF j = i THEN q ELSE r.objs[j]
             /\ \A j \in Objs : Quiet(r.objs[j], s.objs[j])
<1> DEFINE s == DrainIn(r, i, pc, "none", <<>>, <<>>)
           q == DrainAt(r.objs[i], pc, "none", <<>>, <<>>)
<1>1. <<>> \in Seq(Msgs) /\ r.objs[i] \in QueueType
  BY ObjectType
<1>2. /\ q \in QueueType
      /\ q.items = r.objs[i].items /\ q.dropped = r.objs[i].dropped /\ q.batch = <<>>
      /\ q.summary = <<>> /\ q.kind = "none" /\ q.pc = pc
  BY <1>1 DEF QueueType, DrainAt
<1>3. s = Put(r, i, q)
  BY DrainUpdate
<1> HIDE DEF q, s
<1>4. Quiet(r.objs[i], q)
  BY <1>2 DEF Quiet, Idle
<1>5. /\ s \in RegType /\ s.map = r.map /\ s.created = r.created /\ s.callback = r.callback
      /\ \A j \in Objs : s.objs[j] = IF j = i THEN q ELSE r.objs[j]
  BY <1>2, <1>3, Replaced
<1>6. \A j \in Objs : Quiet(r.objs[j], s.objs[j])
  BY <1>4, <1>5, ObjectType DEF Quiet
<1> QED
  BY <1>2, <1>4, <1>5, <1>6 DEF q, s

LEMMA ExitedQuiet ==
  ASSUME NEW r \in RegType, NEW i \in Objs, r.objs[i].pc # "off"
  PROVE  /\ QuietReg(r, Exited(r, i)) /\ Awake(Exited(r, i))
         /\ Exited(r, i).objs[i].batch = <<>> /\ Exited(r, i).objs[i].pc # "running"
<1> DEFINE off == DrainIn(r, i, "off", "none", <<>>, <<>>)
<1>1. Exited(r, i) = IF Busy(off.objs[i]) THEN Scheduled(off)
                     ELSE [off EXCEPT !.map = NoQueue]
  BY Zenon DEF Exited, DrainIn
<1>2. /\ off \in RegType /\ off.map = r.map /\ off.created = r.created
      /\ off.objs[i].pc = "off" /\ off.objs[i].batch = <<>>
      /\ \A j \in Objs : j # i => off.objs[j] = r.objs[j]
      /\ \A j \in Objs : Quiet(r.objs[j], off.objs[j])
  BY ReleasedQuiet
<1>3. \A j \in Objs : off.objs[j].pc # "off" => r.objs[j].pc # "off"
  BY <1>2
<1> HIDE DEF off
<1>4. CASE Busy(off.objs[i])
  <2> DEFINE s == Scheduled(off)
  <2>1. QuietReg(off, s) /\ Awake(s)
    BY <1>2, ScheduledQuiet
  <2> HIDE DEF s
  <2>2. \A j \in Objs : Quiet(r.objs[j], s.objs[j])
    BY <1>2, <2>1 DEF QuietReg, Quiet
  <2>3. s.objs[i].batch = <<>> /\ s.objs[i].pc # "running"
    BY <1>2, <2>1 DEF QuietReg, Quiet
  <2>4. QuietReg(r, s)
    BY <1>2, <1>3, <2>1, <2>2 DEF QuietReg
  <2> QED
    BY <1>1, <1>4, <2>1, <2>3, <2>4 DEF s
<1>5. CASE ~Busy(off.objs[i])
  <2> DEFINE s == [off EXCEPT !.map = NoQueue]
  <2>1. s \in RegType /\ s.objs = off.objs /\ s.map = NoQueue /\ s.created = r.created
    BY <1>2 DEF RegType
  <2>2. Idle(s.objs[i])
    BY <1>2, <1>5, <2>1 DEF Idle, Busy
  <2> HIDE DEF s
  <2>3. /\ QuietReg(r, s) /\ Awake(s)
        /\ s.objs[i].batch = <<>> /\ s.objs[i].pc # "running"
    BY <1>2, <2>1, <2>2 DEF QuietReg, Awake
  <2> QED
    BY <1>1, <1>5, <2>3 DEF s
<1> QED
  BY <1>4, <1>5

LEMMA LoopedQuiet ==
  ASSUME NEW r \in RegType, NEW i \in Objs, r.objs[i].pc # "off", Awake(r)
  PROVE  /\ QuietReg(r, Looped(r, i)) /\ Awake(Looped(r, i))
         /\ Looped(r, i).objs[i].batch = <<>> /\ Looped(r, i).objs[i].pc # "running"
<1>1. CASE ~Busy(r.objs[i])
  BY <1>1, ExitedQuiet DEF Looped
<1>2. CASE Busy(r.objs[i])
  <2> DEFINE s == DrainIn(r, i, "debounce", "none", <<>>, <<>>)
  <2>1. Looped(r, i) = s
    BY <1>2, Zenon DEF Looped, DrainIn
  <2>2. /\ s \in RegType /\ s.map = r.map
        /\ s.created = r.created /\ s.callback = r.callback
        /\ s.objs[i].pc = "debounce" /\ s.objs[i].batch = <<>>
        /\ \A j \in Objs : j # i => s.objs[j] = r.objs[j]
        /\ \A j \in Objs : Quiet(r.objs[j], s.objs[j])
    BY ReleasedQuiet
  <2> HIDE DEF s
  <2>3. Awake(s)
    BY <2>2, ObjectType DEF Awake
  <2> QED
    BY <2>1, <2>2, <2>3 DEF QuietReg
<1> QED
  BY <1>1, <1>2

(* Object q is o with a run started on the batch at the head of the queue. *)
StartedOn(o, q) ==
  /\ q \in QueueType
  /\ q.items = o.items /\ q.dropped = o.dropped /\ q.pc = "running"
  /\ \/ q.kind = "collect" /\ q.batch = o.items
     \/ q.kind # "collect" /\ o.items # <<>> /\ q.batch = <<Head(o.items)>>
  /\ q.kind = "summary" => q.summary # <<>>

(* Registry s is r with a run started by the drain of object i. *)
StartedIn(r, i, s) ==
  /\ s \in RegType /\ s.map = r.map /\ s.created = r.created
  /\ StartedOn(r.objs[i], s.objs[i])
  /\ \A j \in Objs : j # i => s.objs[j] = r.objs[j]

(* What a run is given: a whole queue, or its first message. *)
Chosen(o, kind, batch, summary) ==
  /\ kind \in {"collect", "single", "summary"}
  /\ batch \in Seq(Msgs) /\ summary \in Seq(Msgs)
  /\ \/ kind = "collect" /\ batch = o.items
     \/ kind # "collect" /\ o.items # <<>> /\ batch = <<Head(o.items)>>
  /\ kind = "summary" => summary # <<>>

LEMMA RunningStarts ==
  ASSUME NEW r \in RegType, NEW i \in Objs, Awake(r),
         NEW kind, NEW batch, NEW summary, Chosen(r.objs[i], kind, batch, summary),
         NEW force \in BOOLEAN
  PROVE  /\ StartedIn(r, i, Running(r, i, kind, batch, summary, force))
         /\ Awake(Running(r, i, kind, batch, summary, force))
<1>0. /\ kind \in {"none", "collect", "single", "summary"}
      /\ batch \in Seq(Msgs) /\ summary \in Seq(Msgs) /\ r.objs[i] \in QueueType
  BY ObjectType DEF Chosen
<1> DEFINE o == DrainAt(r.objs[i], "running", kind, batch, summary)
           q == [o EXCEPT !.force = force]
           s == Running(r, i, kind, batch, summary, force)
<1>1. /\ o \in QueueType
      /\ o.items = r.objs[i].items /\ o.dropped = r.objs[i].dropped /\ o.batch = batch
      /\ o.summary = summary /\ o.kind = kind /\ o.pc = "running"
  BY <1>0 DEF QueueType, DrainAt
<1>2. s = Put(r, i, q)
  BY RunUpdate
<1> HIDE DEF o
<1>3. /\ q \in QueueType
      /\ q.items = r.objs[i].items /\ q.dropped = r.objs[i].dropped /\ q.batch = batch
      /\ q.summary = summary /\ q.kind = kind /\ q.pc = "running"
  BY <1>1 DEF QueueType
<1> HIDE DEF q, s
<1>4. /\ s \in RegType /\ s.map = r.map /\ s.created = r.created /\ s.callback = r.callback
      /\ \A j \in Objs : s.objs[j] = IF j = i THEN q ELSE r.objs[j]
  BY <1>2, <1>3, Replaced
<1>5. Awake(s)
  BY <1>3, <1>4, ObjectType DEF Awake
<1>6. StartedOn(r.objs[i], q)
  BY <1>3 DEF StartedOn, Chosen
<1> QED
  BY <1>4, <1>5, <1>6 DEF s, StartedIn

LEMMA WokenCases ==
  ASSUME NEW r \in RegType, NEW i \in Objs, r.objs[i].pc # "off", Awake(r)
  PROVE  /\ Awake(Woken(r, i))
         /\ QuietReg(r, Woken(r, i)) \/ StartedIn(r, i, Woken(r, i))
<1> DEFINE o == r.objs[i]
           cross == CrossChannel(o.items)
           one == o.force \/ cross
           single == o.force \/ (o.mode = "collect" /\ cross)
           head == <<Head(o.items)>>
<1>1. /\ o.items \in Seq(Msgs) /\ SummaryOf(o) \in Seq(Msgs) /\ o.force \in BOOLEAN
      /\ (o.items # <<>> => head \in Seq(Msgs)) /\ <<>> \in Seq(Msgs)
      /\ single \in BOOLEAN
  BY ObjectType, HeadElement DEF SummaryOf, QueueType
<1>2. QuietReg(r, Exited(r, i)) /\ Awake(Exited(r, i))
  BY ExitedQuiet
<1>3. Chosen(o, "collect", o.items, SummaryOf(o))
  BY <1>1 DEF Chosen
<1>4. o.items # <<>> => Chosen(o, "single", head, <<>>)
  BY <1>1 DEF Chosen
<1>5. o.items # <<>> /\ SummaryOf(o) # <<>> => Chosen(o, "summary", head, SummaryOf(o))
  BY <1>1 DEF Chosen
<1>6. \/ Woken(r, i) = Exited(r, i)
      \/ Woken(r, i) = Running(r, i, "collect", o.items, SummaryOf(o), o.force)
      \/ /\ Woken(r, i) = Running(r, i, "summary", head, SummaryOf(o), o.force)
         /\ SummaryOf(o) # <<>> /\ o.items # <<>>
      \/ /\ Woken(r, i) = Running(r, i, "single", head, <<>>, single)
         /\ o.items # <<>>
  BY Zenon DEF Woken
<1> HIDE DEF single, head
<1> QED
  BY <1>1, <1>2, <1>3, <1>4, <1>5, <1>6, RunningStarts, Zenon

-----------------------------------------------------------------------------
(* A step that moves drains and no message.                                *)

Core == Slots /\ Known /\ Apart /\ OneDrain /\ Kept /\ Ordered

messages == <<clears, accepted, log, reported, evicted, cleared>>

LEMMA NumbersAndObjects ==
  ASSUME Shape
  PROVE  /\ reg \in RegType /\ reg.created \in Nat /\ MaxQueues \in Nat
         /\ Objs \subseteq Nat /\ NoQueue \notin Objs
         /\ reg.map \in {NoQueue} \cup Objs /\ reg.map \in Nat
  BY FollowupAssumption DEF Shape, RegType, Objs, NoQueue

LEMMA QuietContents ==
  ASSUME QuietStep(reg, reg')
  PROVE  \A j \in Objs :
           /\ reg'.objs[j].items = reg.objs[j].items
           /\ reg'.objs[j].dropped = reg.objs[j].dropped
           /\ reg'.objs[j].batch \in {reg.objs[j].batch, <<>>}
           /\ Items(j)' = Items(j) /\ Dropped(j)' = Dropped(j)
           /\ Batch(j)' \in {Batch(j), {}}
           /\ Held(j)' \subseteq Held(j)
           /\ Idle(reg.objs[j]) => Idle(reg'.objs[j])
<1> SUFFICES ASSUME NEW j \in Objs
             PROVE  /\ reg'.objs[j].items = reg.objs[j].items
                    /\ reg'.objs[j].dropped = reg.objs[j].dropped
                    /\ reg'.objs[j].batch \in {reg.objs[j].batch, <<>>}
                    /\ Items(j)' = Items(j) /\ Dropped(j)' = Dropped(j)
                    /\ Batch(j)' \in {Batch(j), {}}
                    /\ Held(j)' \subseteq Held(j)
                    /\ Idle(reg.objs[j]) => Idle(reg'.objs[j])
  OBVIOUS
<1>1. /\ reg'.objs[j].items = reg.objs[j].items
      /\ reg'.objs[j].dropped = reg.objs[j].dropped
      /\ reg'.objs[j].batch \in {reg.objs[j].batch, <<>>}
      /\ Idle(reg.objs[j]) => Idle(reg'.objs[j])
  BY DEF QuietStep, QuietReg, OpenedReg, Quiet
<1>2. /\ Items(j)' = Items(j) /\ Dropped(j)' = Dropped(j)
      /\ Batch(j)' \in {Batch(j), {}}
  BY <1>1, EmptyElements DEF Items, Dropped, Batch
<1> QED
  BY <1>1, <1>2 DEF Held

LEMMA QuietSlots ==
  ASSUME Shape, Slots, QuietStep(reg, reg')
  PROVE  Slots'
<1>1. reg.created \in Nat /\ reg.map <= reg.created /\ Objs \subseteq Nat
  BY NumbersAndObjects DEF Slots
<1>2. reg'.map <= reg'.created /\ reg'.created \in Nat /\ reg'.created >= reg.created
  BY <1>1 DEF QuietStep, QuietReg, OpenedReg, NoQueue
<1>3. ASSUME NEW i \in Objs
      PROVE  /\ i > reg'.created => Idle(reg'.objs[i])
             /\ reg'.objs[i].pc # "running" =>
                  reg'.objs[i].batch = <<>> /\ reg'.objs[i].summary = <<>>
             /\ reg'.objs[i].kind = "summary" => reg'.objs[i].summary # <<>>
             /\ Removable(reg'.objs[i])
  <2>1. Quiet(reg.objs[i], reg'.objs[i]) /\ (i > reg'.created => i > reg.created)
    BY <1>1, <1>2 DEF QuietStep, QuietReg, OpenedReg
  <2>2. /\ i > reg.created => Idle(reg.objs[i])
        /\ reg.objs[i].pc # "running" =>
             reg.objs[i].batch = <<>> /\ reg.objs[i].summary = <<>>
        /\ reg.objs[i].kind = "summary" => reg.objs[i].summary # <<>>
        /\ Removable(reg.objs[i])
    BY DEF Slots
  <2>3. Removable(reg'.objs[i])
    BY <2>1, <2>2, EmptyElements DEF Quiet, Removable
  <2> QED
    BY <1>1, <2>1, <2>2, <2>3 DEF Quiet
<1> QED
  BY <1>2, <1>3 DEF Slots

LEMMA QuietApart ==
  ASSUME Known, Apart, QuietStep(reg, reg'), UNCHANGED messages
  PROVE  Known' /\ Apart'
<1>1. Known'
  BY QuietContents DEF Known, messages
<1>2. \A i \in Objs : Distinct(reg'.objs[i].items) /\ Distinct(reg'.objs[i].batch)
  <2>1. Distinct(<<>>)
    BY DEF Distinct
  <2> QED
    BY <2>1, QuietContents DEF Apart
<1>3. \A i \in Objs :
        /\ (Items(i)' \cup Batch(i)') \cap ToSet(log) = {}
        /\ Items(i)' \cap Dropped(i)' = {}
        /\ (Items(i)' \cup Batch(i)') \cap cleared = {}
  BY QuietContents DEF Apart
<1>4. \A i, j \in Objs : i # j => Held(i)' \cap Held(j)' = {}
  BY QuietContents DEF Apart
<1> QED
  BY <1>1, <1>2, <1>3, <1>4 DEF Apart, ClearedStaysCleared, messages

LEMMA QuietOneDrain ==
  ASSUME Shape, OneDrain, QuietStep(reg, reg'), UNCHANGED messages
  PROVE  /\ OneDrain'
         /\ clears = 0 /\ reg'.map # reg.map =>
              (reg.map \in Objs => Items(reg.map) = {} /\ Dropped(reg.map) = {})
<1> SUFFICES ASSUME clears = 0
             PROVE  /\ \A j \in Objs : j # reg'.map => Idle(reg'.objs[j])
                    /\ reg'.map # reg.map =>
                         (reg.map \in Objs => Items(reg.map) = {} /\ Dropped(reg.map) = {})
  BY DEF OneDrain, messages
<1>1. \A j \in Objs : j # reg.map => Idle(reg.objs[j]) /\ Idle(reg'.objs[j])
  BY QuietContents DEF OneDrain
<1>2. CASE reg'.map = reg.map
  BY <1>1, <1>2
<1>3. CASE reg'.map # reg.map /\ OpenedReg(reg, reg')
  BY <1>1, <1>3, NumbersAndObjects DEF OpenedReg
<1>4. CASE reg'.map # reg.map /\ QuietReg(reg, reg')
  <2> PICK i \in Objs : (i = reg.map \/ reg.objs[i].pc # "off") /\ Idle(reg'.objs[i])
    BY <1>4 DEF QuietReg
  <2>1. i = reg.map
    BY <1>1 DEF Idle
  <2>2. reg'.objs[i].items = <<>> /\ reg'.objs[i].dropped = <<>>
    BY DEF Idle
  <2>3. Items(i) = {} /\ Dropped(i) = {}
    BY <2>2, QuietContents, EmptyElements DEF Items, Dropped
  <2> QED
    BY <1>1, <2>1, <2>3
<1> QED
  BY <1>2, <1>3, <1>4 DEF QuietStep

LEMMA QuietKept ==
  ASSUME Shape, Kept, OneDrain, QuietStep(reg, reg'), UNCHANGED messages
  PROVE  Kept'
<1> SUFFICES ASSUME ~Overflowed', clears = 0
             PROVE  /\ \A i \in Objs : Prefix(reg'.objs[i].batch, reg'.objs[i].items)
                    /\ \A m \in ToSet(accepted) :
                         m \in ToSet(log) \/ \E i \in Objs : i = reg'.map /\ m \in Items(i)'
  BY DEF Kept, messages
<1>1. ~Overflowed
  BY QuietContents DEF Overflowed, messages
<1>2. \A i \in Objs : Prefix(reg'.objs[i].batch, reg'.objs[i].items)
  <2>1. \A i \in Objs : Prefix(<<>>, reg.objs[i].items)
    BY NumbersAndObjects, ObjectType DEF Prefix
  <2> QED
    BY <1>1, <2>1, QuietContents DEF Kept
<1>3. ASSUME NEW m \in ToSet(accepted), m \notin ToSet(log)
      PROVE  \E i \in Objs : i = reg'.map /\ m \in Items(i)'
  <2> PICK i \in Objs : i = reg.map /\ m \in Items(i)
    BY <1>1, <1>3 DEF Kept
  <2>1. reg'.map = reg.map
    BY QuietOneDrain
  <2> QED
    BY <2>1, QuietContents
<1> QED
  BY <1>2, <1>3

LEMMA QuietOrdered ==
  ASSUME Ordered, QuietStep(reg, reg'), UNCHANGED messages
  PROVE  Ordered'
<1> SUFFICES ASSUME clears = 0
             PROVE  Ordered'
  BY DEF Ordered, messages
<1>1. \A x, y : Before(x, y)' <=> Before(x, y)
  BY DEF Before, messages
<1>2. \A s : Sorted(s)' <=> Sorted(s)
  BY <1>1 DEF Sorted
<1>3. Sorted(<<>>)
  BY DEF Sorted
<1>4. \A i \in Objs : Sorted(reg'.objs[i].items) /\ Sorted(reg'.objs[i].batch)
  BY <1>3, QuietContents DEF Ordered
<1>5. \A i \in Objs :
        /\ AllBefore(ToSet(log), Items(i)' \cup Batch(i)')
        /\ AllBefore(Batch(i)', Items(i)' \ Batch(i)')
  BY QuietContents DEF Ordered, AllBefore
<1>6. \A A, B : AllBefore(A, B)' <=> AllBefore(A, B)
  BY <1>1 DEF AllBefore
<1>7. Sorted(log)
  BY DEF Ordered
<1> QED
  BY <1>1, <1>2, <1>4, <1>5, <1>6, <1>7 DEF Ordered, AllBefore, Sorted, messages

LEMMA QuietCore ==
  ASSUME Shape, Core, QuietStep(reg, reg'), UNCHANGED messages
  PROVE  Core'
  BY QuietSlots, QuietApart, QuietOneDrain, QuietKept, QuietOrdered DEF Core

-----------------------------------------------------------------------------
(* A drain starts a run.                                                   *)

LEMMA PrefixElements ==
  ASSUME NEW s \in Seq(Msgs), NEW t \in Seq(Msgs), Prefix(s, t)
  PROVE  /\ ToSet(s) \subseteq ToSet(t)
         /\ \A p \in 1 .. Len(t) : p <= Len(s) => t[p] \in ToSet(s)
         /\ Distinct(t) => Distinct(s)
         /\ Distinct(t) => \A p \in 1 .. Len(t) : t[p] \in ToSet(s) => p <= Len(s)
<1>1. /\ Len(s) \in Nat /\ Len(t) \in Nat /\ Len(s) <= Len(t)
      /\ \A p \in 1 .. Len(s) : p \in 1 .. Len(t) /\ s[p] = t[p]
      /\ \A p \in 1 .. Len(t) : p <= Len(s) => p \in 1 .. Len(s)
  BY DEF Prefix
<1>2. /\ \A p \in 1 .. Len(s) : s[p] \in ToSet(s)
      /\ \A x \in ToSet(s) : \E p \in 1 .. Len(s) : s[p] = x
      /\ \A p \in 1 .. Len(t) : t[p] \in ToSet(t)
  BY ElementOf
<1>3. \A p \in 1 .. Len(t) : p <= Len(s) => t[p] \in ToSet(s)
  BY <1>1, <1>2
<1>4. ToSet(s) \subseteq ToSet(t)
  BY <1>1, <1>2
<1>5. Distinct(t) => Distinct(s)
  BY <1>1 DEF Distinct
<1>6. ASSUME Distinct(t), NEW p \in 1 .. Len(t), t[p] \in ToSet(s) PROVE p <= Len(s)
  <2> PICK k \in 1 .. Len(s) : s[k] = t[p]
    BY <1>2, <1>6
  <2>1. p = k
    BY <1>1, <1>6 DEF Distinct
  <2> QED
    BY <2>1
<1> QED
  BY <1>3, <1>4, <1>5, <1>6

LEMMA StartedPrefix ==
  ASSUME NEW o \in QueueType, NEW q, StartedOn(o, q)
  PROVE  /\ q.batch \in Seq(Msgs) /\ o.items \in Seq(Msgs)
         /\ Prefix(q.batch, o.items)
         /\ q.kind # "collect" => Len(q.batch) = 1
         /\ q.kind = "collect" => q.batch = o.items
<1>1. o.items \in Seq(Msgs)
  BY DEF QueueType
<1>2. CASE q.kind = "collect" /\ q.batch = o.items
  BY <1>1, <1>2 DEF Prefix
<1>3. CASE q.kind # "collect" /\ o.items # <<>> /\ q.batch = <<Head(o.items)>>
  BY <1>1, <1>3, HeadElement DEF Prefix
<1> QED
  BY <1>2, <1>3 DEF StartedOn

LEMMA StartContents ==
  ASSUME Shape, Slots, Apart, NEW i \in Objs, StartedIn(reg, i, reg'),
         reg.objs[i].pc = "debounce"
  PROVE  /\ \A j \in Objs : /\ reg'.objs[j].items = reg.objs[j].items
                            /\ reg'.objs[j].dropped = reg.objs[j].dropped
                            /\ j # i => reg'.objs[j].batch = reg.objs[j].batch
                            /\ j # i => Batch(j)' = Batch(j)
                            /\ Items(j)' = Items(j) /\ Dropped(j)' = Dropped(j)
                            /\ Held(j)' = Held(j)
                            /\ Idle(reg'.objs[j]) <=> Idle(reg.objs[j])
         /\ Batch(i) = {} /\ Batch(i)' \subseteq Items(i)
         /\ Prefix(reg'.objs[i].batch, reg.objs[i].items)
         /\ Distinct(reg'.objs[i].batch)
         /\ Removable(reg'.objs[i])
<1>1. /\ \A j \in Objs : /\ reg'.objs[j].items = reg.objs[j].items
                         /\ reg'.objs[j].dropped = reg.objs[j].dropped
                         /\ j # i => reg'.objs[j] = reg.objs[j]
      /\ reg'.objs[i].pc = "running"
      /\ StartedOn(reg.objs[i], reg'.objs[i])
  BY DEF StartedIn, StartedOn
<1>2. /\ reg'.objs[i].batch \in Seq(Msgs) /\ reg.objs[i].items \in Seq(Msgs)
      /\ Prefix(reg'.objs[i].batch, reg.objs[i].items)
      /\ reg'.objs[i].kind # "collect" => Len(reg'.objs[i].batch) = 1
  BY <1>1, NumbersAndObjects, ObjectType, StartedPrefix
<1>3. Distinct(reg.objs[i].items) /\ reg.objs[i].batch = <<>>
  BY DEF Apart, Slots
<1>4. /\ Distinct(reg'.objs[i].batch) /\ Removable(reg'.objs[i])
      /\ ToSet(reg'.objs[i].batch) \subseteq ToSet(reg.objs[i].items)
  BY <1>1, <1>2, <1>3, PrefixElements DEF Removable
<1>5. Batch(i) = {} /\ Batch(i)' \subseteq Items(i)
  BY <1>3, <1>4, EmptyElements DEF Batch, Items
<1>6. \A j \in Objs : /\ j # i => Batch(j)' = Batch(j)
                      /\ Items(j)' = Items(j) /\ Dropped(j)' = Dropped(j)
                      /\ Idle(reg'.objs[j]) <=> Idle(reg.objs[j])
  BY <1>1 DEF Items, Dropped, Batch, Idle
<1>7. \A j \in Objs : Held(j)' = Held(j)
  BY <1>5, <1>6 DEF Held
<1> QED
  BY <1>1, <1>2, <1>4, <1>5, <1>6, <1>7

LEMMA StartCore ==
  ASSUME Shape, Core, NEW i \in Objs, StartedIn(reg, i, reg'),
         reg.objs[i].pc = "debounce", UNCHANGED messages
  PROVE  Core'
<1> USE DEF Core
<1>1. Slots'
  <2>1. /\ reg'.created = reg.created /\ reg'.map = reg.map
        /\ \A j \in Objs : j # i => reg'.objs[j] = reg.objs[j]
        /\ reg'.objs[i].pc = "running"
        /\ reg'.objs[i].kind = "summary" => reg'.objs[i].summary # <<>>
    BY DEF StartedIn, StartedOn
  <2>2. ~Idle(reg.objs[i])
    BY DEF Idle
  <2> QED
    BY <2>1, <2>2, StartContents DEF Slots
<1>2. Known'
  BY StartContents DEF Known, messages
<1>3. Apart'
  <2>1. \A j \in Objs : Distinct(reg'.objs[j].items) /\ Distinct(reg'.objs[j].batch)
    BY StartContents DEF Apart
  <2>2. \A j \in Objs :
          /\ (Items(j)' \cup Batch(j)') \cap ToSet(log) = {}
          /\ Items(j)' \cap Dropped(j)' = {}
          /\ (Items(j)' \cup Batch(j)') \cap cleared = {}
    BY StartContents DEF Apart
  <2>3. \A j, k \in Objs : j # k => Held(j)' \cap Held(k)' = {}
    BY StartContents DEF Apart
  <2> QED
    BY <2>1, <2>2, <2>3 DEF Apart, ClearedStaysCleared, messages
<1>4. OneDrain'
  <2>1. reg'.map = reg.map
    BY DEF StartedIn
  <2> QED
    BY <2>1, StartContents DEF OneDrain, messages
<1>5. Kept'
  <2> SUFFICES ASSUME ~Overflowed', clears = 0
               PROVE  /\ \A j \in Objs : Prefix(reg'.objs[j].batch, reg'.objs[j].items)
                      /\ \A m \in ToSet(accepted) :
                           m \in ToSet(log) \/ \E j \in Objs : j = reg'.map /\ m \in Items(j)'
    BY DEF Kept, messages
  <2>1. ~Overflowed /\ reg'.map = reg.map
    BY StartContents DEF Overflowed, messages, StartedIn
  <2> QED
    BY <2>1, StartContents DEF Kept
<1>6. Ordered'
  <2> SUFFICES ASSUME clears = 0
               PROVE  Ordered'
    BY DEF Ordered, messages
  <2>1. /\ \A x, y : Before(x, y)' <=> Before(x, y)
        /\ \A s : Sorted(s)' <=> Sorted(s)
        /\ \A A, B : AllBefore(A, B)' <=> AllBefore(A, B)
    BY DEF Before, Sorted, AllBefore, messages
  <2> DEFINE o == reg.objs[i]
             b == reg'.objs[i].batch
  <2>2. /\ o.items \in Seq(Msgs) /\ b \in Seq(Msgs) /\ Prefix(b, o.items)
        /\ Sorted(o.items)
    BY StartContents, NumbersAndObjects, ObjectType DEF Ordered, StartedIn
  <2>3. Sorted(b)
    <3> HIDE DEF o, b
    <3>1. \A p \in 1 .. Len(b) : p \in 1 .. Len(o.items) /\ b[p] = o.items[p]
      BY <2>2 DEF Prefix
    <3> QED
      BY <2>2, <3>1 DEF Sorted
  <2>4. AllBefore(ToSet(b), ToSet(o.items) \ ToSet(b))
    <3> SUFFICES ASSUME NEW x \in ToSet(b), NEW y \in ToSet(o.items), y \notin ToSet(b)
                 PROVE  Before(x, y)
      BY DEF AllBefore
    <3>1. PICK p \in 1 .. Len(b) : b[p] = x
      BY <2>2, ElementOf
    <3>2. PICK k \in 1 .. Len(o.items) : o.items[k] = y
      BY <2>2, ElementOf
    <3>3. ~(k <= Len(b))
      BY <2>2, <3>2, PrefixElements
    <3>4. /\ Len(b) \in Nat /\ Len(o.items) \in Nat /\ p < k
          /\ p \in 1 .. Len(o.items) /\ o.items[p] = x
      BY <2>2, <3>1, <3>3 DEF Prefix
    <3> QED
      BY <2>2, <3>2, <3>4 DEF Sorted
  <2> HIDE DEF o, b
  <2>5. AllBefore(Batch(i)', Items(i)' \ Batch(i)')
    BY <2>4, StartContents DEF Batch, Items, o, b
  <2>6. \A j \in Objs : Sorted(reg'.objs[j].items) /\ Sorted(reg'.objs[j].batch)
    BY <2>3, StartContents DEF Ordered, b
  <2>7. \A j \in Objs :
          /\ AllBefore(ToSet(log), Items(j)' \cup Batch(j)')
          /\ AllBefore(Batch(j)', Items(j)' \ Batch(j)')
    BY <2>5, StartContents DEF Ordered, AllBefore
  <2> QED
    BY <2>1, <2>6, <2>7 DEF Ordered, AllBefore, Sorted, messages
<1> QED
  BY <1>1, <1>2, <1>3, <1>4, <1>5, <1>6

-----------------------------------------------------------------------------
(* A run returns.                                                          *)

LEMMA ConcatParts ==
  ASSUME NEW s \in Seq(Msgs), NEW t \in Seq(Msgs)
  PROVE  /\ s \o t \in Seq(Msgs) /\ Len(s) \in Nat /\ Len(t) \in Nat
         /\ \A p \in 1 .. Len(s \o t) :
              \/ p \in 1 .. Len(s) /\ (s \o t)[p] = s[p]
              \/ p - Len(s) \in 1 .. Len(t) /\ (s \o t)[p] = t[p - Len(s)]
  OBVIOUS

LEMMA DistinctConcat ==
  ASSUME NEW s \in Seq(Msgs), NEW t \in Seq(Msgs), Distinct(s), Distinct(t),
         ToSet(s) \cap ToSet(t) = {}
  PROVE  Distinct(s \o t)
<1> DEFINE u == s \o t
<1>1. /\ Len(s) \in Nat /\ Len(t) \in Nat
      /\ \A p \in 1 .. Len(u) :
           \/ p \in 1 .. Len(s) /\ u[p] = s[p]
           \/ p - Len(s) \in 1 .. Len(t) /\ u[p] = t[p - Len(s)]
  BY ConcatParts
<1>2. \A p \in 1 .. Len(s), k \in 1 .. Len(t) : s[p] # t[k]
  BY ElementOf
<1> HIDE DEF u
<1>3. ASSUME NEW p \in 1 .. Len(u), NEW k \in 1 .. Len(u), u[p] = u[k] PROVE p = k
  <2>1. CASE p \in 1 .. Len(s) /\ u[p] = s[p]
    <3>1. k \in 1 .. Len(s) /\ u[k] = s[k]
      BY <1>1, <1>2, <1>3, <2>1
    <3> QED
      BY <1>3, <2>1, <3>1 DEF Distinct
  <2>2. CASE p - Len(s) \in 1 .. Len(t) /\ u[p] = t[p - Len(s)]
    <3>1. k - Len(s) \in 1 .. Len(t) /\ u[k] = t[k - Len(s)]
      BY <1>1, <1>2, <1>3, <2>2
    <3>2. p - Len(s) = k - Len(s)
      BY <1>3, <2>2, <3>1 DEF Distinct
    <3> QED
      BY <1>1, <3>2
  <2> QED
    BY <1>1, <2>1, <2>2
<1> QED
  BY <1>3 DEF Distinct, u

LEMMA SortedConcat ==
  ASSUME NEW s \in Seq(Msgs), NEW t \in Seq(Msgs), Sorted(s), Sorted(t),
         AllBefore(ToSet(s), ToSet(t))
  PROVE  Sorted(s \o t)
<1> DEFINE u == s \o t
<1>1. /\ Len(s) \in Nat /\ Len(t) \in Nat
      /\ \A p \in 1 .. Len(u) :
           \/ p \in 1 .. Len(s) /\ u[p] = s[p]
           \/ p - Len(s) \in 1 .. Len(t) /\ u[p] = t[p - Len(s)]
  BY ConcatParts
<1>2. \A p \in 1 .. Len(s), k \in 1 .. Len(t) : Before(s[p], t[k])
  BY ElementOf DEF AllBefore
<1> HIDE DEF u
<1>3. ASSUME NEW p \in 1 .. Len(u), NEW k \in 1 .. Len(u), p < k PROVE Before(u[p], u[k])
  <2>1. CASE p \in 1 .. Len(s) /\ u[p] = s[p]
    BY <1>1, <1>2, <1>3, <2>1 DEF Sorted
  <2>2. CASE p - Len(s) \in 1 .. Len(t) /\ u[p] = t[p - Len(s)]
    <3>1. k - Len(s) \in 1 .. Len(t) /\ u[k] = t[k - Len(s)] /\ p - Len(s) < k - Len(s)
      BY <1>1, <1>3, <2>2
    <3> QED
      BY <2>2, <3>1 DEF Sorted
  <2> QED
    BY <1>1, <2>1, <2>2
<1> QED
  BY <1>3 DEF Sorted, u

LEMMA SplicedKeeps ==
  ASSUME NEW s \in Seq(Msgs), NEW n \in Nat
  PROVE  /\ Distinct(s) => Distinct(Spliced(s, n))
         /\ Sorted(s) => Sorted(Spliced(s, n))
         /\ \A p \in 1 .. Len(s) : s[p] \in ToSet(Spliced(s, n)) \/ p <= n
<1> DEFINE t == Spliced(s, n)
<1>1. /\ t \in Seq(Msgs) /\ Len(s) \in Nat /\ Len(t) \in Nat
      /\ Len(t) = IF n <= Len(s) THEN Len(s) - n ELSE 0
      /\ \A p \in 1 .. Len(t) : p + n \in 1 .. Len(s) /\ t[p] = s[p + n]
  BY SplicedSeq
<1> HIDE DEF t
<1>2. \A p \in 1 .. Len(s) : s[p] \in ToSet(t) \/ p <= n
  <2> SUFFICES ASSUME NEW p \in 1 .. Len(s), ~(p <= n) PROVE s[p] \in ToSet(t)
    OBVIOUS
  <2>1. p - n \in 1 .. Len(t) /\ t[p - n] = s[p]
    BY <1>1
  <2> QED
    BY <1>1, <2>1, ElementOf
<1>3. Distinct(s) => Distinct(t)
  BY <1>1 DEF Distinct
<1>4. Sorted(s) => Sorted(t)
  <2>1. \A p, k \in 1 .. Len(t) : p < k => p + n < k + n
    BY <1>1
  <2> QED
    BY <1>1, <2>1 DEF Sorted
<1> QED
  BY <1>2, <1>3, <1>4 DEF t

LEMMA DrainedFacts ==
  ASSUME NEW o \in QueueType, o.pc = "running", Removable(o)
  PROVE  /\ Drained(o) \in QueueType /\ Drained(o).pc = "running"
         /\ Drained(o).items = Spliced(o.items, Len(o.batch))
         /\ Drained(o).dropped = (IF o.summary # <<>> THEN <<>> ELSE o.dropped)
         /\ ToSet(Drained(o).items) \subseteq ToSet(o.items) \ ToSet(o.batch)
         /\ Distinct(o.items) => Distinct(Drained(o).items)
<1> DEFINE n == IF o.kind = "collect" THEN Len(o.batch) ELSE 1
           its == Spliced(o.items, n)
           drp == IF o.summary # <<>> THEN <<>> ELSE o.dropped
<1>1. /\ o.items \in Seq(Msgs) /\ o.batch \in Seq(Msgs) /\ o.dropped \in Seq(Msgs)
      /\ n = Len(o.batch) /\ n \in Nat /\ <<>> \in Seq(Msgs)
  BY DEF QueueType, Removable
<1>2. its \in Seq(Msgs) /\ drp \in Seq(Msgs)
  BY <1>1, SplicedSeq
<1>3. Drained(o) = [o EXCEPT !.items = its, !.dropped = drp]
  BY DEF Drained, QueueType
<1> HIDE DEF its, drp
<1>4. Drained(o) \in QueueType /\ Drained(o).items = its /\ Drained(o).dropped = drp
      /\ Drained(o).pc = "running"
  BY <1>2, <1>3 DEF QueueType
<1>5. ToSet(its) \subseteq ToSet(o.items) \ ToSet(o.batch)
  <2> SUFFICES ASSUME NEW x \in ToSet(its)
               PROVE  x \in ToSet(o.items) /\ x \notin ToSet(o.batch)
    OBVIOUS
  <2> HIDE DEF n
  <2>1. /\ Len(its) \in Nat
        /\ \A p \in 1 .. Len(its) : p + n \in 1 .. Len(o.items) /\ its[p] = o.items[p + n]
    BY <1>1, SplicedSeq DEF its
  <2>2. PICK p \in 1 .. Len(its) : its[p] = x
    BY <1>2, ElementOf
  <2>3. p + n \in 1 .. Len(o.items) /\ o.items[p + n] = x /\ ~(p + n <= Len(o.batch))
    BY <1>1, <2>1, <2>2
  <2>4. x \in ToSet(o.items)
    BY <1>1, <2>3, ElementOf
  <2> QED
    BY <2>3, <2>4 DEF Removable
<1>6. Distinct(o.items) => Distinct(its)
  BY <1>1, SplicedKeeps DEF its
<1>7. its = Spliced(o.items, Len(o.batch))
  BY <1>1 DEF its
<1> QED
  BY <1>4, <1>5, <1>6, <1>7 DEF drp

(* What a returning run of object i changes. *)
ReturnedIn(i) ==
  LET o == reg.objs[i]
      q == reg'.objs[i]
  IN  /\ reg' \in RegType /\ reg'.created = reg.created
      /\ q.items = Spliced(o.items, Len(o.batch))
      /\ q.dropped = (IF o.summary # <<>> THEN <<>> ELSE o.dropped)
      /\ q.batch = <<>> /\ q.pc # "running" /\ q.summary = <<>> /\ q.kind # "summary"
      /\ Items(i)' \subseteq Items(i) \ Batch(i)
      /\ Distinct(q.items)
      /\ \A j \in Objs : j # i => Quiet(reg.objs[j], reg'.objs[j])
      /\ \/ reg'.map = reg.map
         \/ /\ reg'.map = NoQueue
            /\ \E j \in Objs : /\ j = reg.map \/ reg.objs[j].pc # "off"
                               /\ Idle(reg'.objs[j])

LEMMA ReturnContents ==
  ASSUME Shape, Slots, Apart, Awake(reg), NEW i \in Objs, RunReturns(i)
  PROVE  ReturnedIn(i) /\ Awake(reg')
<1> DEFINE o == reg.objs[i]
           d == Drained(o)
           r == Put(reg, i, d)
<1>1. reg \in RegType /\ o \in QueueType /\ o.pc = "running" /\ Removable(o)
      /\ Distinct(o.items) /\ reg' = Looped(r, i)
  BY NumbersAndObjects, ObjectType DEF RunReturns, Slots, Apart, Put
<1>2. /\ d \in QueueType /\ d.pc = "running"
      /\ d.items = Spliced(o.items, Len(o.batch))
      /\ d.dropped = (IF o.summary # <<>> THEN <<>> ELSE o.dropped)
      /\ ToSet(d.items) \subseteq ToSet(o.items) \ ToSet(o.batch)
      /\ Distinct(d.items)
  BY <1>1, DrainedFacts
<1> HIDE DEF d
<1>3. /\ r \in RegType /\ r.map = reg.map /\ r.created = reg.created
      /\ r.callback = reg.callback
      /\ \A j \in Objs : r.objs[j] = IF j = i THEN d ELSE reg.objs[j]
  BY <1>1, <1>2, Replaced
<1> HIDE DEF r
<1>4. Awake(r)
  BY <1>2, <1>3, ObjectType DEF Awake
<1>5. /\ QuietReg(r, reg') /\ Awake(reg')
      /\ reg'.objs[i].batch = <<>> /\ reg'.objs[i].pc # "running"
  BY <1>1, <1>2, <1>3, <1>4, LoopedQuiet
<1>6. \A j \in Objs : Quiet(r.objs[j], reg'.objs[j])
  BY <1>5 DEF QuietReg
<1>7. /\ reg'.objs[i].items = d.items /\ reg'.objs[i].dropped = d.dropped
      /\ reg'.objs[i].summary = <<>> /\ reg'.objs[i].kind # "summary"
  BY <1>2, <1>3, <1>5, <1>6 DEF Quiet
<1>8. \A j \in Objs : j # i => Quiet(reg.objs[j], reg'.objs[j])
  BY <1>3, <1>6
<1>9. \A j \in Objs : r.objs[j].pc # "off" => reg.objs[j].pc # "off"
  BY <1>1, <1>3
<1>10. \/ reg'.map = reg.map
       \/ /\ reg'.map = NoQueue
          /\ \E j \in Objs : (j = reg.map \/ reg.objs[j].pc # "off") /\ Idle(reg'.objs[j])
  BY <1>3, <1>5, <1>9 DEF QuietReg
<1>11. Items(i)' \subseteq Items(i) \ Batch(i)
  BY <1>2, <1>7 DEF Items, Batch
<1> QED
  BY <1>2, <1>3, <1>5, <1>7, <1>8, <1>10, <1>11 DEF ReturnedIn, QuietReg

LEMMA ReturnOthers ==
  ASSUME NEW i \in Objs, ReturnedIn(i)
  PROVE  /\ \A j \in Objs : j # i =>
              /\ reg'.objs[j].items = reg.objs[j].items
              /\ reg'.objs[j].dropped = reg.objs[j].dropped
              /\ reg'.objs[j].batch \in {reg.objs[j].batch, <<>>}
              /\ Items(j)' = Items(j) /\ Dropped(j)' = Dropped(j)
              /\ Batch(j)' \in {Batch(j), {}}
              /\ Idle(reg.objs[j]) => Idle(reg'.objs[j])
         /\ Items(i)' \subseteq Items(i) \ Batch(i) /\ Batch(i)' = {}
         /\ Dropped(i)' \subseteq Dropped(i)
         /\ \A j \in Objs : Held(j)' \subseteq Held(j)
<1>1. ASSUME NEW j \in Objs, j # i
      PROVE  /\ reg'.objs[j].items = reg.objs[j].items
             /\ reg'.objs[j].dropped = reg.objs[j].dropped
             /\ reg'.objs[j].batch \in {reg.objs[j].batch, <<>>}
             /\ Idle(reg.objs[j]) => Idle(reg'.objs[j])
  <2>1. Quiet(reg.objs[j], reg'.objs[j])
    BY <1>1 DEF ReturnedIn
  <2> QED
    BY <2>1 DEF Quiet
<1>2. \A j \in Objs : j # i =>
        /\ Items(j)' = Items(j) /\ Dropped(j)' = Dropped(j)
        /\ Batch(j)' \in {Batch(j), {}}
  BY <1>1, EmptyElements DEF Items, Dropped, Batch
<1>3. /\ Items(i)' \subseteq Items(i) \ Batch(i) /\ Batch(i)' = {}
      /\ Dropped(i)' \subseteq Dropped(i)
  BY EmptyElements DEF ReturnedIn, Batch, Dropped
<1>4. \A j \in Objs : Held(j)' \subseteq Held(j)
  BY <1>2, <1>3 DEF Held
<1> QED
  BY <1>1, <1>2, <1>3, <1>4

LEMMA ReturnSlots ==
  ASSUME Shape, Slots, NEW i \in Objs, ReturnedIn(i), reg.objs[i].pc = "running"
  PROVE  Slots'
<1>1. reg'.created = reg.created /\ reg'.map <= reg'.created
  BY NumbersAndObjects DEF ReturnedIn, Slots, NoQueue
<1>2. ASSUME NEW j \in Objs
      PROVE  /\ j > reg'.created => Idle(reg'.objs[j])
             /\ reg'.objs[j].pc # "running" =>
                  reg'.objs[j].batch = <<>> /\ reg'.objs[j].summary = <<>>
             /\ reg'.objs[j].kind = "summary" => reg'.objs[j].summary # <<>>
             /\ Removable(reg'.objs[j])
  <2>1. /\ j > reg.created => Idle(reg.objs[j])
        /\ reg.objs[j].pc # "running" =>
             reg.objs[j].batch = <<>> /\ reg.objs[j].summary = <<>>
        /\ reg.objs[j].kind = "summary" => reg.objs[j].summary # <<>>
        /\ Removable(reg.objs[j])
    BY DEF Slots
  <2>2. CASE j = i
    BY <1>1, <2>1, <2>2, EmptyElements DEF ReturnedIn, Removable, Idle
  <2>3. CASE j # i
    <3>1. Quiet(reg.objs[j], reg'.objs[j])
      BY <2>3 DEF ReturnedIn
    <3>2. Removable(reg'.objs[j])
      BY <2>1, <3>1, EmptyElements DEF Quiet, Removable
    <3> QED
      BY <1>1, <2>1, <3>1, <3>2 DEF Quiet
  <2> QED
    BY <2>2, <2>3
<1> QED
  BY <1>1, <1>2 DEF Slots

(* What a returning run adds to the log. *)
LEMMA ReturnLog ==
  ASSUME Shape, Known, Apart, NEW i \in Objs, RunReturns(i)
  PROVE  /\ log' = IF reg.objs[i].kind = "summary" THEN log ELSE log \o reg.objs[i].batch
         /\ log' \in Seq(Msgs) /\ Distinct(log')
         /\ ToSet(log') \in {ToSet(log), ToSet(log) \cup Batch(i)}
         /\ reg.objs[i].kind # "summary" => ToSet(log') = ToSet(log) \cup Batch(i)
         /\ reported' = reported \cup ToSet(reg.objs[i].summary)
         /\ reg.objs[i].pc = "running"
<1>1. /\ log \in Seq(Msgs) /\ reg.objs[i].batch \in Seq(Msgs)
      /\ Distinct(log) /\ Distinct(reg.objs[i].batch)
      /\ ToSet(log) \cap ToSet(reg.objs[i].batch) = {}
  BY NumbersAndObjects, ObjectType DEF Shape, Apart, Batch
<1>2. /\ log \o reg.objs[i].batch \in Seq(Msgs)
      /\ Distinct(log \o reg.objs[i].batch)
      /\ ToSet(log \o reg.objs[i].batch) = ToSet(log) \cup Batch(i)
  BY <1>1, DistinctConcat, ConcatElements DEF Batch
<1>3. /\ log' = IF reg.objs[i].kind = "summary" THEN log ELSE log \o reg.objs[i].batch
      /\ reported' = reported \cup ToSet(reg.objs[i].summary)
      /\ reg.objs[i].pc = "running"
  BY DEF RunReturns
<1> QED
  BY <1>1, <1>2, <1>3

LEMMA ReturnApart ==
  ASSUME Shape, Slots, Known, Apart, NEW i \in Objs, RunReturns(i), ReturnedIn(i)
  PROVE  Known' /\ Apart'
<1>1. UNCHANGED <<accepted, cleared, clears>>
  BY DEF RunReturns
<1>2. Batch(i) \subseteq ToSet(accepted) /\ Batch(i) \cap cleared = {} /\ Batch(i) \subseteq Held(i)
  BY DEF Known, Apart, Held
<1>3. Known'
  <2>1. \A j \in Objs : Held(j)' \subseteq ToSet(accepted)
    BY ReturnOthers DEF Known
  <2>2. ToSet(log') \subseteq ToSet(accepted)
    BY <1>2, ReturnLog DEF Known
  <2> QED
    BY <1>1, <2>1, <2>2 DEF Known
<1>4. ASSUME NEW j \in Objs
      PROVE  /\ Distinct(reg'.objs[j].items) /\ Distinct(reg'.objs[j].batch)
             /\ (Items(j)' \cup Batch(j)') \cap ToSet(log') = {}
             /\ Items(j)' \cap Dropped(j)' = {}
             /\ (Items(j)' \cup Batch(j)') \cap cleared = {}
  <2>1. Distinct(<<>>)
    BY DEF Distinct
  <2>2. /\ Distinct(reg.objs[j].items) /\ Distinct(reg.objs[j].batch)
        /\ (Items(j) \cup Batch(j)) \cap ToSet(log) = {}
        /\ Items(j) \cap Dropped(j) = {}
        /\ (Items(j) \cup Batch(j)) \cap cleared = {}
    BY DEF Apart
  <2>3. CASE j = i
    <3>1. Distinct(reg'.objs[i].items) /\ reg'.objs[i].batch = <<>>
      BY DEF ReturnedIn
    <3> QED
      BY <2>1, <2>2, <2>3, <3>1, ReturnOthers, ReturnLog
  <2>4. CASE j # i
    <3>1. Held(i) \cap Held(j) = {} /\ Items(j) \cup Batch(j) \subseteq Held(j)
      BY <2>4 DEF Apart, Held
    <3>2. (Items(j) \cup Batch(j)) \cap ToSet(log') = {}
      BY <1>2, <2>2, <3>1, ReturnLog
    <3> QED
      BY <2>1, <2>2, <2>4, <3>2, ReturnOthers
  <2> QED
    BY <2>3, <2>4
<1>5. \A j, k \in Objs : j # k => Held(j)' \cap Held(k)' = {}
  BY ReturnOthers DEF Apart
<1>6. cleared \cap ToSet(log') = {}
  BY <1>2, ReturnLog DEF Apart, ClearedStaysCleared
<1> QED
  BY <1>1, <1>3, <1>4, <1>5, <1>6, ReturnLog DEF Apart, ClearedStaysCleared

(* Until something is cleared the object with the run is the mapped one. *)
LEMMA ReturnOneDrain ==
  ASSUME Shape, Slots, OneDrain, NEW i \in Objs, RunReturns(i), ReturnedIn(i)
  PROVE  /\ OneDrain'
         /\ clears = 0 =>
              /\ i = reg.map
              /\ \A j \in Objs : j # i => Idle(reg.objs[j]) /\ Idle(reg'.objs[j])
              /\ reg'.map # reg.map => Idle(reg'.objs[i])
<1>1. clears' = clears /\ ~Idle(reg.objs[i])
  BY DEF RunReturns, Idle
<1>2. ASSUME clears = 0
      PROVE  /\ i = reg.map
             /\ \A j \in Objs : j # i => Idle(reg.objs[j]) /\ Idle(reg'.objs[j])
             /\ reg'.map # reg.map => Idle(reg'.objs[i])
  <2>1. i = reg.map
    BY <1>1, <1>2 DEF OneDrain
  <2>2. \A j \in Objs : j # i => Idle(reg.objs[j]) /\ Idle(reg'.objs[j])
    BY <1>2, <2>1, ReturnOthers DEF OneDrain
  <2>3. ASSUME reg'.map # reg.map PROVE Idle(reg'.objs[i])
    <3> PICK j \in Objs : (j = reg.map \/ reg.objs[j].pc # "off") /\ Idle(reg'.objs[j])
      BY <2>3 DEF ReturnedIn
    <3>1. j = i
      BY <2>1, <2>2 DEF Idle
    <3> QED
      BY <3>1
  <2> QED
    BY <2>1, <2>2, <2>3
<1>3. OneDrain'
  BY <1>1, <1>2 DEF OneDrain
<1> QED
  BY <1>2, <1>3

LEMMA ReturnKept ==
  ASSUME Shape, Slots, Known, Apart, OneDrain, Kept,
         NEW i \in Objs, RunReturns(i), ReturnedIn(i)
  PROVE  Kept'
<1>1. UNCHANGED <<accepted, evicted, clears>>
  BY DEF RunReturns
<1> SUFFICES ASSUME ~Overflowed', clears = 0
             PROVE  /\ \A j \in Objs : Prefix(reg'.objs[j].batch, reg'.objs[j].items)
                    /\ \A m \in ToSet(accepted) :
                         m \in ToSet(log') \/ \E j \in Objs : j = reg'.map /\ m \in Items(j)'
  BY <1>1 DEF Kept
<1>2. /\ reg.objs[i].summary \in Seq(Msgs) /\ reg.objs[i].items \in Seq(Msgs)
      /\ reg.objs[i].batch \in Seq(Msgs)
      /\ \A j \in Objs : reg'.objs[j].items \in Seq(Msgs)
  BY NumbersAndObjects, ObjectType DEF ReturnedIn
<1>3. reported = {} /\ ToSet(reg.objs[i].summary) = {} /\ evicted = {}
      /\ \A j \in Objs : reg'.objs[j].dropped = <<>>
  BY <1>1, ReturnLog DEF Overflowed
<1>4. reg.objs[i].summary = <<>>
  BY <1>2, <1>3, EmptyElements
<1>5. ~Overflowed
  BY <1>3, <1>4, ReturnOthers DEF Overflowed, ReturnedIn
<1>6. ToSet(log') = ToSet(log) \cup Batch(i)
  BY <1>4, ReturnLog DEF Slots
<1>7. \A j \in Objs : Prefix(reg'.objs[j].batch, reg'.objs[j].items)
  <2>1. \A j \in Objs : Prefix(<<>>, reg'.objs[j].items)
    BY <1>2 DEF Prefix
  <2> QED
    BY <1>5, <2>1, ReturnOthers DEF Kept, ReturnedIn
<1>8. ASSUME NEW m \in ToSet(accepted), m \notin ToSet(log')
      PROVE  \E j \in Objs : j = reg'.map /\ m \in Items(j)'
  <2>1. m \in Items(i) /\ i = reg.map
    BY <1>5, <1>6, <1>8, ReturnOneDrain DEF Kept
  <2>2. Prefix(reg.objs[i].batch, reg.objs[i].items) /\ m \notin ToSet(reg.objs[i].batch)
    BY <1>5, <1>6, <1>8 DEF Kept, Batch
  <2>3. PICK p \in 1 .. Len(reg.objs[i].items) : reg.objs[i].items[p] = m
    BY <1>2, <2>1, ElementOf DEF Items
  <2>4. ~(p <= Len(reg.objs[i].batch))
    BY <1>2, <2>2, <2>3, PrefixElements
  <2>5. m \in ToSet(Spliced(reg.objs[i].items, Len(reg.objs[i].batch)))
    <3>1. Len(reg.objs[i].batch) \in Nat
      BY <1>2
    <3> QED
      BY <1>2, <2>3, <2>4, <3>1, SplicedKeeps
  <2>6. m \in Items(i)'
    BY <2>5 DEF ReturnedIn, Items
  <2>7. ~Idle(reg'.objs[i])
    BY <2>6, EmptyElements DEF Idle, Items
  <2> QED
    BY <2>1, <2>6, <2>7, ReturnOneDrain
<1> QED
  BY <1>7, <1>8

LEMMA ReturnOrdered ==
  ASSUME Shape, Slots, Known, Apart, OneDrain, Ordered,
         NEW i \in Objs, RunReturns(i), ReturnedIn(i)
  PROVE  Ordered'
<1>1. UNCHANGED <<accepted, clears>>
  BY DEF RunReturns
<1> SUFFICES ASSUME clears = 0
             PROVE  Ordered'
  BY <1>1 DEF Ordered
<1>2. /\ \A x, y : Before(x, y)' <=> Before(x, y)
  BY <1>1 DEF Before
<1>3. /\ log \in Seq(Msgs) /\ reg.objs[i].items \in Seq(Msgs)
      /\ reg.objs[i].batch \in Seq(Msgs) /\ Len(reg.objs[i].batch) \in Nat
  BY NumbersAndObjects, ObjectType DEF Shape
<1>4. /\ Sorted(log) /\ Sorted(reg.objs[i].items) /\ Sorted(reg.objs[i].batch)
      /\ AllBefore(ToSet(log), Items(i) \cup Batch(i))
      /\ AllBefore(Batch(i), Items(i) \ Batch(i))
  BY DEF Ordered
<1>5. Sorted(log')
  <2>1. AllBefore(ToSet(log), ToSet(reg.objs[i].batch))
    BY <1>4 DEF AllBefore, Batch
  <2>2. Sorted(log \o reg.objs[i].batch)
    BY <1>3, <1>4, <2>1, SortedConcat
  <2> QED
    BY <1>4, <2>2, ReturnLog
<1>6. Sorted(<<>>)
  BY DEF Sorted
<1>7. ASSUME NEW j \in Objs
      PROVE  /\ Sorted(reg'.objs[j].items) /\ Sorted(reg'.objs[j].batch)
             /\ AllBefore(ToSet(log'), Items(j)' \cup Batch(j)')
             /\ AllBefore(Batch(j)', Items(j)' \ Batch(j)')
  <2>1. CASE j = i
    <3>1. Sorted(reg'.objs[i].items)
      BY <1>3, <1>4, SplicedKeeps DEF ReturnedIn
    <3>2. reg'.objs[i].batch = <<>>
      BY DEF ReturnedIn
    <3>3. AllBefore(ToSet(log) \cup Batch(i), Items(i)')
      BY <1>4, ReturnOthers DEF AllBefore
    <3> QED
      BY <1>6, <2>1, <3>1, <3>2, <3>3, ReturnOthers, ReturnLog DEF AllBefore
  <2>2. CASE j # i
    <3>1. reg.objs[j].items = <<>> /\ reg.objs[j].pc = "off"
      BY <2>2, ReturnOneDrain DEF Idle
    <3>2. reg.objs[j].batch = <<>>
      BY <3>1 DEF Slots
    <3>3. reg'.objs[j].items = <<>> /\ reg'.objs[j].batch = <<>>
      BY <2>2, <3>1, <3>2, ReturnOthers
    <3>4. Items(j)' = {} /\ Batch(j)' = {}
      BY <3>3, EmptyElements DEF Items, Batch
    <3> QED
      BY <1>6, <3>3, <3>4 DEF AllBefore
  <2> QED
    BY <2>1, <2>2
<1> QED
  BY <1>1, <1>2, <1>5, <1>7 DEF Ordered, Sorted, AllBefore

LEMMA ReturnCore ==
  ASSUME Shape, Core, Awake(reg), NEW i \in Objs, RunReturns(i)
  PROVE  Core' /\ Awake(reg')
<1>1. ReturnedIn(i) /\ Awake(reg') /\ reg.objs[i].pc = "running"
  BY ReturnContents DEF Core, RunReturns
<1> QED
  BY <1>1, ReturnSlots, ReturnApart, ReturnOneDrain, ReturnKept, ReturnOrdered DEF Core

-----------------------------------------------------------------------------
(* A message is enqueued.                                                  *)

LEMMA SettingsType ==
  ASSUME NEW s \in Settings
  PROVE  /\ s.mode \in {"collect", "followup"} /\ s.cap \in Nat \ {0}
         /\ s.drop \in {"old", "new", "summarize", "unset"}
  BY FollowupAssumption

LEMMA ConfiguredQuiet ==
  ASSUME NEW o \in QueueType, NEW s \in Settings
  PROVE  /\ Quiet(o, Configured(o, s)) /\ Configured(o, s).pc = o.pc
         /\ Configured(o, s).items = o.items /\ Configured(o, s).dropped = o.dropped
<1> DEFINE d == IF s.drop = "unset" THEN o.drop ELSE s.drop
           q == Configured(o, s)
<1>1. d \in {"old", "new", "summarize"}
  BY SettingsType DEF QueueType
<1>2. q = [o EXCEPT !.mode = s.mode, !.cap = s.cap, !.drop = d]
  BY DEF Configured, QueueType
<1> HIDE DEF d, q
<1>3. /\ q \in QueueType
      /\ q.items = o.items /\ q.dropped = o.dropped /\ q.batch = o.batch
      /\ q.summary = o.summary /\ q.kind = o.kind /\ q.pc = o.pc
  BY <1>1, <1>2, SettingsType DEF QueueType
<1> QED
  BY <1>3 DEF Quiet, Idle, q

LEMMA NewQueueIdle ==
  ASSUME NEW s \in Settings
  PROVE  /\ NewQueue(s) \in QueueType /\ Idle(NewQueue(s))
         /\ NewQueue(s).batch = <<>> /\ NewQueue(s).summary = <<>>
         /\ NewQueue(s).kind = "none"
<1> <<>> \in Seq(Msgs)
  OBVIOUS
<1> QED
  BY SettingsType DEF NewQueue, QueueType, Idle

LEMMA OpenedFacts ==
  ASSUME Shape, Slots, Awake(reg), NEW s \in Settings,
         reg.map # NoQueue \/ reg.created < MaxQueues
  PROVE  /\ OpenedReg(reg, Opened(s)) /\ Awake(Opened(s))
         /\ Opened(s).callback = reg.callback
<1>1. CASE reg.map # NoQueue
  <2> DEFINE k == reg.map
             q == Configured(reg.objs[k], s)
             r == Put(reg, k, q)
  <2>1. k \in Objs /\ reg \in RegType /\ reg.objs[k] \in QueueType
    BY <1>1, NumbersAndObjects, ObjectType
  <2>2. /\ Quiet(reg.objs[k], q) /\ q.pc = reg.objs[k].pc /\ q \in QueueType
        /\ q.items = reg.objs[k].items /\ q.dropped = reg.objs[k].dropped
    BY <2>1, ConfiguredQuiet DEF Quiet
  <2>3. Opened(s) = r
    BY <1>1 DEF Opened, Put
  <2> HIDE DEF q
  <2>4. /\ r \in RegType /\ r.map = k /\ r.created = reg.created
        /\ r.callback = reg.callback
        /\ \A j \in Objs : r.objs[j] = IF j = k THEN q ELSE reg.objs[j]
    BY <2>1, <2>2, Replaced
  <2> HIDE DEF r
  <2>5. Awake(r)
    BY <2>1, <2>2, <2>4 DEF Awake, Busy
  <2>6. \A j \in Objs : Quiet(reg.objs[j], r.objs[j])
    BY <2>1, <2>2, <2>4, ObjectType DEF Quiet
  <2> QED
    BY <2>1, <2>3, <2>4, <2>5, <2>6 DEF OpenedReg
<1>2. CASE reg.map = NoQueue
  <2> DEFINE k == reg.created + 1
             q == NewQueue(s)
             r == [reg EXCEPT !.map = k, !.created = k, !.objs[k] = q]
  <2>1. k \in Objs /\ reg \in RegType /\ k > reg.created /\ k \in 0 .. MaxQueues
    BY <1>2, NumbersAndObjects DEF Objs
  <2>2. /\ q \in QueueType /\ Idle(q)
        /\ q.batch = <<>> /\ q.summary = <<>> /\ q.kind = "none"
    BY NewQueueIdle
  <2>3. Opened(s) = r
    BY <1>2 DEF Opened, RegType
  <2> HIDE DEF q
  <2>4. /\ r \in RegType /\ r.map = k /\ r.created = k /\ r.callback = reg.callback
        /\ \A j \in Objs : r.objs[j] = IF j = k THEN q ELSE reg.objs[j]
    BY <2>1, <2>2 DEF RegType, Objs
  <2> HIDE DEF r
  <2>5. Idle(reg.objs[k])
    BY <2>1 DEF Slots
  <2>6. Quiet(reg.objs[k], q)
    BY <2>2, <2>5 DEF Quiet, Idle
  <2>7. \A j \in Objs : Quiet(reg.objs[j], r.objs[j])
    BY <2>1, <2>4, <2>6, ObjectType DEF Quiet
  <2>8. Awake(r)
    BY <2>1, <2>2, <2>4 DEF Awake, Busy, Idle
  <2> QED
    BY <1>2, <2>1, <2>3, <2>4, <2>7, <2>8 DEF OpenedReg
<1> QED
  BY <1>1, <1>2

LEMMA CutFacts ==
  ASSUME NEW s \in Seq(Msgs), NEW n \in 0 .. Len(s)
  PROVE  /\ SubSeq(s, 1, n) \in Seq(Msgs) /\ Spliced(s, n) \in Seq(Msgs)
         /\ ToSet(SubSeq(s, 1, n)) \subseteq ToSet(s)
         /\ ToSet(Spliced(s, n)) \subseteq ToSet(s)
         /\ Distinct(s) => ToSet(SubSeq(s, 1, n)) \cap ToSet(Spliced(s, n)) = {}
         /\ n > 0 => ToSet(SubSeq(s, 1, n)) # {}
         /\ n = 0 => Spliced(s, n) = s
<1> DEFINE g == SubSeq(s, 1, n)
           t == Spliced(s, n)
<1>1. /\ g \in Seq(Msgs) /\ Len(g) = n /\ Len(s) \in Nat
      /\ \A p \in 1 .. n : g[p] = s[p] /\ p \in 1 .. Len(s)
  OBVIOUS
<1>2. /\ t \in Seq(Msgs) /\ Len(t) = Len(s) - n
      /\ \A p \in 1 .. Len(t) : p + n \in 1 .. Len(s) /\ t[p] = s[p + n]
  BY SplicedSeq
<1>3. n = 0 => t = s
  BY DEF Spliced
<1> HIDE DEF g, t
<1>4. /\ \A x \in ToSet(g) : \E p \in 1 .. n : g[p] = x
      /\ \A x \in ToSet(t) : \E p \in 1 .. Len(t) : t[p] = x
      /\ \A p \in 1 .. Len(s) : s[p] \in ToSet(s)
      /\ \A p \in 1 .. n : g[p] \in ToSet(g)
  BY <1>1, <1>2, ElementOf
<1>5. ToSet(g) \subseteq ToSet(s)
  BY <1>1, <1>4
<1>6. ToSet(t) \subseteq ToSet(s)
  BY <1>2, <1>4
<1>7. ASSUME Distinct(s), NEW x \in ToSet(g), x \in ToSet(t) PROVE FALSE
  <2> PICK p \in 1 .. n : g[p] = x
    BY <1>4
  <2> PICK k \in 1 .. Len(t) : t[k] = x
    BY <1>4, <1>7
  <2>1. p = k + n
    BY <1>1, <1>2, <1>7 DEF Distinct
  <2> QED
    BY <1>2, <2>1
<1>8. n > 0 => ToSet(g) # {}
  <2>1. n > 0 => 1 \in 1 .. n
    OBVIOUS
  <2> QED
    BY <1>4, <2>1
<1> QED
  BY <1>1, <1>2, <1>3, <1>5, <1>6, <1>7, <1>8 DEF g, t

LEMMA ScheduledBusy ==
  ASSUME NEW r \in RegType, r.map \in Objs, Busy(r.objs[r.map])
  PROVE  Scheduled(r).map = r.map
  BY DEF Scheduled, RegType

(* Object q has the run of o, or neither has one. *)
SameRun(o, q) ==
  \/ q.batch = o.batch /\ q.summary = o.summary /\ q.kind = o.kind
       /\ (q.pc = "running" <=> o.pc = "running")
  \/ q.batch = <<>> /\ q.summary = <<>> /\ q.kind = "none" /\ q.pc # "running"

(* Message m is appended to object k, whose first n items make room. *)
PushedIn(m, k, n) ==
  LET o == reg.objs[k]
      q == reg'.objs[k]
  IN  /\ reg' \in RegType /\ reg'.map = k
      /\ \/ k = reg.map /\ reg'.created = reg.created
         \/ reg.map = NoQueue /\ k = reg.created + 1 /\ reg'.created = reg.created + 1
      /\ \A j \in Objs : j # k => Quiet(reg.objs[j], reg'.objs[j])
      /\ SameRun(o, q)
      /\ q.items = Append(Spliced(o.items, n), m)
      /\ ToSet(q.dropped) \subseteq ToSet(o.dropped) \cup ToSet(SubSeq(o.items, 1, n))
      /\ ToSet(o.dropped) \subseteq ToSet(q.dropped)
      /\ n > 0 => ToSet(q.dropped) # {} \/ evicted' # {}
      /\ evicted \subseteq evicted' /\ evicted' \subseteq Msgs
      /\ m \in Msgs /\ m \notin ToSet(accepted)
      /\ accepted' = Append(accepted, m)
      /\ UNCHANGED <<clears, log, reported, cleared>>

LEMMA RejectedQuiet ==
  ASSUME Shape, NEW r, OpenedReg(reg, r), Awake(r)
  PROVE  LET x == [r EXCEPT !.objs[r.map].lastRun = TRUE]
         IN  OpenedReg(reg, x) /\ Awake(x)
<1> DEFINE k == r.map
           q == [r.objs[k] EXCEPT !.lastRun = TRUE]
           x == [r EXCEPT !.objs[r.map].lastRun = TRUE]
<1>1. r \in RegType /\ k \in Objs /\ r.objs[k] \in QueueType
  BY ObjectType DEF OpenedReg
<1>2. x = Put(r, k, q)
  BY <1>1 DEF Put, RegType
<1>3. /\ q \in QueueType /\ q.items = r.objs[k].items /\ q.dropped = r.objs[k].dropped
      /\ q.batch = r.objs[k].batch /\ q.summary = r.objs[k].summary
      /\ q.kind = r.objs[k].kind /\ q.pc = r.objs[k].pc
  BY <1>1 DEF QueueType
<1> HIDE DEF q, x
<1>4. /\ x \in RegType /\ x.map = k /\ x.created = r.created /\ x.callback = r.callback
      /\ \A j \in Objs : x.objs[j] = IF j = k THEN q ELSE r.objs[j]
  BY <1>1, <1>2, <1>3, Replaced
<1>5. \A j \in Objs : Quiet(reg.objs[j], r.objs[j])
  BY DEF OpenedReg
<1>6. Quiet(reg.objs[k], q)
  BY <1>1, <1>3, <1>5 DEF Quiet, Idle
<1>7. \A j \in Objs : Quiet(reg.objs[j], x.objs[j])
  BY <1>4, <1>5, <1>6
<1>8. Awake(x)
  BY <1>1, <1>3, <1>4 DEF Awake, Busy
<1> QED
  BY <1>1, <1>4, <1>7, <1>8 DEF OpenedReg, x

LEMMA EnqueueCases ==
  ASSUME Shape, Slots, Fresh, Awake(reg),
         NEW m \in Msgs, NEW s \in Settings, Enqueue(m, s)
  PROVE  /\ Awake(reg')
         /\ \/ OpenedReg(reg, reg') /\ UNCHANGED messages
            \/ \E k \in Objs : \E n \in 0 .. Len(reg.objs[k].items) : PushedIn(m, k, n)
<1> DEFINE r    == Opened(s)
           k    == r.map
           q    == r.objs[k]
           over == Len(q.items) - q.cap + 1
           full == over > 0
           gone == IF full THEN SubSeq(q.items, 1, over) ELSE <<>>
           kept == IF full THEN Spliced(q.items, over) ELSE q.items
           its  == Append(kept, m)
           drp  == IF q.drop = "summarize" THEN q.dropped \o gone ELSE q.dropped
           next == [q EXCEPT !.lastRun = TRUE, !.items = its, !.dropped = drp]
           pushed == Put(r, k, next)
           n    == IF full THEN over ELSE 0
<1>1. OpenedReg(reg, r) /\ Awake(r) /\ r.callback = reg.callback
  BY OpenedFacts DEF Enqueue
<1>2. CASE IdOf[m] \in recent \/ Queued(m, q.items)
  <2>1. reg' = r /\ UNCHANGED messages
    BY <1>2 DEF Enqueue, messages
  <2> QED
    BY <1>1, <2>1
<1>3. CASE IdOf[m] \notin recent /\ ~Queued(m, q.items) /\ full /\ q.drop = "new"
  <2>1. reg' = [r EXCEPT !.objs[r.map].lastRun = TRUE] /\ UNCHANGED messages
    BY <1>3 DEF Enqueue, messages
  <2> HIDE DEF r
  <2> QED
    BY <1>1, <2>1, RejectedQuiet
<1>4. CASE IdOf[m] \notin recent /\ ~Queued(m, q.items) /\ ~(full /\ q.drop = "new")
  <2>1. /\ reg' = IF q.pc = "off" /\ reg.callback THEN Scheduled(pushed) ELSE pushed
        /\ accepted' = Append(accepted, m)
        /\ evicted' = IF q.drop = "old" THEN evicted \cup ToSet(gone) ELSE evicted
        /\ UNCHANGED <<clears, log, reported, cleared>>
    BY <1>4 DEF Enqueue, Put
  <2>2. /\ r \in RegType /\ k \in Objs /\ q \in QueueType
        /\ \A j \in Objs : Quiet(reg.objs[j], r.objs[j])
        /\ \/ k = reg.map /\ r.created = reg.created
           \/ reg.map = NoQueue /\ k = reg.created + 1 /\ r.created = reg.created + 1
    BY <1>1, ObjectType DEF OpenedReg
  <2> HIDE DEF r
  <2>3. /\ q.items \in Seq(Msgs) /\ q.dropped \in Seq(Msgs) /\ q.cap \in Nat \ {0}
        /\ q.drop \in {"old", "new", "summarize"}
    BY <2>2 DEF QueueType
  <2>4. n \in 0 .. Len(q.items) /\ (full <=> n > 0) /\ (full => n = over)
    <3>1. Len(q.items) \in Nat /\ q.cap \in Nat /\ q.cap >= 1
      BY <2>3
    <3> HIDE DEF q
    <3>2. CASE full
      BY <3>1, <3>2
    <3>3. CASE ~full
      BY <3>1, <3>3
    <3> QED
      BY <3>2, <3>3
  <2>5. /\ SubSeq(q.items, 1, n) \in Seq(Msgs) /\ Spliced(q.items, n) \in Seq(Msgs)
        /\ n > 0 => ToSet(SubSeq(q.items, 1, n)) # {}
        /\ n = 0 => Spliced(q.items, n) = q.items
        /\ ToSet(SubSeq(q.items, 1, n)) \subseteq ToSet(q.items)
    <3>1. q.items \in Seq(Msgs) /\ n \in 0 .. Len(q.items)
      BY <2>3, <2>4
    <3> HIDE DEF q, n, over, full
    <3> QED
      BY <3>1, CutFacts
  <2>6. /\ kept = Spliced(q.items, n) /\ gone \in Seq(Msgs)
        /\ ToSet(gone) \subseteq ToSet(SubSeq(q.items, 1, n))
        /\ (n > 0 => ToSet(gone) # {}) /\ ToSet(gone) \subseteq Msgs
    <3>1. CASE full
      <4>1. n = over
        BY <2>4, <3>1
      <4>2. kept = Spliced(q.items, n) /\ gone = SubSeq(q.items, 1, n)
        BY Zenon, <3>1, <4>1
      <4> HIDE DEF n, over, full, gone, kept
      <4>3. ToSet(q.items) \subseteq Msgs
        BY <2>3, ElementOf
      <4> QED
        BY <2>5, <4>2, <4>3
    <3>2. CASE ~full
      <4>1. kept = q.items /\ gone = <<>> /\ n = 0
        BY Zenon, <3>2
      <4> HIDE DEF n, over, full, gone, kept
      <4>2. kept = Spliced(q.items, n)
        BY <2>5, <4>1
      <4>3. gone \in Seq(Msgs) /\ ToSet(gone) = {}
        BY <4>1, EmptyElements
      <4> QED
        BY <4>1, <4>2, <4>3
    <3> QED
      BY <3>1, <3>2
  <2> HIDE DEF n, over, gone, kept
  <2>7. its \in Seq(Msgs)
    BY <2>5, <2>6
  <2>8. /\ drp \in Seq(Msgs)
        /\ ToSet(drp) \subseteq ToSet(q.dropped) \cup ToSet(SubSeq(q.items, 1, n))
        /\ ToSet(q.dropped) \subseteq ToSet(drp)
        /\ q.drop = "summarize" => ToSet(gone) \subseteq ToSet(drp)
    <3>1. q.dropped \o gone \in Seq(Msgs)
      BY <2>3, <2>6
    <3>2. ToSet(q.dropped \o gone) = ToSet(q.dropped) \cup ToSet(gone)
      <4> HIDE DEF q
      <4> QED
        BY <2>3, <2>6, ConcatElements
    <3> QED
      BY <2>3, <2>6, <3>1, <3>2
  <2> HIDE DEF its, drp, gone, kept
  <2>9. /\ next \in QueueType /\ next.items = its /\ next.dropped = drp
        /\ next.batch = q.batch /\ next.summary = q.summary /\ next.kind = q.kind
        /\ next.pc = q.pc
    <3> HIDE DEF q
    <3> QED
      BY <2>2, <2>7, <2>8 DEF QueueType
  <2> HIDE DEF next
  <2>10. /\ pushed \in RegType /\ pushed.map = k /\ pushed.created = r.created
         /\ pushed.callback = r.callback
         /\ \A j \in Objs : pushed.objs[j] = IF j = k THEN next ELSE r.objs[j]
    BY <2>2, <2>9, Replaced
  <2> HIDE DEF pushed
  <2>11. Busy(pushed.objs[pushed.map])
    <3>1. kept \in Seq(Msgs) /\ Len(Append(kept, m)) = Len(kept) + 1 /\ Len(kept) \in Nat
      BY <2>5, <2>6
    <3>2. its # <<>>
      BY <3>1 DEF its
    <3> QED
      BY <2>2, <2>9, <2>10, <3>2 DEF Busy
  <2>12. /\ reg' \in RegType /\ reg'.map = k /\ reg'.created = r.created
         /\ \A j \in Objs : Quiet(pushed.objs[j], reg'.objs[j])
         /\ Awake(reg')
    <3>1. CASE q.pc = "off" /\ reg.callback
      <4>1. reg' = Scheduled(pushed)
        BY <2>1, <3>1
      <4> QED
        BY <2>2, <2>10, <2>11, <4>1, ScheduledQuiet, ScheduledBusy DEF QuietReg
    <3>2. CASE ~(q.pc = "off" /\ reg.callback)
      <4>1. reg' = pushed
        BY <2>1, <3>2
      <4>2. \A j \in Objs : Quiet(pushed.objs[j], pushed.objs[j])
        BY <2>10, ObjectType DEF Quiet
      <4>3. Awake(pushed)
        BY <1>1, <2>2, <2>9, <2>10, <3>2 DEF Awake
      <4> QED
        BY <2>10, <4>1, <4>2, <4>3
    <3> QED
      BY <3>1, <3>2
  <2>13. \A j \in Objs : j # k => Quiet(reg.objs[j], reg'.objs[j])
    BY <2>2, <2>10, <2>12 DEF Quiet
  <2>14. /\ reg'.objs[k].items = its /\ reg'.objs[k].dropped = drp
         /\ SameRun(reg.objs[k], reg'.objs[k])
         /\ reg.objs[k].items = q.items /\ reg.objs[k].dropped = q.dropped
    <3>1. Quiet(reg.objs[k], q) /\ Quiet(next, reg'.objs[k])
      BY <2>2, <2>10, <2>12
    <3> HIDE DEF q
    <3> QED
      BY <2>9, <3>1 DEF Quiet, SameRun
  <2>15. n > 0 => ToSet(drp) # {} \/ evicted' # {}
    BY <1>4, <2>1, <2>3, <2>4, <2>6, <2>8
  <2>16. evicted \subseteq evicted' /\ evicted' \subseteq Msgs
    BY <2>1, <2>6 DEF Shape
  <2>17. PushedIn(m, k, n)
    <3>1. /\ ToSet(reg'.objs[k].dropped) = ToSet(drp)
          /\ ToSet(reg.objs[k].dropped) = ToSet(q.dropped)
          /\ reg'.objs[k].items = Append(Spliced(reg.objs[k].items, n), m)
      BY <2>6, <2>14 DEF its
    <3>2. reg'.map = k /\ reg'.created = r.created
      BY <2>12
    <3>3. m \notin ToSet(accepted)
      BY DEF Enqueue, Fresh
    <3> HIDE DEF k, q
    <3> QED
      BY <2>1, <2>2, <2>8, <2>12, <2>13, <2>14, <2>15, <2>16, <3>1, <3>2, <3>3, Zenon
         DEF PushedIn
  <2>18. n \in 0 .. Len(reg.objs[k].items)
    BY <2>4, <2>14
  <2> QED
    BY <2>2, <2>12, <2>17, <2>18
<1> QED
  BY <1>2, <1>3, <1>4

LEMMA AppendParts ==
  ASSUME NEW s \in Seq(Msgs), NEW x \in Msgs
  PROVE  /\ Append(s, x) \in Seq(Msgs) /\ Len(s) \in Nat
         /\ Len(Append(s, x)) = Len(s) + 1
         /\ \A p \in 1 .. Len(Append(s, x)) :
              \/ p \in 1 .. Len(s) /\ Append(s, x)[p] = s[p]
              \/ p = Len(s) + 1 /\ Append(s, x)[p] = x
         /\ \A p \in 1 .. Len(s) : p \in 1 .. Len(Append(s, x))
  OBVIOUS

LEMMA DistinctAppend ==
  ASSUME NEW s \in Seq(Msgs), NEW x \in Msgs, x \notin ToSet(s), Distinct(s)
  PROVE  Distinct(Append(s, x))
<1> DEFINE t == Append(s, x)
<1>1. /\ Len(s) \in Nat
      /\ \A p \in 1 .. Len(t) :
           \/ p \in 1 .. Len(s) /\ t[p] = s[p]
           \/ p = Len(s) + 1 /\ t[p] = x
  BY AppendParts
<1>2. \A p \in 1 .. Len(s) : s[p] # x
  BY ElementOf
<1> HIDE DEF t
<1> QED
  BY <1>1, <1>2 DEF Distinct, t

LEMMA PushContents ==
  ASSUME Shape, Slots, Known, Apart,
         NEW m, NEW k \in Objs, NEW n \in 0 .. Len(reg.objs[k].items), PushedIn(m, k, n)
  PROVE  /\ \A j \in Objs : j # k =>
              /\ reg'.objs[j].items = reg.objs[j].items
              /\ reg'.objs[j].dropped = reg.objs[j].dropped
              /\ reg'.objs[j].batch \in {reg.objs[j].batch, <<>>}
              /\ Items(j)' = Items(j) /\ Dropped(j)' = Dropped(j)
              /\ Batch(j)' \in {Batch(j), {}} /\ Held(j)' \subseteq Held(j)
              /\ Idle(reg.objs[j]) => Idle(reg'.objs[j])
         /\ reg'.objs[k].batch \in {reg.objs[k].batch, <<>>}
         /\ Batch(k)' \in {Batch(k), {}}
         /\ Items(k)' = ToSet(Spliced(reg.objs[k].items, n)) \cup {m}
         /\ Items(k)' \subseteq Items(k) \cup {m}
         /\ Items(k)' \cap Dropped(k)' = {}
         /\ Distinct(reg'.objs[k].items)
         /\ Held(k)' \subseteq Held(k) \cup {m}
         /\ m \notin Held(k) /\ m \notin ToSet(log) \cup cleared
<1> DEFINE o == reg.objs[k]
           q == reg'.objs[k]
           kept == Spliced(o.items, n)
           gone == SubSeq(o.items, 1, n)
<1>1. ASSUME NEW j \in Objs, j # k
      PROVE  /\ reg'.objs[j].items = reg.objs[j].items
             /\ reg'.objs[j].dropped = reg.objs[j].dropped
             /\ reg'.objs[j].batch \in {reg.objs[j].batch, <<>>}
             /\ Items(j)' = Items(j) /\ Dropped(j)' = Dropped(j)
             /\ Batch(j)' \in {Batch(j), {}} /\ Held(j)' \subseteq Held(j)
             /\ Idle(reg.objs[j]) => Idle(reg'.objs[j])
  <2>1. Quiet(reg.objs[j], reg'.objs[j])
    BY <1>1 DEF PushedIn
  <2>2. /\ reg'.objs[j].items = reg.objs[j].items
        /\ reg'.objs[j].dropped = reg.objs[j].dropped
        /\ reg'.objs[j].batch \in {reg.objs[j].batch, <<>>}
        /\ Idle(reg.objs[j]) => Idle(reg'.objs[j])
    BY <2>1 DEF Quiet
  <2>3. /\ Items(j)' = Items(j) /\ Dropped(j)' = Dropped(j)
        /\ Batch(j)' \in {Batch(j), {}}
    BY <2>2, EmptyElements DEF Items, Dropped, Batch
  <2> QED
    BY <2>2, <2>3 DEF Held
<1>2. /\ o.items \in Seq(Msgs) /\ m \in Msgs /\ m \notin ToSet(accepted)
      /\ Distinct(o.items) /\ Items(k) = ToSet(o.items) /\ Dropped(k) = ToSet(o.dropped)
      /\ Items(k) \cap Dropped(k) = {} /\ Held(k) \subseteq ToSet(accepted)
      /\ ToSet(log) \cup cleared \subseteq ToSet(accepted)
  BY NumbersAndObjects, ObjectType DEF PushedIn, Apart, Known, Items, Dropped
<1>3. /\ kept \in Seq(Msgs) /\ ToSet(gone) \subseteq ToSet(o.items)
      /\ ToSet(kept) \subseteq ToSet(o.items)
      /\ ToSet(gone) \cap ToSet(kept) = {}
      /\ Distinct(kept)
  BY <1>2, CutFacts, SplicedKeeps
<1>4. /\ q.items = Append(kept, m) /\ q.batch \in {o.batch, <<>>}
      /\ ToSet(q.dropped) \subseteq ToSet(o.dropped) \cup ToSet(gone)
  BY DEF PushedIn, SameRun
<1>5. m \notin Held(k) /\ m \notin ToSet(log) \cup cleared
  BY <1>2
<1>6. m \notin ToSet(o.items) /\ m \notin ToSet(o.dropped)
  BY <1>2, <1>5 DEF Held
<1> HIDE DEF kept, gone
<1>7. Items(k)' = ToSet(kept) \cup {m} /\ Dropped(k)' = ToSet(q.dropped)
  BY <1>2, <1>3, <1>4, AppendElements DEF Items, Dropped
<1>8. Distinct(q.items)
  BY <1>2, <1>3, <1>4, <1>6, DistinctAppend
<1>9. Batch(k)' \in {Batch(k), {}}
  BY <1>4, EmptyElements DEF Batch
<1>10. Items(k)' \subseteq Items(k) \cup {m}
  BY <1>2, <1>3, <1>7
<1>11. Items(k)' \cap Dropped(k)' = {}
  BY <1>2, <1>3, <1>4, <1>6, <1>7
<1>12. Held(k)' \subseteq Held(k) \cup {m}
  BY <1>2, <1>3, <1>4, <1>7, <1>9, <1>10 DEF Held
<1> QED
  BY <1>1, <1>4, <1>5, <1>7, <1>8, <1>9, <1>10, <1>11, <1>12 DEF kept

LEMMA PushSlots ==
  ASSUME Shape, Slots, Known, Apart,
         NEW m, NEW k \in Objs, NEW n \in 0 .. Len(reg.objs[k].items), PushedIn(m, k, n)
  PROVE  Slots'
<1> DEFINE o == reg.objs[k]
           q == reg'.objs[k]
<1>1. /\ reg'.map = k /\ k \in Nat /\ reg.created \in Nat /\ Objs \subseteq Nat
      /\ reg'.created \in Nat /\ k <= reg'.created /\ reg.created <= reg'.created
  BY NumbersAndObjects DEF PushedIn, Slots
<1>2. /\ o.items \in Seq(Msgs) /\ m \in Msgs /\ q.items = Append(Spliced(o.items, n), m)
      /\ SameRun(o, q) /\ m \notin ToSet(o.batch) /\ Len(o.batch) \in Nat
  <2>1. m \notin Batch(k)
    BY PushContents DEF Held
  <2> QED
    BY <2>1, NumbersAndObjects, ObjectType DEF PushedIn, Batch
<1>3. /\ o.pc # "running" => o.batch = <<>> /\ o.summary = <<>>
      /\ o.kind = "summary" => o.summary # <<>>
      /\ Removable(o)
  BY DEF Slots
<1>4. Removable(q)
  <2>1. q.kind # "collect" /\ q.pc = "running" => Len(q.batch) = 1
    BY <1>2, <1>3 DEF SameRun, Removable
  <2>2. ASSUME NEW p \in 1 .. Len(q.items), q.items[p] \in ToSet(q.batch)
        PROVE  p <= Len(q.batch)
    <3>1. q.batch = o.batch /\ q.items[p] \in ToSet(o.batch)
      BY <1>2, <2>2, EmptyElements DEF SameRun
    <3> DEFINE kept == Spliced(o.items, n)
    <3>2. /\ kept \in Seq(Msgs)
          /\ \A x \in 1 .. Len(kept) : x + n \in 1 .. Len(o.items) /\ kept[x] = o.items[x + n]
      BY <1>2, SplicedSeq
    <3> HIDE DEF kept
    <3>3. p \in 1 .. Len(kept) /\ q.items[p] = kept[p]
      BY <1>2, <2>2, <3>1, <3>2, AppendParts DEF kept
    <3>4. p + n <= Len(o.batch)
      BY <1>3, <3>1, <3>2, <3>3 DEF Removable
    <3> QED
      BY <1>2, <3>1, <3>3, <3>4
  <2> QED
    BY <2>1, <2>2 DEF Removable
<1>5. ASSUME NEW j \in Objs
      PROVE  /\ j > reg'.created => Idle(reg'.objs[j])
             /\ reg'.objs[j].pc # "running" =>
                  reg'.objs[j].batch = <<>> /\ reg'.objs[j].summary = <<>>
             /\ reg'.objs[j].kind = "summary" => reg'.objs[j].summary # <<>>
             /\ Removable(reg'.objs[j])
  <2>1. CASE j = k
    BY <1>1, <1>2, <1>3, <1>4, <2>1 DEF SameRun
  <2>2. CASE j # k
    <3>1. Quiet(reg.objs[j], reg'.objs[j])
      BY <2>2 DEF PushedIn
    <3>2. /\ j > reg'.created => j > reg.created
          /\ j > reg.created => Idle(reg.objs[j])
          /\ reg.objs[j].pc # "running" =>
               reg.objs[j].batch = <<>> /\ reg.objs[j].summary = <<>>
          /\ reg.objs[j].kind = "summary" => reg.objs[j].summary # <<>>
          /\ Removable(reg.objs[j])
      BY <1>1 DEF Slots
    <3>3. Removable(reg'.objs[j])
      BY <3>1, <3>2, EmptyElements DEF Quiet, Removable
    <3> QED
      BY <3>1, <3>2, <3>3 DEF Quiet
  <2> QED
    BY <2>1, <2>2
<1> QED
  BY <1>1, <1>5 DEF Slots

LEMMA PushApart ==
  ASSUME Shape, Slots, Known, Apart,
         NEW m, NEW k \in Objs, NEW n \in 0 .. Len(reg.objs[k].items), PushedIn(m, k, n)
  PROVE  Known' /\ Apart'
<1>1. /\ accepted' = Append(accepted, m) /\ m \in Msgs
      /\ UNCHANGED <<log, cleared>> /\ accepted \in Seq(Msgs)
      /\ m \notin ToSet(accepted)
  BY DEF PushedIn, Shape
<1>2. ToSet(accepted') = ToSet(accepted) \cup {m}
  BY <1>1, AppendElements
<1>3. \A j \in Objs : Held(j)' \subseteq Held(j) \cup {m} /\ (j # k => Held(j)' \subseteq Held(j))
  BY PushContents
<1>4. Known'
  BY <1>1, <1>2, <1>3 DEF Known
<1>5. ASSUME NEW j \in Objs
      PROVE  /\ Distinct(reg'.objs[j].items) /\ Distinct(reg'.objs[j].batch)
             /\ (Items(j)' \cup Batch(j)') \cap ToSet(log) = {}
             /\ Items(j)' \cap Dropped(j)' = {}
             /\ (Items(j)' \cup Batch(j)') \cap cleared = {}
  <2>1. Distinct(<<>>)
    BY DEF Distinct
  <2>2. /\ Distinct(reg.objs[j].items) /\ Distinct(reg.objs[j].batch)
        /\ (Items(j) \cup Batch(j)) \cap ToSet(log) = {}
        /\ Items(j) \cap Dropped(j) = {}
        /\ (Items(j) \cup Batch(j)) \cap cleared = {}
    BY DEF Apart
  <2>3. CASE j = k
    <3>1. Distinct(reg'.objs[j].items) /\ Distinct(reg'.objs[j].batch)
      BY <2>1, <2>2, <2>3, PushContents
    <3>2. /\ (Items(j)' \cup Batch(j)') \subseteq (Items(j) \cup Batch(j)) \cup {m}
          /\ Items(j)' \cap Dropped(j)' = {}
          /\ m \notin ToSet(log) /\ m \notin cleared
      <4>1. /\ Items(k)' \subseteq Items(k) \cup {m} /\ Items(k)' \cap Dropped(k)' = {}
            /\ Batch(k)' \subseteq Batch(k) /\ m \notin ToSet(log) /\ m \notin cleared
        BY PushContents
      <4> QED
        BY <2>3, <4>1
    <3> QED
      BY <2>2, <3>1, <3>2
  <2>4. CASE j # k
    <3>1. /\ reg'.objs[j].items = reg.objs[j].items
          /\ reg'.objs[j].batch \in {reg.objs[j].batch, <<>>}
          /\ Items(j)' = Items(j) /\ Dropped(j)' = Dropped(j)
          /\ Batch(j)' \in {Batch(j), {}}
      BY <2>4, PushContents
    <3> QED
      BY <2>1, <2>2, <3>1
  <2> QED
    BY <2>3, <2>4
<1>6. ASSUME NEW i \in Objs, NEW j \in Objs, i # j PROVE Held(i)' \cap Held(j)' = {}
  <2>1. Held(i) \cap Held(j) = {} /\ m \notin Held(i) /\ m \notin Held(j)
    BY <1>1, <1>6 DEF Apart, Known
  <2> QED
    BY <1>3, <1>6, <2>1
<1> QED
  BY <1>1, <1>4, <1>5, <1>6 DEF Apart, ClearedStaysCleared

LEMMA PushOneDrain ==
  ASSUME Shape, Slots, Known, Apart, OneDrain,
         NEW m, NEW k \in Objs, NEW n \in 0 .. Len(reg.objs[k].items), PushedIn(m, k, n)
  PROVE  /\ OneDrain'
         /\ reg.map \in Objs => k = reg.map
         /\ clears = 0 => \A j \in Objs : j # k => Idle(reg.objs[j]) /\ Idle(reg'.objs[j])
<1>1. /\ reg'.map = k /\ clears' = clears
      /\ k = reg.map \/ reg.map = NoQueue
  BY DEF PushedIn
<1>2. ASSUME clears = 0, NEW j \in Objs, j # k
      PROVE  Idle(reg.objs[j]) /\ Idle(reg'.objs[j])
  <2>1. Idle(reg.objs[j])
    BY <1>1, <1>2, NumbersAndObjects DEF OneDrain
  <2> QED
    BY <1>2, <2>1, PushContents
<1> QED
  BY <1>1, <1>2, NumbersAndObjects DEF OneDrain

LEMMA PushKept ==
  ASSUME Shape, Slots, Known, Apart, OneDrain, Kept,
         NEW m, NEW k \in Objs, NEW n \in 0 .. Len(reg.objs[k].items), PushedIn(m, k, n)
  PROVE  Kept'
<1> SUFFICES ASSUME ~Overflowed', clears = 0
             PROVE  Kept'
  BY DEF Kept, PushedIn
<1>1. /\ accepted' = Append(accepted, m) /\ UNCHANGED <<clears, log, reported>>
      /\ evicted \subseteq evicted' /\ m \in Msgs /\ accepted \in Seq(Msgs)
      /\ reg'.map = k /\ reg' \in RegType
  BY DEF PushedIn, Shape
<1>2. /\ reported = {} /\ evicted' = {}
      /\ \A j \in Objs : reg'.objs[j].dropped = <<>>
  BY <1>1 DEF Overflowed
<1>3. ToSet(reg'.objs[k].dropped) = {}
  BY <1>2, EmptyElements
<1>4. n = 0 /\ ToSet(reg.objs[k].dropped) = {}
  <2>1. n \in Nat
    BY NumbersAndObjects, ObjectType
  <2> QED
    BY <1>2, <1>3, <2>1 DEF PushedIn
<1>5. /\ reg.objs[k].items \in Seq(Msgs) /\ reg.objs[k].batch \in Seq(Msgs)
      /\ reg.objs[k].dropped \in Seq(Msgs)
      /\ \A j \in Objs : reg'.objs[j].items \in Seq(Msgs)
  BY <1>1, NumbersAndObjects, ObjectType
<1>6. reg.objs[k].dropped = <<>>
  BY <1>4, <1>5, EmptyElements
<1>7. ~Overflowed
  BY <1>1, <1>2, <1>6, PushContents DEF Overflowed
<1>8. reg'.objs[k].items = Append(reg.objs[k].items, m)
  BY <1>4, <1>5, CutFacts DEF PushedIn
<1>9. \A j \in Objs : Prefix(reg.objs[j].batch, reg.objs[j].items)
  BY <1>7 DEF Kept
<1>10. ASSUME NEW j \in Objs PROVE Prefix(reg'.objs[j].batch, reg'.objs[j].items)
  <2>1. Prefix(<<>>, reg'.objs[j].items)
    BY <1>5 DEF Prefix
  <2>2. CASE j # k
    <3>1. Prefix(reg.objs[j].batch, reg.objs[j].items)
      BY <1>9
    <3>2. /\ reg'.objs[j].items = reg.objs[j].items
          /\ reg'.objs[j].batch = reg.objs[j].batch \/ reg'.objs[j].batch = <<>>
      BY <1>1, <2>2, PushContents
    <3> QED
      BY <2>1, <3>1, <3>2
  <2>3. Prefix(reg.objs[k].batch, Append(reg.objs[k].items, m))
    <3>1. Prefix(reg.objs[k].batch, reg.objs[k].items)
      BY <1>1, <1>9
    <3> QED
      BY <1>5, <3>1 DEF Prefix
  <2> QED
    BY <1>8, <2>1, <2>2, <2>3, PushContents
<1>11. ASSUME NEW x \in ToSet(accepted'), x \notin ToSet(log)
       PROVE  x \in Items(k)'
  <2>1. x \in ToSet(accepted) \/ x = m
    BY <1>1, AppendElements
  <2>2. Items(k)' = Items(k) \cup {m}
    BY <1>1, <1>5, <1>8, AppendElements DEF Items
  <2>3. CASE x \in ToSet(accepted)
    <3> PICK j \in Objs : j = reg.map /\ x \in Items(j)
      BY <1>7, <1>11, <2>3 DEF Kept
    <3> QED
      BY <2>2, PushOneDrain
  <2> QED
    BY <2>1, <2>2, <2>3
<1> QED
  BY <1>1, <1>10, <1>11 DEF Kept

LEMMA BeforeGrows ==
  ASSUME accepted \in Seq(Msgs), NEW m \in Msgs, accepted' = Append(accepted, m)
  PROVE  /\ \A x, y : Before(x, y) => Before(x, y)'
         /\ \A x \in ToSet(accepted) : Before(x, m)'
<1>1. /\ Len(accepted) \in Nat /\ Len(accepted') = Len(accepted) + 1
      /\ \A a \in 1 .. Len(accepted) : accepted'[a] = accepted[a] /\ a \in 1 .. Len(accepted')
      /\ accepted'[Len(accepted) + 1] = m
  OBVIOUS
<1>2. ASSUME NEW x, NEW y, Before(x, y) PROVE Before(x, y)'
  <2> PICK a, b \in 1 .. Len(accepted) : a < b /\ accepted[a] = x /\ accepted[b] = y
    BY <1>2 DEF Before, Precedes
  <2> QED
    BY <1>1 DEF Before, Precedes
<1>3. ASSUME NEW x \in ToSet(accepted) PROVE Before(x, m)'
  <2> PICK a \in 1 .. Len(accepted) : accepted[a] = x
    BY ElementOf
  <2> DEFINE b == Len(accepted) + 1
  <2>1. a \in 1 .. Len(accepted') /\ b \in 1 .. Len(accepted') /\ a < b
    BY <1>1
  <2>2. accepted'[a] = x /\ accepted'[b] = m
    BY <1>1
  <2> QED
    BY <2>1, <2>2 DEF Before, Precedes
<1> QED
  BY <1>2, <1>3

LEMMA SortedAppend ==
  ASSUME accepted \in Seq(Msgs), NEW m \in Msgs, accepted' = Append(accepted, m),
         NEW s \in Seq(Msgs), Sorted(s), ToSet(s) \subseteq ToSet(accepted)
  PROVE  \A p, q \in 1 .. Len(Append(s, m)) :
           p < q => Precedes(accepted', Append(s, m)[p], Append(s, m)[q])
<1> DEFINE t == Append(s, m)
<1>1. /\ Len(s) \in Nat
      /\ \A p \in 1 .. Len(t) :
           \/ p \in 1 .. Len(s) /\ t[p] = s[p]
           \/ p = Len(s) + 1 /\ t[p] = m
  BY AppendParts
<1>2. /\ \A x, y : Before(x, y) => Before(x, y)'
      /\ \A x \in ToSet(accepted) : Before(x, m)'
  BY BeforeGrows
<1>3. \A p \in 1 .. Len(s) : Before(s[p], m)'
  BY <1>2, ElementOf
<1> HIDE DEF t
<1>4. ASSUME NEW p \in 1 .. Len(t), NEW q \in 1 .. Len(t), p < q
      PROVE  Before(t[p], t[q])'
  <2>1. p \in 1 .. Len(s) /\ t[p] = s[p]
    BY <1>1, <1>4
  <2>2. CASE q \in 1 .. Len(s) /\ t[q] = s[q]
    BY <1>2, <1>4, <2>1, <2>2 DEF Sorted
  <2>3. CASE t[q] = m
    BY <1>3, <2>1, <2>3
  <2> QED
    BY <1>1, <2>2, <2>3
<1> QED
  BY <1>4 DEF t, Before

LEMMA PushOrdered ==
  ASSUME Shape, Slots, Known, Apart, Ordered,
         NEW m, NEW k \in Objs, NEW n \in 0 .. Len(reg.objs[k].items), PushedIn(m, k, n)
  PROVE  Ordered'
<1>1. /\ accepted' = Append(accepted, m) /\ UNCHANGED <<clears, log>>
      /\ m \in Msgs /\ accepted \in Seq(Msgs)
      /\ reg'.objs[k].items = Append(Spliced(reg.objs[k].items, n), m)
  BY DEF PushedIn, Shape
<1> SUFFICES ASSUME clears = 0
             PROVE  Ordered'
  BY <1>1 DEF Ordered
<1>2. /\ \A x, y : Before(x, y) => Before(x, y)'
      /\ \A x \in ToSet(accepted) : Before(x, m)'
  BY <1>1, BeforeGrows DEF Known
<1>3. ASSUME NEW j \in Objs
      PROVE  /\ Sorted(reg.objs[j].items) /\ Sorted(reg.objs[j].batch)
             /\ AllBefore(ToSet(log), Items(j) \cup Batch(j))
             /\ AllBefore(Batch(j), Items(j) \ Batch(j))
             /\ Batch(j) \subseteq ToSet(accepted) /\ Items(j) \subseteq ToSet(accepted)
             /\ ToSet(log) \subseteq ToSet(accepted)
  BY DEF Ordered, Known, Held
<1>4. Sorted(log)'
  BY <1>1, <1>2 DEF Ordered, Sorted
<1>5. Sorted(reg.objs[k].items)'
  <2> DEFINE kept == Spliced(reg.objs[k].items, n)
  <2>1. reg.objs[k].items \in Seq(Msgs) /\ n \in Nat
    BY NumbersAndObjects, ObjectType
  <2>2. kept \in Seq(Msgs) /\ Sorted(kept) /\ ToSet(kept) \subseteq ToSet(accepted)
    BY <1>3, <2>1, SplicedSeq, SplicedElements, SplicedKeeps DEF Items, Known
  <2> HIDE DEF kept
  <2>3. \A p, q \in 1 .. Len(Append(kept, m)) :
          p < q => Precedes(accepted', Append(kept, m)[p], Append(kept, m)[q])
    BY <1>1, <2>2, SortedAppend
  <2> QED
    BY <1>1, <2>3 DEF Sorted, Before, kept
<1>6. ASSUME NEW j \in Objs
      PROVE  /\ Sorted(reg.objs[j].items)' /\ Sorted(reg.objs[j].batch)'
             /\ AllBefore(ToSet(log), Items(j) \cup Batch(j))'
             /\ AllBefore(Batch(j), Items(j) \ Batch(j))'
  <2>1. Sorted(reg.objs[j].items)'
    <3>1. j # k => reg'.objs[j].items = reg.objs[j].items
      BY PushContents
    <3> QED
      BY <1>2, <1>3, <1>5, <3>1 DEF Sorted
  <2>2. Sorted(reg.objs[j].batch)'
    <3>1. reg'.objs[j].batch \in {reg.objs[j].batch, <<>>}
      BY PushContents
    <3>2. CASE reg'.objs[j].batch = <<>>
      BY <3>2 DEF Sorted
    <3>3. CASE reg'.objs[j].batch = reg.objs[j].batch
      BY <1>2, <1>3, <3>3 DEF Sorted
    <3> QED
      BY <3>1, <3>2, <3>3
  <2>3. /\ Items(j)' \subseteq Items(j) \cup {m}
        /\ Batch(j)' \in {Batch(j), {}}
    BY PushContents
  <2>4. /\ \A x \in ToSet(log), y \in Items(j) \cup Batch(j) : Before(x, y)'
        /\ \A x \in Batch(j), y \in Items(j) \ Batch(j) : Before(x, y)'
    BY <1>2, <1>3 DEF AllBefore
  <2>5. \A x \in ToSet(log) \cup Batch(j) : Before(x, m)'
    BY <1>2, <1>3
  <2>6. AllBefore(ToSet(log), Items(j) \cup Batch(j))'
    BY <1>1, <2>3, <2>4, <2>5 DEF AllBefore
  <2>7. AllBefore(Batch(j), Items(j) \ Batch(j))'
    BY <2>3, <2>4, <2>5 DEF AllBefore
  <2> QED
    BY <2>1, <2>2, <2>6, <2>7
<1> QED
  BY <1>1, <1>4, <1>6 DEF Ordered

LEMMA EnqueueCore ==
  ASSUME Shape, Core, Fresh, Awake(reg),
         NEW m \in Msgs, NEW s \in Settings, Enqueue(m, s)
  PROVE  Core' /\ Awake(reg') /\ Shape'
<1>1. Awake(reg')
  BY EnqueueCases DEF Core
<1>2. UNCHANGED <<turn, fails, clears, log, reported, cleared>>
  BY DEF Enqueue
<1>3. CASE OpenedReg(reg, reg') /\ UNCHANGED messages
  <2>1. Shape'
    BY <1>2, <1>3 DEF Shape, messages, OpenedReg
  <2> QED
    BY <1>1, <1>3, <2>1, QuietCore DEF QuietStep
<1>4. ASSUME NEW k \in Objs, NEW n \in 0 .. Len(reg.objs[k].items), PushedIn(m, k, n)
      PROVE  Core' /\ Shape'
  <2>1. /\ reg' \in RegType /\ evicted' \subseteq Msgs
        /\ accepted' \in Seq(Msgs)
    BY <1>4 DEF PushedIn, Shape
  <2>2. Shape'
    BY <1>2, <2>1 DEF Shape
  <2> QED
    BY <1>4, <2>2, PushSlots, PushApart, PushOneDrain, PushKept, PushOrdered DEF Core
<1> QED
  BY <1>1, <1>3, <1>4, EnqueueCases DEF Core

-----------------------------------------------------------------------------
(* The queue is cleared.                                                   *)

LEMMA ClearCore ==
  ASSUME Shape, Core, Awake(reg), Clear
  PROVE  Core' /\ Awake(reg') /\ Shape'
<1> USE DEF Core
<1>1. /\ UNCHANGED <<turn, fails, accepted, log, reported, evicted>>
      /\ clears' = clears + 1 /\ clears' # 0 /\ clears' \in Nat
  BY DEF Clear, Shape
<1>2. OneDrain' /\ Kept' /\ Ordered'
  BY <1>1 DEF OneDrain, Kept, Ordered
<1>3. CASE reg.map = NoQueue
  <2>1. /\ reg' = [reg EXCEPT !.callback = FALSE] /\ cleared' = cleared
    BY <1>3 DEF Clear
  <2>2. /\ reg' \in RegType /\ reg'.objs = reg.objs /\ reg'.map = reg.map
        /\ reg'.created = reg.created
    BY <2>1, NumbersAndObjects DEF RegType
  <2>3. \A j \in Objs : /\ Items(j)' = Items(j) /\ Dropped(j)' = Dropped(j)
                        /\ Batch(j)' = Batch(j) /\ Held(j)' = Held(j)
    BY <2>2 DEF Items, Dropped, Batch, Held
  <2>4. Slots'
    BY <2>2 DEF Slots
  <2>5. Known' /\ Apart'
    BY <1>1, <2>1, <2>2, <2>3 DEF Known, Apart, ClearedStaysCleared
  <2>6. Shape' /\ Awake(reg')
    BY <1>1, <1>3, <2>1, <2>2 DEF Shape, Awake
  <2> QED
    BY <1>2, <2>4, <2>5, <2>6
<1>4. ASSUME NEW k \in Objs, k = reg.map
      PROVE  Core' /\ Awake(reg') /\ Shape'
  <2> DEFINE o == reg.objs[k]
             q == [o EXCEPT !.items = <<>>, !.dropped = <<>>, !.lastRun = FALSE]
             r == Put(reg, k, q)
  <2>0. /\ reg.map # NoQueue /\ reg \in RegType /\ o \in QueueType
        /\ o.batch \in Seq(Msgs) /\ log \in Seq(Msgs)
    BY <1>4, NumbersAndObjects, ObjectType DEF Shape
  <2>1. /\ reg' = [r EXCEPT !.map = NoQueue, !.callback = FALSE]
        /\ cleared' = cleared \cup
             ((ToSet(o.items) \cup ToSet(o.dropped)) \ ToSet(o.batch \o log))
    <3>1. /\ reg' = [reg EXCEPT !.objs[reg.map] =
                       [reg.objs[reg.map] EXCEPT !.items = <<>>, !.dropped = <<>>,
                                                 !.lastRun = FALSE],
                     !.map = NoQueue, !.callback = FALSE]
          /\ cleared' = cleared \cup
               ((ToSet(o.items) \cup ToSet(o.dropped)) \ ToSet(o.batch \o log))
      BY <1>4, <2>0 DEF Clear
    <3> QED
      BY <1>4, <3>1 DEF Put
  <2>2. cleared' = cleared \cup ((Items(k) \cup Dropped(k)) \ (Batch(k) \cup ToSet(log)))
    BY <2>0, <2>1, ConcatElements DEF Items, Dropped, Batch
  <2>3. /\ q \in QueueType /\ q.items = <<>> /\ q.dropped = <<>> /\ q.batch = o.batch
        /\ q.summary = o.summary /\ q.kind = o.kind /\ q.pc = o.pc
    <3> <<>> \in Seq(Msgs)
      OBVIOUS
    <3> QED
      BY <2>0 DEF QueueType
  <2> HIDE DEF q
  <2>4. /\ r \in RegType /\ r.created = reg.created
        /\ \A j \in Objs : r.objs[j] = IF j = k THEN q ELSE reg.objs[j]
    BY <2>0, <2>3, Replaced
  <2> HIDE DEF r
  <2>5. /\ reg' \in RegType /\ reg'.map = NoQueue /\ reg'.created = reg.created
        /\ \A j \in Objs : reg'.objs[j] = IF j = k THEN q ELSE reg.objs[j]
    BY <2>1, <2>4 DEF RegType
  <2>6. /\ Items(k)' = {} /\ Dropped(k)' = {} /\ Batch(k)' = Batch(k)
        /\ \A j \in Objs : j # k => /\ Items(j)' = Items(j) /\ Dropped(j)' = Dropped(j)
                                    /\ Batch(j)' = Batch(j) /\ Held(j)' = Held(j)
    BY <2>3, <2>5, EmptyElements DEF Items, Dropped, Batch, Held
  <2>7. Held(k)' \subseteq Held(k)
    BY <2>6 DEF Held
  <2>8. Slots'
    <3>1. Removable(q)
      BY <2>3 DEF Slots, Removable
    <3>2. k > reg.created => Idle(q)
      BY <2>3 DEF Slots, Idle
    <3>3. reg'.map <= reg'.created
      BY <2>5, NumbersAndObjects DEF NoQueue
    <3> QED
      BY <2>3, <2>5, <3>1, <3>2, <3>3 DEF Slots
  <2>9. Known'
    <3>1. cleared' \subseteq ToSet(accepted)
      BY <2>2 DEF Known, Held
    <3> QED
      BY <1>1, <2>6, <2>7, <3>1 DEF Known
  <2>10. ASSUME NEW j \in Objs
         PROVE  /\ Distinct(reg'.objs[j].items) /\ Distinct(reg'.objs[j].batch)
                /\ (Items(j)' \cup Batch(j)') \cap ToSet(log) = {}
                /\ Items(j)' \cap Dropped(j)' = {}
                /\ (Items(j)' \cup Batch(j)') \cap cleared' = {}
    <3>1. /\ Distinct(reg.objs[j].items) /\ Distinct(reg.objs[j].batch) /\ Distinct(<<>>)
          /\ (Items(j) \cup Batch(j)) \cap ToSet(log) = {}
          /\ Items(j) \cap Dropped(j) = {}
          /\ (Items(j) \cup Batch(j)) \cap cleared = {}
      BY DEF Apart, Distinct
    <3>2. CASE j = k
      BY <2>2, <2>3, <2>5, <2>6, <3>1, <3>2
    <3>3. CASE j # k
      <4>1. Held(j) \cap Held(k) = {}
        BY <3>3 DEF Apart
      <4>2. (Items(j) \cup Batch(j)) \cap (Items(k) \cup Dropped(k)) = {}
        BY <4>1 DEF Held
      <4> QED
        BY <2>2, <2>5, <2>6, <3>1, <3>3, <4>2
    <3> QED
      BY <3>2, <3>3
  <2>11. \A i, j \in Objs : i # j => Held(i)' \cap Held(j)' = {}
    BY <2>6, <2>7 DEF Apart
  <2>12. cleared' \cap ToSet(log) = {}
    BY <2>2 DEF Apart, ClearedStaysCleared
  <2>13. Apart'
    BY <1>1, <2>10, <2>11, <2>12 DEF Apart, ClearedStaysCleared
  <2>14. Shape'
    <3>1. cleared' \subseteq ToSet(accepted) /\ ToSet(accepted) \subseteq Msgs
      BY <2>2, ElementOf DEF Known, Held, Shape
    <3> QED
      BY <1>1, <2>5, <3>1 DEF Shape
  <2>15. Awake(reg')
    BY <2>5 DEF Awake
  <2> QED
    BY <1>2, <2>8, <2>9, <2>13, <2>14, <2>15
<1> QED
  BY <1>3, <1>4, NumbersAndObjects

-----------------------------------------------------------------------------
(* The inductive invariant.                                                *)

LEMMA IInvInit == Init => IInv
<1> SUFFICES ASSUME Init PROVE IInv
  OBVIOUS
<1> DEFINE s0 == [mode |-> "collect", cap |-> 1, drop |-> "unset"]
           o  == NewQueue(s0)
<1>1. MaxQueues \in Nat /\ <<>> \in Seq(Msgs)
  BY FollowupAssumption
<1>2. /\ o \in QueueType /\ Idle(o) /\ o.items = <<>> /\ o.dropped = <<>>
      /\ o.batch = <<>> /\ o.summary = <<>> /\ o.kind = "none" /\ o.pc = "off"
  BY <1>1 DEF NewQueue, QueueType, Idle
<1>3. /\ reg = [map |-> NoQueue, objs |-> [i \in Objs |-> o], created |-> 0,
                callback |-> FALSE]
      /\ recent = {} /\ arrived = {} /\ deciding = {} /\ forgotten = {}
      /\ clears = 0 /\ fails = 0
      /\ turn = [m \in Msgs |-> "none"]
      /\ accepted = <<>> /\ log = <<>> /\ reported = {} /\ evicted = {} /\ cleared = {}
  BY DEF Init
<1> HIDE DEF o
<1>4. /\ reg \in RegType /\ reg.map = NoQueue /\ reg.created = 0
      /\ \A i \in Objs : reg.objs[i] = o
  BY <1>1, <1>2, <1>3 DEF RegType, Objs
<1>5. Shape
  BY <1>1, <1>3, <1>4 DEF Shape
<1>6. \A i \in Objs : /\ Items(i) = {} /\ Dropped(i) = {} /\ Batch(i) = {}
                      /\ Held(i) = {}
  BY <1>2, <1>4, EmptyElements DEF Items, Dropped, Batch, Held
<1>7. Slots
  <2>1. Removable(o)
    BY <1>2 DEF Removable
  <2> QED
    BY <1>2, <1>4, <2>1 DEF Slots, NoQueue
<1>8. ToSet(log) = {} /\ ToSet(accepted) = {}
  BY <1>3, EmptyElements
<1>9. Distinct(<<>>) /\ Sorted(<<>>) /\ Prefix(<<>>, <<>>)
  BY DEF Distinct, Sorted, Prefix
<1>10. Known /\ Apart
  BY <1>2, <1>3, <1>4, <1>6, <1>8, <1>9 DEF Known, Apart, ClearedStaysCleared
<1>11. OneDrain /\ Kept /\ DrainAlive
  BY <1>2, <1>3, <1>4, <1>8, <1>9 DEF OneDrain, Kept, DrainAlive
<1>12. Ordered
  BY <1>2, <1>3, <1>4, <1>6, <1>8, <1>9 DEF Ordered, AllBefore
<1>13. Fresh /\ Remembered
  BY <1>3, <1>8 DEF Fresh, Remembered
<1> QED
  BY <1>5, <1>7, <1>10, <1>11, <1>12, <1>13 DEF IInv

(* Who may still be accepted, and what the cache tells of those who were. *)
LEMMA FreshStep ==
  ASSUME Shape, Fresh, Remembered, [Next]_vars
  PROVE  Fresh' /\ Remembered'
<1>1. ASSUME UNCHANGED <<recent, arrived, deciding, accepted, forgotten>>
      PROVE  Fresh' /\ Remembered'
  BY <1>1 DEF Fresh, Remembered
<1>2. ASSUME NEW m \in Msgs, RunNow(m) \/ Decide(m) PROVE Fresh' /\ Remembered'
  <2>1. /\ m \notin arrived /\ arrived' = arrived \cup {m}
        /\ deciding' \subseteq deciding \cup {m}
        /\ UNCHANGED <<recent, accepted, forgotten>>
    BY <1>2 DEF RunNow, Decide, history
  <2> QED
    BY <2>1 DEF Fresh, Remembered
<1>3. ASSUME NEW d \in Expiring, Forget(d) PROVE Fresh' /\ Remembered'
  <2>1. /\ d \in recent /\ recent' = recent \ {d} /\ forgotten' = forgotten \cup {d}
        /\ UNCHANGED <<arrived, deciding, accepted>>
    BY <1>3 DEF Forget
  <2> QED
    BY <2>1 DEF Fresh, Remembered
<1>4. ASSUME NEW m \in Msgs, NEW s \in Settings, Enqueue(m, s)
      PROVE  Fresh' /\ Remembered'
  <2>1. /\ m \in deciding /\ deciding' = deciding \ {m}
        /\ UNCHANGED <<arrived, forgotten>>
        /\ \/ UNCHANGED <<recent, accepted>>
           \/ /\ IdOf[m] \notin recent
              /\ recent' = Remembering(m) /\ accepted' = Append(accepted, m)
    BY <1>4 DEF Enqueue
  <2>2. CASE UNCHANGED <<recent, accepted>>
    BY <2>1, <2>2 DEF Fresh, Remembered
  <2>3. CASE /\ IdOf[m] \notin recent
             /\ recent' = Remembering(m) /\ accepted' = Append(accepted, m)
    <3>1. ToSet(accepted') = ToSet(accepted) \cup {m}
      BY <2>3, AppendElements DEF Shape
    <3>2. Fresh'
      BY <2>1, <3>1 DEF Fresh
    <3>3. /\ recent' \subseteq recent \cup {IdOf[m]} /\ recent \subseteq recent'
          /\ IdOf[m] \in recent' \cup {NoId} /\ NoId \notin recent'
      BY <2>3 DEF Remembering, Remembered
    <3>4. \A n \in ToSet(accepted) : IdOf[n] = IdOf[m] => IdOf[n] \in forgotten \cup {NoId}
      BY <2>3 DEF Remembered
    <3>5. \A n \in ToSet(accepted') : IdOf[n] \in recent' \cup forgotten \cup {NoId}
      BY <3>1, <3>3 DEF Remembered
    <3>6. \A n, o \in ToSet(accepted') :
            n # o /\ IdOf[n] = IdOf[o] => IdOf[n] \in forgotten \cup {NoId}
      BY <3>1, <3>4 DEF Remembered
    <3> QED
      BY <2>1, <3>2, <3>3, <3>5, <3>6 DEF Remembered
  <2> QED
    BY <2>1, <2>2, <2>3
<1>5. ASSUME NEW m \in Msgs, TurnEnds(m) \/ Finalize(m) PROVE Fresh' /\ Remembered'
  BY <1>1, <1>5 DEF TurnEnds, Finalize, history
<1>6. ASSUME NEW i \in Objs, Wake(i) \/ RunReturns(i) \/ RunThrows(i)
      PROVE  Fresh' /\ Remembered'
  BY <1>1, <1>6 DEF Wake, RunReturns, RunThrows, history
<1>7. CASE Clear
  BY <1>1, <1>7 DEF Clear
<1>8. CASE UNCHANGED vars
  BY <1>1, <1>8 DEF vars
<1> QED
  BY <1>2, <1>3, <1>4, <1>5, <1>6, <1>7, <1>8 DEF Next

LEMMA IInvNext == IInv /\ [Next]_vars => IInv'
<1> SUFFICES ASSUME IInv, [Next]_vars PROVE IInv'
  OBVIOUS
<1>1. Shape /\ Core /\ Awake(reg) /\ reg \in RegType /\ Fresh /\ Remembered
  BY DEF IInv, Core, DrainAlive, Awake, Shape
<1> SUFFICES Shape' /\ Core' /\ Awake(reg')
  BY <1>1, FreshStep DEF IInv, Core, DrainAlive, Awake
<1>2. ASSUME QuietReg(reg, reg'), UNCHANGED messages, Awake(reg'),
             fails' \in Nat,
             turn' \in [Msgs -> {"none", "running", "ended", "done"}]
      PROVE  Shape' /\ Core' /\ Awake(reg')
  <2>1. Shape'
    BY <1>1, <1>2 DEF Shape, messages, QuietReg
  <2> QED
    BY <1>1, <1>2, <2>1, QuietCore DEF QuietStep
<1>3. QuietReg(reg, reg)
  BY <1>1, ObjectType DEF QuietReg, Quiet
<1>4. ASSUME (\E m \in Msgs : RunNow(m) \/ Decide(m) \/ TurnEnds(m))
             \/ (\E d \in Expiring : Forget(d))
      PROVE  Shape' /\ Core' /\ Awake(reg')
  <2>1. reg' = reg /\ UNCHANGED messages /\ fails' = fails
    BY <1>4 DEF RunNow, Decide, TurnEnds, Forget, messages, history
  <2>2. turn' \in [Msgs -> {"none", "running", "ended", "done"}]
    BY <1>1, <1>4 DEF RunNow, Decide, TurnEnds, Forget, Shape
  <2>3. fails' \in Nat
    BY <1>1, <2>1 DEF Shape
  <2> QED
    BY <1>1, <1>2, <1>3, <2>1, <2>2, <2>3
<1>5. ASSUME NEW m \in Msgs, Finalize(m) PROVE Shape' /\ Core' /\ Awake(reg')
  <2>1. reg' = Scheduled(reg) /\ UNCHANGED messages /\ fails' = fails
    BY <1>5 DEF Finalize, messages, history
  <2>2. turn' \in [Msgs -> {"none", "running", "ended", "done"}]
    BY <1>1, <1>5 DEF Finalize, Shape
  <2>3. fails' \in Nat
    BY <1>1, <2>1 DEF Shape
  <2> QED
    BY <1>1, <1>2, <2>1, <2>2, <2>3, ScheduledQuiet
<1>6. ASSUME NEW m \in Msgs, NEW s \in Settings, Enqueue(m, s)
      PROVE  Shape' /\ Core' /\ Awake(reg')
  BY <1>1, <1>6, EnqueueCore
<1>7. ASSUME NEW i \in Objs, Wake(i) PROVE Shape' /\ Core' /\ Awake(reg')
  <2>1. /\ reg' = Woken(reg, i) /\ reg.objs[i].pc = "debounce"
        /\ UNCHANGED messages /\ UNCHANGED <<turn, fails>>
    BY <1>7 DEF Wake, messages, history
  <2>2. /\ turn' \in [Msgs -> {"none", "running", "ended", "done"}]
        /\ fails' \in Nat
    BY <1>1, <2>1 DEF Shape
  <2>3. Awake(reg') /\ (QuietReg(reg, reg') \/ StartedIn(reg, i, reg'))
    BY <1>1, <2>1, WokenCases
  <2>4. CASE StartedIn(reg, i, reg')
    <3>1. Shape'
      BY <1>1, <2>1, <2>2, <2>4 DEF Shape, messages, StartedIn
    <3> QED
      BY <1>1, <2>1, <2>3, <2>4, <3>1, StartCore
  <2> QED
    BY <1>2, <2>1, <2>2, <2>3, <2>4
<1>8. ASSUME NEW i \in Objs, RunReturns(i) PROVE Shape' /\ Core' /\ Awake(reg')
  <2>1. Core' /\ Awake(reg')
    BY <1>1, <1>8, ReturnCore
  <2>2. reg' \in RegType /\ log' \in Seq(Msgs)
    BY <1>1, <1>8, ReturnContents, ReturnLog DEF Core, ReturnedIn
  <2>3. reported' \subseteq Msgs
    <3>1. reg.objs[i].summary \in Seq(Msgs) /\ reported \subseteq Msgs
      BY <1>1, ObjectType DEF Shape
    <3> QED
      BY <1>8, <3>1, ElementOf DEF RunReturns
  <2>4. UNCHANGED <<turn, clears, fails, accepted, evicted, cleared>>
    BY <1>8 DEF RunReturns
  <2> QED
    BY <1>1, <2>1, <2>2, <2>3, <2>4 DEF Shape
<1>9. ASSUME NEW i \in Objs, RunThrows(i) PROVE Shape' /\ Core' /\ Awake(reg')
  <2>1. /\ reg' = Exited(reg, i) /\ reg.objs[i].pc # "off" /\ fails' = fails + 1
        /\ UNCHANGED messages /\ turn' = turn
    BY <1>9 DEF RunThrows, messages, history
  <2>2. /\ turn' \in [Msgs -> {"none", "running", "ended", "done"}]
        /\ fails' \in Nat
    BY <1>1, <2>1 DEF Shape
  <2> QED
    BY <1>1, <1>2, <2>1, <2>2, ExitedQuiet
<1>10. CASE Clear
  BY <1>1, <1>10, ClearCore
<1>11. CASE UNCHANGED vars
  <2>1. reg' = reg /\ UNCHANGED messages /\ UNCHANGED <<turn, fails>>
    BY <1>11 DEF vars, messages
  <2>2. /\ turn' \in [Msgs -> {"none", "running", "ended", "done"}]
        /\ fails' \in Nat
    BY <1>1, <2>1 DEF Shape
  <2> QED
    BY <1>1, <1>2, <1>3, <2>1, <2>2
<1> QED
  BY <1>4, <1>5, <1>6, <1>7, <1>8, <1>9, <1>10, <1>11 DEF Next

LEMMA Invariance == Spec => []IInv
  BY IInvInit, IInvNext, PTL DEF Spec

-----------------------------------------------------------------------------
(* The theorems.                                                           *)

(* Every reachable state is well typed: the maps and the drains of         *)
(* queue/state.ts and queue/drain.ts hold what their types say.            *)
THEOREM TypeCorrect == Spec => []TypeOK
<1>1. ASSUME IInv PROVE TypeOK
  <2>1. Shape
    BY <1>1 DEF IInv
  <2>2. ToSet(accepted) \subseteq Msgs /\ ToSet(log) \subseteq Msgs
    BY <2>1, ElementOf DEF Shape
  <2> QED
    BY <1>1, <2>1, <2>2 DEF IInv, Shape, Fresh, Remembered, TypeOK
<1> QED
  BY <1>1, Invariance, PTL

(* No delivery is part of the prompt of two followup runs that returned,   *)
(* although runFollowup may throw and retry and items are removed by       *)
(* position after the await; a message that is delivered again neither, as *)
(* long as RECENT_QUEUE_MESSAGE_IDS has not dropped its id.                *)
THEOREM RunsOnce == Spec => []RunOnce
<1>1. ASSUME IInv PROVE RunOnce
  <2> SUFFICES ASSUME NEW i \in 1 .. Len(log), NEW j \in 1 .. Len(log), i # j
               PROVE  /\ log[i] # log[j]
                      /\ IdOf[log[i]] = IdOf[log[j]] =>
                           IdOf[log[i]] \in forgotten \cup {NoId}
    BY DEF RunOnce
  <2>1. log[i] # log[j]
    BY <1>1 DEF IInv, Apart, Distinct
  <2>2. log[i] \in ToSet(accepted) /\ log[j] \in ToSet(accepted)
    <3>1. log[i] \in ToSet(log) /\ log[j] \in ToSet(log)
      BY <1>1, ElementOf DEF IInv, Shape
    <3> QED
      BY <1>1, <3>1 DEF IInv, Known
  <2> QED
    BY <1>1, <2>1, <2>2 DEF IInv, Remembered
<1> QED
  BY <1>1, Invariance, PTL

(* Followup runs answer messages in the order enqueueFollowupRun accepted  *)
(* them, until the queue is cleared.                                       *)
THEOREM RunsInOrder == Spec => []InOrder
<1>1. ASSUME IInv PROVE InOrder
  BY <1>1 DEF IInv, Ordered, Sorted, Before, Precedes, InOrder
<1> QED
  BY <1>1, Invariance, PTL

(* While nothing overflowed and nothing was cleared, an accepted message   *)
(* is logged or sits in the mapped queue.                                  *)
THEOREM NothingLost == Spec => []NoSilentLoss
<1>1. ASSUME IInv PROVE NoSilentLoss
  <2> SUFFICES ASSUME ~Overflowed, clears = 0, NEW m \in ToSet(accepted), m \notin ToSet(log)
               PROVE  Waiting(m)
    BY DEF NoSilentLoss
  <2>1. PICK i \in Objs : i = reg.map /\ m \in Items(i)
    BY <1>1 DEF IInv, Kept
  <2> DEFINE o == reg.objs[i]
  <2>2. /\ o.items \in Seq(Msgs) /\ o.dropped \in Seq(Msgs) /\ o.batch \in Seq(Msgs)
    BY <1>1, NumbersAndObjects, ObjectType DEF IInv
  <2> HIDE DEF o
  <2>3. m \in ToSet(o.items \o o.dropped \o o.batch)
    <3> DEFINE u == o.items \o o.dropped
    <3>1. u \in Seq(Msgs)
      BY <2>2
    <3>2. ToSet(u) = ToSet(o.items) \cup ToSet(o.dropped)
      BY <2>2, ConcatElements
    <3> HIDE DEF u
    <3>3. ToSet(u \o o.batch) = ToSet(u) \cup ToSet(o.batch)
      BY <2>2, <3>1, ConcatElements
    <3> QED
      BY <2>1, <3>2, <3>3 DEF Items, o, u
  <2> QED
    BY <2>1, <2>3 DEF Waiting, o
<1> QED
  BY <1>1, Invariance, PTL

(* A mapped queue with work and a cached callback has a drain running.     *)
THEOREM DrainStaysAlive == Spec => []DrainAlive
<1>1. IInv => DrainAlive
  BY DEF IInv
<1> QED
  BY <1>1, Invariance, PTL

(* What clearSessionQueues removed is never answered by a later run.       *)
THEOREM ClearedNeverRuns == Spec => []ClearedStaysCleared
<1>1. IInv => ClearedStaysCleared
  BY DEF IInv, Apart
<1> QED
  BY <1>1, Invariance, PTL


=============================================================================
