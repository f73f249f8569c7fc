-------------------------- MODULE CronServiceProofs --------------------------
(***************************************************************************)
(* CronService for any jobs, schedules, bounds and interleavings.  First   *)
(* the markers: one execution of a job at a time, and no marker without an *)
(* execution.  Then the slots: a service with a job to run has a timer     *)
(* armed, a due slot is not dropped, and no tick runs a job inside its     *)
(* error backoff.                                                          *)
(***************************************************************************)
EXTENDS CronService, WellFoundedInduction, TLAPS

-----------------------------------------------------------------------------
(* Shapes. *)

JobShape ==
  [enabled : BOOLEAN, at : Int, next : Int, running : Int, lastRun : Int,
   status : AllResults \cup {"none", "error"}, errs : Int]

RunShape ==
  [job : Jobs, by : {"tick", "manual", "catchup"},
   stage : {"checked", "marked", "executing", "done"},
   began : Nat, ended : Int, result : AllResults \cup {"none"},
   force : BOOLEAN, freed : BOOLEAN]

JobsShape(J) ==
  /\ DOMAIN J \subseteq Jobs
  /\ J \in [DOMAIN J -> JobShape]

LEMMA NextRunInt ==
  ASSUME NEW j \in Jobs, NEW r \in JobShape, NEW t \in Int
  PROVE  NextRun(j, r, t) \in Int
<1>1. Kind[j] \in Kinds /\ Period \in Nat \ {0} /\ r.enabled \in BOOLEAN
  BY CronAssumption DEF JobShape
<1>2. SlotAfter(t) \in Int /\ AnchorSlot(t) \in Int
  BY <1>1 DEF SlotAfter, AnchorSlot, Bigger
<1>3. r.lastRun + Period \in Int /\ r.at \in Int /\ None \in Int
  BY <1>1 DEF JobShape, None
<1>4. CASE ~r.enabled
  BY <1>3, <1>4 DEF NextRun
<1>5. CASE r.enabled /\ Kind[j] = "cron"
  BY <1>2, <1>5 DEF NextRun
<1>6. CASE r.enabled /\ Kind[j] = "every"
  BY <1>2, <1>3, <1>6 DEF NextRun
<1>7. CASE r.enabled /\ Kind[j] = "at"
  BY <1>3, <1>7 DEF NextRun
<1> QED
  BY <1>1, <1>4, <1>5, <1>6, <1>7 DEF Kinds

(* What the maintenance of the slots may do to a job's marker: take it     *)
(* away from a job that is disabled or whose marker is stuck.              *)
Kept(r, s, t) ==
  /\ s \in JobShape /\ s.enabled = r.enabled
  /\ \/ s.running = r.running
     \/ s.running = None /\ (~s.enabled \/ IsStuck(r, t))

LEMMA NormalisedKept ==
  ASSUME NEW r \in JobShape, NEW t
  PROVE  Kept(r, Normalised(r, t), t)
<1>1. None \in Int
  BY DEF None
<1>2. CASE ~r.enabled
  <2>1. Normalised(r, t) = [r EXCEPT !.next = None, !.running = None]
    BY <1>2 DEF Normalised
  <2> QED
    BY <1>1, <1>2, <2>1 DEF Kept, JobShape
<1>3. CASE r.enabled /\ IsStuck(r, t)
  <2>1. Normalised(r, t) = [r EXCEPT !.running = None]
    BY <1>3 DEF Normalised
  <2> QED
    BY <1>1, <1>3, <2>1 DEF Kept, JobShape
<1>4. CASE r.enabled /\ ~IsStuck(r, t)
  <2>1. Normalised(r, t) = r
    BY <1>4 DEF Normalised
  <2>2. Kept(r, r, t)
    BY DEF Kept
  <2> QED
    BY <2>1, <2>2, Zenon
<1> QED
  BY <1>2, <1>3, <1>4

LEMMA RefreshedKept ==
  ASSUME NEW j \in Jobs, NEW r \in JobShape, NEW t \in Int, NEW s, Kept(r, s, t)
  PROVE  Kept(r, [s EXCEPT !.next = NextRun(j, s, t)], t)
<1>1. NextRun(j, s, t) \in Int
  BY NextRunInt DEF Kept
<1> QED
  BY <1>1 DEF Kept, JobShape

LEMMA RecomputedKept ==
  ASSUME NEW J, JobsShape(J), NEW t \in Int
  PROVE  /\ JobsShape(Recomputed(J, t)) /\ DOMAIN Recomputed(J, t) = DOMAIN J
         /\ \A j \in DOMAIN J : Kept(J[j], Recomputed(J, t)[j], t)
<1>1. ASSUME NEW j \in DOMAIN J PROVE Kept(J[j], Recomputed(J, t)[j], t)
  <2>1. J[j] \in JobShape /\ j \in Jobs
    BY DEF JobsShape
  <2>2. \/ Recomputed(J, t)[j] = Normalised(J[j], t)
        \/ Recomputed(J, t)[j] = [Normalised(J[j], t) EXCEPT !.next = NextRun(j, Normalised(J[j], t), t)]
    BY DEF Recomputed, Walked
  <2> QED
    BY <2>1, <2>2, NormalisedKept, RefreshedKept
<1>2. DOMAIN Recomputed(J, t) = DOMAIN J
  BY DEF Recomputed, Walked
<1>3. Recomputed(J, t) = [j \in DOMAIN J |-> Recomputed(J, t)[j]]
  BY DEF Recomputed, Walked
<1>4. Recomputed(J, t) \in [DOMAIN J -> JobShape]
  BY <1>1, <1>3 DEF Kept
<1> QED
  BY <1>1, <1>2, <1>4 DEF JobsShape

LEMMA MaintainedKept ==
  ASSUME NEW J, JobsShape(J), NEW t \in Int, NEW e \in BOOLEAN
  PROVE  /\ JobsShape(Maintained(J, t, e)) /\ DOMAIN Maintained(J, t, e) = DOMAIN J
         /\ \A j \in DOMAIN J : Kept(J[j], Maintained(J, t, e)[j], t)
<1>1. ASSUME NEW j \in DOMAIN J PROVE Kept(J[j], Maintained(J, t, e)[j], t)
  <2>1. J[j] \in JobShape /\ j \in Jobs
    BY DEF JobsShape
  <2>2. \/ Maintained(J, t, e)[j] = Normalised(J[j], t)
        \/ Maintained(J, t, e)[j] = [Normalised(J[j], t) EXCEPT !.next = NextRun(j, Normalised(J[j], t), t)]
    BY DEF Maintained, Walked
  <2> QED
    BY <2>1, <2>2, NormalisedKept, RefreshedKept
<1>2. DOMAIN Maintained(J, t, e) = DOMAIN J
  BY DEF Maintained, Walked
<1>3. Maintained(J, t, e) = [j \in DOMAIN J |-> Maintained(J, t, e)[j]]
  BY DEF Maintained, Walked
<1>4. Maintained(J, t, e) \in [DOMAIN J -> JobShape]
  BY <1>1, <1>3 DEF Kept
<1> QED
  BY <1>1, <1>2, <1>4 DEF JobsShape

LEMMA AppliedShape ==
  ASSUME NEW j \in Jobs, NEW old \in JobShape, NEW run \in RunShape
  PROVE  Applied(j, old, run) \in JobShape /\ Applied(j, old, run).running = None
<1> DEFINE failed == run.result \in Failures
           errs == IF failed THEN old.errs + 1 ELSE 0
           r == [old EXCEPT !.running = None, !.lastRun = run.began,
                            !.status = IF failed THEN "error" ELSE run.result,
                            !.errs = Smaller(errs, 2)]
           lastRun == IF run.force /\ Kind[j] = "every" THEN old.lastRun ELSE run.began
<1>1. errs \in Int /\ Smaller(errs, 2) \in Int /\ lastRun \in Int /\ None \in Int
  BY DEF JobShape, RunShape, Smaller, None
<1>2. r \in JobShape /\ r.running = None
  <2>1. (IF failed THEN "error" ELSE run.result) \in AllResults \cup {"none", "error"}
    BY DEF RunShape
  <2>2. run.began \in Int
    BY DEF RunShape
  <2> HIDE DEF failed, errs
  <2> QED
    BY <1>1, <2>1, <2>2 DEF JobShape
<1>3. \A x \in Int : [r EXCEPT !.next = x] \in JobShape /\ [r EXCEPT !.next = x].running = None
  <2> HIDE DEF r
  <2> QED
    BY <1>2 DEF JobShape
<1>4. [r EXCEPT !.enabled = FALSE, !.next = None] \in JobShape
      /\ [r EXCEPT !.enabled = FALSE, !.next = None].running = None
  <2> HIDE DEF r
  <2> QED
    BY <1>1, <1>2 DEF JobShape
<1>5. run.ended \in Int /\ \A x : Backoff(x) \in Int
  BY CronAssumption DEF RunShape, Backoff
<1>6. RecurringNext(j, r, run, lastRun) \in Int
  <2>1. [r EXCEPT !.lastRun = lastRun] \in JobShape
    BY <1>1, <1>2 DEF JobShape
  <2>2. NextRun(j, [r EXCEPT !.lastRun = lastRun], run.ended) \in Int
    BY <1>5, <2>1, NextRunInt
  <2>3. r.enabled \in BOOLEAN /\ Gap \in Int
    BY <1>2, CronAssumption DEF JobShape
  <2> HIDE DEF r, lastRun
  <2>4. CASE ~r.enabled
    BY <1>1, <2>4 DEF RecurringNext
  <2>5. CASE r.enabled /\ run.result \in Failures
    BY <1>5, <2>2, <2>5 DEF RecurringNext, Bigger
  <2>6. CASE r.enabled /\ run.result \notin Failures
    BY <1>5, <2>2, <2>3, <2>6 DEF RecurringNext, Bigger
  <2> QED
    BY <2>3, <2>4, <2>5, <2>6
<1>7. Applied(j, old, run) =
        IF Kind[j] = "at"
          THEN IF run.result = "transient" /\ errs <= MaxAttempts
                 THEN [r EXCEPT !.next = run.ended + Backoff(errs)]
                 ELSE [r EXCEPT !.enabled = FALSE, !.next = None]
          ELSE [r EXCEPT !.next = RecurringNext(j, r, run, lastRun)]
  BY DEF Applied
<1> HIDE DEF r, errs, lastRun, failed
<1> QED
  BY <1>3, <1>4, <1>5, <1>6, <1>7

Finished(fin) == {run.job : run \in fin}

(* The outcomes of some runs: their jobs lose the marker, or are deleted.  *)
LEMMA OutcomesAre ==
  ASSUME NEW J, JobsShape(J), NEW fin \in SUBSET RunShape
  PROVE  /\ JobsShape(Outcomes(J, fin))
         /\ DOMAIN Outcomes(J, fin) \subseteq DOMAIN J
         /\ \A j \in DOMAIN J \ Finished(fin) :
              j \in DOMAIN Outcomes(J, fin) /\ Outcomes(J, fin)[j] = J[j]
         /\ \A j \in DOMAIN Outcomes(J, fin) :
              j \in Finished(fin) => Outcomes(J, fin)[j].running = None
<1> DEFINE Run(j) == CHOOSE run \in fin : run.job = j
           kept == {j \in DOMAIN J : j \in Finished(fin) => ~ Deletes(j, Run(j))}
           O == [j \in kept |-> IF j \in Finished(fin) THEN Applied(j, J[j], Run(j)) ELSE J[j]]
<1>1. Outcomes(J, fin) = O
  BY DEF Outcomes, Finished
<1>2. ASSUME NEW j \in kept, j \in Finished(fin)
      PROVE  Applied(j, J[j], Run(j)) \in JobShape /\ Applied(j, J[j], Run(j)).running = None
  <2>1. Run(j) \in fin
    BY <1>2 DEF Finished
  <2>2. J[j] \in JobShape /\ j \in Jobs /\ Run(j) \in RunShape
    BY <2>1 DEF JobsShape
  <2> HIDE DEF Run
  <2> QED
    BY <2>2, AppliedShape
<1>3. \A j \in kept : J[j] \in JobShape /\ j \in Jobs
  BY DEF JobsShape
<1> HIDE DEF Run
<1>4. O \in [kept -> JobShape]
  BY <1>2, <1>3
<1> QED
  BY <1>1, <1>2, <1>3, <1>4 DEF JobsShape

-----------------------------------------------------------------------------
(* The invariant. *)

Started(run) == run.stage # "checked"

(* Every marker has a run that will take it away. *)
Owned(J, R) ==
  \A j \in DOMAIN J : J[j].running # None => \E run \in R : run.job = j /\ Started(run)

(* A run that its job's marker protects. *)
Protected(run) == Started(run) /\ ~ run.freed

(* Every run that was not freed is protected by its job's marker. *)
Guarded(J, R) ==
  \A run \in R : Protected(run) => run.job \in DOMAIN J /\ J[run.job].running # None

Single(R) == \A a, b \in R : Protected(a) /\ Protected(b) /\ a.job = b.job => a = b

Shape ==
  /\ now \in Nat
  /\ JobsShape(jobs)
  /\ DOMAIN jobs \subseteq used
  /\ runs \subseteq RunShape

Safe ==
  /\ Guarded(jobs, runs) /\ Single(runs)
  /\ phase = "down" => runs = {} /\ tick = "idle"
  /\ phase # "down" => Owned(jobs, runs)

IInv == Shape /\ Safe

(* The reasons for which a run is freed. *)
Excusable(run, J, done) ==
  \/ run.freed
  \/ /\ run.stage # "checked"
     /\ run.job \in DOMAIN jobs => jobs[run.job].running # None
     /\ \/ run.job \notin DOMAIN J
        \/ J[run.job].running = None
     /\ \/ run.job \notin DOMAIN J
        \/ ~ J[run.job].enabled
        \/ run.job \in DOMAIN jobs /\ IsStuck(jobs[run.job], now)
        \/ run.job \in done

LEMMA FreedIs ==
  ASSUME NEW rs \in SUBSET RunShape, NEW J, NEW done, NEW x \in Freed(rs, J, done)
  PROVE  \E run \in rs : /\ x \in RunShape /\ x.job = run.job /\ x.stage = run.stage
                         /\ x = [run EXCEPT !.freed = x.freed]
                         /\ x.freed <=> Excusable(run, J, done)
<1>1. PICK run \in rs : x = [run EXCEPT !.freed = Excusable(run, J, done)]
  BY DEF Freed, Excusable
<1>2. Excusable(run, J, done) \in BOOLEAN
  BY DEF Excusable
<1>3. run \in RunShape
  OBVIOUS
<1>4. /\ x \in RunShape /\ x.job = run.job /\ x.stage = run.stage
      /\ x.freed = Excusable(run, J, done)
      /\ x = [run EXCEPT !.freed = x.freed]
  BY <1>1, <1>2, <1>3 DEF RunShape
<1> QED
  BY <1>4

(* The history flag marks a run, it does not add or remove one.            *)
LEMMA FreedStays ==
  ASSUME NEW rs \in SUBSET RunShape, NEW J, NEW done, NEW run \in rs
  PROVE  \E x \in Freed(rs, J, done) : x.job = run.job /\ x.stage = run.stage
<1>1. run \in RunShape
  OBVIOUS
<1>2. \A b : [run EXCEPT !.freed = b].job = run.job /\ [run EXCEPT !.freed = b].stage = run.stage
  BY <1>1 DEF RunShape
<1> QED
  BY <1>2 DEF Freed

(* Why a marker may be gone from J without an outcome.                     *)
Excused(J, done) ==
  \A j \in (DOMAIN J \cap DOMAIN jobs) \ done :
    jobs[j].running # None /\ J[j].running = None => ~ J[j].enabled \/ IsStuck(jobs[j], now)

LEMMA FreedKeeps ==
  ASSUME runs \subseteq RunShape, Guarded(jobs, runs), Single(runs),
         NEW rs \in SUBSET runs, NEW J, NEW done, Excused(J, done)
  PROVE  /\ Freed(rs, J, done) \subseteq RunShape
         /\ Guarded(J, Freed(rs, J, done)) /\ Single(Freed(rs, J, done))
<1> DEFINE F == Freed(rs, J, done)
<1>0. rs \in SUBSET RunShape
  OBVIOUS
<1>1. F \subseteq RunShape
  BY <1>0, FreedIs
<1>2. ASSUME NEW x \in F, Protected(x)
      PROVE  x.job \in DOMAIN J /\ J[x.job].running # None
  <2>1. PICK run \in rs : /\ x.job = run.job /\ x.stage = run.stage
                          /\ x.freed <=> Excusable(run, J, done)
    BY <1>0, FreedIs
  <2>2. ~ Excusable(run, J, done)
    BY <1>2, <2>1, Zenon DEF Protected
  <2>3. Protected(run)
    <3>1. ~ run.freed
      BY <2>2 DEF Excusable
    <3>2. Started(run)
      BY <1>2, <2>1 DEF Started, Protected
    <3> QED
      BY <3>1, <3>2 DEF Protected
  <2>4. run.job \in DOMAIN jobs /\ jobs[run.job].running # None
    BY <2>3 DEF Guarded
  <2>5. run.job \in DOMAIN J
    BY <2>2, <2>3, <2>4 DEF Excusable, Started, Protected
  <2>6. J[run.job].running # None
    <3> SUFFICES ASSUME J[run.job].running = None PROVE FALSE
      OBVIOUS
    <3>1. J[run.job].enabled /\ ~ IsStuck(jobs[run.job], now) /\ run.job \notin done
      BY <2>2, <2>3, <2>4, Zenon DEF Excusable, Started, Protected
    <3> QED
      BY <2>4, <2>5, <3>1 DEF Excused
  <2> QED
    BY <2>1, <2>5, <2>6
<1>3. Guarded(J, F)
  BY <1>2 DEF Guarded
<1>4. ASSUME NEW a \in F, NEW b \in F, Protected(a), Protected(b), a.job = b.job
      PROVE  a = b
  <2>1. PICK r \in rs : /\ a.job = r.job /\ a.stage = r.stage
                        /\ a.freed <=> Excusable(r, J, done)
                        /\ a = [r EXCEPT !.freed = a.freed] /\ a \in RunShape
    BY <1>0, FreedIs
  <2>2. PICK s \in rs : /\ b.job = s.job /\ b.stage = s.stage
                        /\ b.freed <=> Excusable(s, J, done)
                        /\ b = [s EXCEPT !.freed = b.freed] /\ b \in RunShape
    BY <1>0, FreedIs
  <2>3. r = s
    BY <1>4, <2>1, <2>2 DEF Single, Started, Excusable, Protected
  <2>4. a.freed = FALSE /\ b.freed = FALSE
    BY <1>4, <2>1, <2>2 DEF RunShape, Protected
  <2> QED
    BY <2>1, <2>2, <2>3, <2>4
<1>5. Single(F)
  <2> HIDE DEF F
  <2> QED
    BY <1>4, Zenon DEF Single
<1> QED
  BY <1>1, <1>3, <1>5

(* A step whose runs are some of the runs there were, with the flag set    *)
(* anew: what is left to show of it.                                       *)
LEMMA FreedSafe ==
  ASSUME IInv, NEW rs \in SUBSET runs, NEW J, NEW done, JobsShape(J),
         Excused(J, done),
         \A j \in DOMAIN J : J[j].running # None =>
            \E run \in rs : run.job = j /\ Started(run)
  PROVE  /\ Freed(rs, J, done) \subseteq RunShape
         /\ Guarded(J, Freed(rs, J, done)) /\ Single(Freed(rs, J, done))
         /\ Owned(J, Freed(rs, J, done))
<1>1. runs \subseteq RunShape /\ Guarded(jobs, runs) /\ Single(runs) /\ rs \in SUBSET RunShape
  BY DEF IInv, Shape, Safe
<1>2. ASSUME NEW j \in DOMAIN J, J[j].running # None
      PROVE  \E x \in Freed(rs, J, done) : x.job = j /\ Started(x)
  <2>1. PICK run \in rs : run.job = j /\ Started(run)
    BY <1>2
  <2> QED
    BY <1>1, <2>1, FreedStays DEF Started
<1> QED
  BY <1>1, <1>2, FreedKeeps DEF Owned
(* J is what is left of A, the jobs after the outcomes of fin and an edit  *)
(* by the user, once the slots were maintained.                            *)
After(A, J, fin) ==
  /\ JobsShape(J) /\ DOMAIN J = DOMAIN A
  /\ \A j \in DOMAIN A :
       /\ Kept(A[j], J[j], now)
       /\ A[j].running = IF j \in Finished(fin) \/ j \notin DOMAIN jobs
                           THEN None ELSE jobs[j].running

LEMMA AfterSafe ==
  ASSUME IInv, phase # "down", NEW fin \in SUBSET runs, NEW A, NEW J, After(A, J, fin)
  PROVE  LET F == Freed(runs \ fin, J, Finished(fin))
         IN  F \subseteq RunShape /\ Guarded(J, F) /\ Single(F) /\ Owned(J, F)
<1>1. JobsShape(J) /\ DOMAIN J = DOMAIN A
  BY DEF After
<1>2. Excused(J, Finished(fin))
  <2> SUFFICES ASSUME NEW j \in (DOMAIN J \cap DOMAIN jobs) \ Finished(fin),
                      jobs[j].running # None, J[j].running = None
               PROVE  ~ J[j].enabled \/ IsStuck(jobs[j], now)
    BY DEF Excused
  <2>1. Kept(A[j], J[j], now) /\ A[j].running = jobs[j].running
    BY <1>1 DEF After
  <2> QED
    BY <2>1 DEF Kept, IsStuck
<1>3. ASSUME NEW j \in DOMAIN J, J[j].running # None
      PROVE  \E run \in runs \ fin : run.job = j /\ Started(run)
  <2>1. Kept(A[j], J[j], now)
    BY <1>1 DEF After
  <2>2. A[j].running # None
    BY <1>3, <2>1 DEF Kept
  <2>3. j \notin Finished(fin) /\ j \in DOMAIN jobs /\ jobs[j].running # None
    BY <1>1, <2>2 DEF After
  <2>4. PICK run \in runs : run.job = j /\ Started(run)
    BY <2>3 DEF IInv, Safe, Owned
  <2>5. run \notin fin
    BY <2>3, <2>4 DEF Finished
  <2> QED
    BY <2>4, <2>5
<1> QED
  BY <1>1, <1>2, <1>3, FreedSafe

LEMMA AfterStep ==
  ASSUME IInv, phase # "down", phase' # "down", now' = now,
         NEW fin \in SUBSET runs, NEW A, After(A, jobs', fin),
         used \subseteq used', DOMAIN A \subseteq DOMAIN jobs \cup used',
         runs' = Freed(runs \ fin, jobs', Finished(fin))
  PROVE  IInv'
<1>1. /\ runs' \subseteq RunShape
      /\ Guarded(jobs', runs') /\ Single(runs') /\ Owned(jobs', runs')
  BY AfterSafe
<1>2. now' \in Nat /\ JobsShape(jobs') /\ DOMAIN jobs' \subseteq used'
  BY DEF After, IInv, Shape
<1> QED
  BY <1>1, <1>2 DEF IInv, Shape, Safe

(* Nothing but the slots: the maintenance of the stored jobs.              *)
LEMMA MaintainedAfter ==
  ASSUME IInv, NEW e \in BOOLEAN
  PROVE  After(jobs, Maintained(jobs, now, e), {})
<1>1. JobsShape(jobs) /\ now \in Int
  BY DEF IInv, Shape
<1> QED
  BY <1>1, MaintainedKept DEF After, Finished

(* The outcomes of fin, then the maintenance.                              *)
LEMMA OutcomeAfter ==
  ASSUME IInv, NEW e \in BOOLEAN, NEW fin \in SUBSET runs
  PROVE  /\ After(Outcomes(jobs, fin), Maintained(Outcomes(jobs, fin), now, e), fin)
         /\ DOMAIN Outcomes(jobs, fin) \subseteq DOMAIN jobs
<1>1. JobsShape(jobs) /\ now \in Int /\ fin \in SUBSET RunShape
  BY DEF IInv, Shape
<1>2. /\ JobsShape(Outcomes(jobs, fin))
      /\ DOMAIN Outcomes(jobs, fin) \subseteq DOMAIN jobs
      /\ \A j \in DOMAIN jobs \ Finished(fin) : Outcomes(jobs, fin)[j] = jobs[j]
      /\ \A j \in DOMAIN Outcomes(jobs, fin) :
           j \in Finished(fin) => Outcomes(jobs, fin)[j].running = None
  BY <1>1, OutcomesAre
<1> QED
  BY <1>1, <1>2, MaintainedKept DEF After

-----------------------------------------------------------------------------
(* Reservations and executions. *)

LEMMA MarkStep ==
  ASSUME IInv, phase # "down", phase' # "down", now' = now, used' = used,
         NEW S \in SUBSET DOMAIN jobs, \A j \in S : jobs[j].running = None,
         NEW by \in {"tick", "catchup"},
         jobs' = [j \in DOMAIN jobs |->
                    IF j \in S THEN [jobs[j] EXCEPT !.running = now] ELSE jobs[j]],
         runs' = runs \cup {NewRun(j, by, "marked", FALSE) : j \in S}
  PROVE  IInv'
<1>1. /\ now \in Nat /\ JobsShape(jobs) /\ runs \subseteq RunShape
      /\ Guarded(jobs, runs) /\ Single(runs) /\ Owned(jobs, runs)
  BY DEF IInv, Shape, Safe
<1>2. now # None /\ None \in Int
  BY <1>1 DEF None
<1>3. ASSUME NEW j \in S
      PROVE  /\ NewRun(j, by, "marked", FALSE) \in RunShape
             /\ NewRun(j, by, "marked", FALSE).job = j
             /\ Started(NewRun(j, by, "marked", FALSE))
  <2>1. j \in Jobs
    BY <1>1 DEF JobsShape
  <2> QED
    BY <1>1, <1>2, <2>1 DEF NewRun, RunShape, Started
<1>4. /\ DOMAIN jobs' = DOMAIN jobs
      /\ \A j \in S : jobs'[j].running = now
      /\ \A j \in DOMAIN jobs \ S : jobs'[j] = jobs[j]
      /\ \A j \in DOMAIN jobs : jobs'[j] \in JobShape
  <2>1. \A j \in DOMAIN jobs : jobs[j] \in JobShape
    BY <1>1 DEF JobsShape
  <2>2. \A r \in JobShape : [r EXCEPT !.running = now] \in JobShape
                            /\ [r EXCEPT !.running = now].running = now
    BY <1>1 DEF JobShape
  <2> QED
    BY <2>1, <2>2
<1>5. JobsShape(jobs') /\ runs' \subseteq RunShape
  BY <1>1, <1>3, <1>4 DEF JobsShape
<1>6. ASSUME NEW run \in runs, Protected(run) PROVE run.job \in DOMAIN jobs \ S
  BY <1>1, <1>6 DEF Guarded
<1>7. Guarded(jobs', runs')
  <2>1. ASSUME NEW run \in runs, Protected(run)
        PROVE  run.job \in DOMAIN jobs' /\ jobs'[run.job].running # None
    BY <1>1, <1>4, <1>6, <2>1 DEF Guarded
  <2>2. ASSUME NEW j \in S PROVE j \in DOMAIN jobs' /\ jobs'[j].running # None
    BY <1>2, <1>4
  <2>3. ASSUME NEW run \in runs', Protected(run)
        PROVE  run.job \in DOMAIN jobs' /\ jobs'[run.job].running # None
    <3>1. CASE run \in runs
      BY <2>1, <2>3, <3>1
    <3>2. CASE run \notin runs
      <4>1. PICK j \in S : run = NewRun(j, by, "marked", FALSE)
        BY <3>2
      <4>2. run.job = j
        BY <1>3, <4>1
      <4> QED
        BY <2>2, <4>2
    <3> QED
      BY <3>1, <3>2
  <2> QED
    BY <2>3 DEF Guarded
<1>8. Single(runs')
  <2> SUFFICES ASSUME NEW a \in runs', NEW b \in runs',
                      Protected(a), Protected(b), a.job = b.job
               PROVE  a = b
    BY Zenon DEF Single
  <2>1. CASE a \in runs /\ b \in runs
    BY <1>1, <2>1 DEF Single
  <2>2. CASE a \notin runs /\ b \notin runs
    BY <1>3, <2>2
  <2>3. CASE a \in runs /\ b \notin runs
    BY <1>3, <1>6, <2>3
  <2>4. CASE a \notin runs /\ b \in runs
    BY <1>3, <1>6, <2>4
  <2> QED
    BY <2>1, <2>2, <2>3, <2>4
<1>9. Owned(jobs', runs')
  <2> SUFFICES ASSUME NEW j \in DOMAIN jobs', jobs'[j].running # None
               PROVE  \E run \in runs' : run.job = j /\ Started(run)
    BY DEF Owned
  <2>1. CASE j \in S
    BY <1>3, <2>1
  <2>2. CASE j \notin S
    BY <1>1, <1>4, <2>2 DEF Owned
  <2> QED
    BY <2>1, <2>2
<1> QED
  BY <1>1, <1>4, <1>5, <1>7, <1>8, <1>9 DEF IInv, Shape, Safe

(* One run goes on: nothing changes but the record of the run, and perhaps *)
(* the marker of its job is renewed.                                       *)
LEMMA RunStep ==
  ASSUME IInv, phase' = phase, tick' = tick, now' = now, used' = used,
         NEW run \in runs, NEW new \in RunShape,
         new.job = run.job, new.freed = run.freed, Started(run), Started(new),
         runs' = (runs \ {run}) \cup {new},
         \/ jobs' = jobs
         \/ run.job \in DOMAIN jobs /\ jobs' = [jobs EXCEPT ![run.job].running = now]
  PROVE  IInv'
<1>1. /\ now \in Nat /\ JobsShape(jobs) /\ runs \subseteq RunShape
      /\ Guarded(jobs, runs) /\ Single(runs) /\ Owned(jobs, runs) /\ phase # "down"
  BY DEF IInv, Shape, Safe
<1>2. now # None
  BY <1>1 DEF None
<1>3. /\ DOMAIN jobs' = DOMAIN jobs
      /\ \A j \in DOMAIN jobs : jobs'[j].running \in {jobs[j].running, now}
      /\ \A j \in DOMAIN jobs : jobs'[j] = jobs[j] \/ j = run.job
      /\ JobsShape(jobs')
  <2>1. \A j \in DOMAIN jobs : jobs[j] \in JobShape
    BY <1>1 DEF JobsShape
  <2>2. \A r \in JobShape : [r EXCEPT !.running = now] \in JobShape
                            /\ [r EXCEPT !.running = now].running = now
    BY <1>1 DEF JobShape
  <2>3. CASE jobs' = jobs
    BY <1>1, <2>3
  <2>4. CASE run.job \in DOMAIN jobs /\ jobs' = [jobs EXCEPT ![run.job].running = now]
    <3> DEFINE marked == [jobs[run.job] EXCEPT !.running = now]
    <3>1. marked \in JobShape /\ marked.running = now
      BY <2>1, <2>2, <2>4
    <3>2. jobs' = [jobs EXCEPT ![run.job] = marked]
      BY <2>4
    <3> HIDE DEF marked
    <3> QED
      BY <1>1, <2>1, <2>4, <3>1, <3>2 DEF JobsShape
  <2> QED
    BY <2>3, <2>4
<1>4. runs' \subseteq RunShape
  BY <1>1
<1>5. Protected(new) <=> Protected(run)
  BY DEF Protected
<1>6. Guarded(jobs', runs')
  BY <1>1, <1>2, <1>3, <1>5 DEF Guarded
<1>7. Single(runs')
  <2> SUFFICES ASSUME NEW a \in runs', NEW b \in runs',
                      Protected(a), Protected(b), a.job = b.job
               PROVE  a = b
    BY Zenon DEF Single
  <2> QED
    BY <1>1, <1>5 DEF Single
<1>8. Owned(jobs', runs')
  <2> SUFFICES ASSUME NEW j \in DOMAIN jobs', jobs'[j].running # None
               PROVE  \E x \in runs' : x.job = j /\ Started(x)
    BY DEF Owned
  <2>1. CASE j = run.job
    BY <2>1
  <2>2. CASE j # run.job
    <3>1. PICK x \in runs : x.job = j /\ Started(x)
      BY <1>1, <1>3, <2>2 DEF Owned
    <3> QED
      BY <2>2, <3>1
  <2> QED
    BY <2>1, <2>2
<1> QED
  BY <1>1, <1>3, <1>4, <1>6, <1>7, <1>8 DEF IInv, Shape, Safe

-----------------------------------------------------------------------------
(* The initial states and the actions. *)

LEMMA InitShape == Init => IInv
<1> SUFFICES ASSUME Init PROVE IInv
  OBVIOUS
<1>1. now = 1 /\ runs = {} /\ phase = "down" /\ tick = "idle" /\ used \in SUBSET Jobs
      /\ jobs = [j \in used |-> Created(j, 1)]
  BY DEF Init
<1>2. ASSUME NEW j \in Jobs PROVE Created(j, 1) \in JobShape
  <2>1. FreshJob(1) \in JobShape
    BY DEF FreshJob, JobShape, None
  <2>2. NextRun(j, FreshJob(1), now) \in Int
    BY <1>1, <2>1, NextRunInt
  <2> QED
    BY <2>1, <2>2 DEF Created, JobShape
<1>3. JobsShape(jobs)
  BY <1>1, <1>2 DEF JobsShape
<1> QED
  BY <1>1, <1>3 DEF IInv, Shape, Safe, Guarded, Single

LEMMA StartSafe == IInv /\ Start => IInv'
<1> SUFFICES ASSUME IInv, Start PROVE IInv'
  OBVIOUS
<1>1. /\ runs' = {} /\ phase' = "plan" /\ now' = now /\ used' = used
      /\ jobs' = [j \in DOMAIN jobs |-> [jobs[j] EXCEPT !.running = None]]
  BY DEF IInv, Safe, Start
<1>2. now \in Nat /\ JobsShape(jobs) /\ None \in Int
  BY DEF IInv, Shape, None
<1>3. \A j \in DOMAIN jobs : /\ [jobs[j] EXCEPT !.running = None] \in JobShape
                            /\ [jobs[j] EXCEPT !.running = None].running = None
  BY <1>2 DEF JobsShape, JobShape
<1>4. /\ DOMAIN jobs' = DOMAIN jobs
      /\ \A j \in DOMAIN jobs' : jobs'[j].running = None
      /\ jobs' \in [DOMAIN jobs' -> JobShape]
  BY <1>1, <1>3
<1>5. JobsShape(jobs')
  BY <1>2, <1>4 DEF JobsShape
<1> QED
  BY <1>1, <1>2, <1>4, <1>5 DEF IInv, Shape, Safe, Guarded, Single, Owned

LEMMA PlanSafe == IInv /\ Plan => IInv'
<1> SUFFICES ASSUME IInv, Plan PROVE IInv'
  OBVIOUS
<1> DEFINE missed == {j \in DOMAIN jobs : Missed(j)}
<1>1. PICK first \in SUBSET missed :
        /\ phase' = IF missed = {} THEN "finish" ELSE "catchup"
        /\ runs' = runs \cup {NewRun(j, "catchup", "marked", FALSE) : j \in first}
        /\ jobs' = [j \in DOMAIN jobs |->
                      IF j \in first THEN [jobs[j] EXCEPT !.running = now] ELSE jobs[j]]
  BY DEF Plan
<1>2. first \in SUBSET DOMAIN jobs /\ \A j \in first : jobs[j].running = None
  BY DEF Missed
<1>3. phase # "down" /\ phase' # "down" /\ now' = now /\ used' = used
  BY <1>1 DEF Plan
<1> QED
  BY <1>1, <1>2, <1>3, MarkStep

LEMMA TickScanSafe == IInv /\ TickScan => IInv'
<1> SUFFICES ASSUME IInv, TickScan PROVE IInv'
  OBVIOUS
<1> DEFINE due == {j \in DOMAIN jobs : Due(j)}
<1>1. phase # "down" /\ phase' = phase /\ now' = now /\ used' = used
  BY DEF TickScan, IInv, Safe
<1>2. CASE due = {}
  <2>1. /\ jobs' = Maintained(jobs, now, TRUE)
        /\ runs' = Freed(runs, jobs', {})
    BY <1>2 DEF TickScan
  <2> QED
    BY <1>1, <2>1, MaintainedAfter, AfterStep DEF Finished
<1>3. CASE due # {}
  <2>1. /\ jobs' = [j \in DOMAIN jobs |->
                      IF j \in due THEN [jobs[j] EXCEPT !.running = now] ELSE jobs[j]]
        /\ runs' = runs \cup {NewRun(j, "tick", "marked", FALSE) : j \in due}
    BY <1>3 DEF TickScan
  <2>2. due \in SUBSET DOMAIN jobs /\ \A j \in due : jobs[j].running = None
    BY DEF Due
  <2> HIDE DEF due
  <2> QED
    BY <1>1, <2>1, <2>2, MarkStep
<1> QED
  BY <1>2, <1>3

LEMMA ReadSafe == IInv /\ Read => IInv'
<1> SUFFICES ASSUME IInv, Read PROVE IInv'
  OBVIOUS
<1>1. /\ phase # "down" /\ phase' = phase /\ now' = now /\ used' = used
      /\ jobs' = Maintained(jobs, now, FALSE) /\ runs' = Freed(runs, jobs', {})
  BY DEF Read
<1> QED
  BY <1>1, MaintainedAfter, AfterStep DEF Finished

LEMMA TickApplySafe == IInv /\ TickApply => IInv'
<1> SUFFICES ASSUME IInv, TickApply PROVE IInv'
  OBVIOUS
<1> DEFINE fin == RunsOf("tick")
<1>1. /\ phase # "down" /\ phase' = phase /\ now' = now /\ used' = used
      /\ jobs' = Maintained(Outcomes(jobs, fin), now, FALSE)
      /\ runs' = Freed(runs \ fin, jobs', Finished(fin))
  BY DEF TickApply, IInv, Safe, Finished
<1>2. fin \in SUBSET runs
  BY DEF RunsOf
<1> HIDE DEF fin
<1> QED
  BY <1>1, <1>2, OutcomeAfter, AfterStep

LEMMA FinishStartSafe == IInv /\ FinishStart => IInv'
<1> SUFFICES ASSUME IInv, FinishStart PROVE IInv'
  OBVIOUS
<1>1. /\ phase # "down" /\ phase' # "down" /\ now' = now /\ used' = used
      /\ jobs' = Recomputed(jobs, now) /\ runs' = Freed(runs, jobs', {})
  BY DEF FinishStart
<1>2. After(jobs, jobs', {})
  <2>1. JobsShape(jobs) /\ now \in Int
    BY DEF IInv, Shape
  <2> QED
    BY <1>1, <2>1, RecomputedKept DEF After, Finished
<1> QED
  BY <1>1, <1>2, AfterStep DEF Finished

LEMMA CatchApplySafe == IInv /\ CatchApply => IInv'
<1> SUFFICES ASSUME IInv, CatchApply PROVE IInv'
  OBVIOUS
<1> DEFINE fin == RunsOf("catchup")
           after == Outcomes(jobs, fin)
           late == {j \in deferred \cap DOMAIN after : after[j].enabled}
           Slots(rank) == [j \in DOMAIN after |->
                             IF j \in late
                               THEN [after[j] EXCEPT !.next = now + rank[j] * Stagger]
                               ELSE after[j]]
<1>1. PICK rank \in [late -> 1 .. Cardinality(late)] :
        /\ jobs' = Maintained(Slots(rank), now, FALSE)
        /\ runs' = Freed(runs \ fin, jobs', Finished(fin))
  BY DEF CatchApply, Finished
<1>2. phase # "down" /\ phase' # "down" /\ now' = now /\ used' = used /\ now \in Int /\ fin \in SUBSET runs
  BY DEF CatchApply, IInv, Shape, RunsOf
<1> HIDE DEF fin
<1>3. JobsShape(after) /\ fin \in SUBSET RunShape
  BY <1>2, OutcomesAre DEF IInv, Shape
<1>4. /\ DOMAIN after \subseteq DOMAIN jobs
      /\ \A j \in DOMAIN jobs \ Finished(fin) : after[j] = jobs[j]
      /\ \A j \in DOMAIN after : j \in Finished(fin) => after[j].running = None
  BY <1>3, OutcomesAre DEF IInv, Shape
<1> HIDE DEF after
<1>5. ASSUME NEW j \in late PROVE now + rank[j] * Stagger \in Int
  <2>1. rank[j] \in 1 .. Cardinality(late)
    BY <1>1
  <2>2. rank[j] \in Int
    BY <2>1
  <2> HIDE DEF late
  <2> QED
    BY <1>2, <2>2, CronAssumption
<1>6. \A j \in DOMAIN after : after[j] \in JobShape
  BY <1>3 DEF JobsShape
<1>7. ASSUME NEW j \in DOMAIN after
      PROVE  Slots(rank)[j] \in JobShape /\ Slots(rank)[j].running = after[j].running
  <2>1. CASE j \in late
    <3>1. Slots(rank)[j] = [after[j] EXCEPT !.next = now + rank[j] * Stagger]
      BY <2>1
    <3>2. now + rank[j] * Stagger \in Int
      BY <1>5, <2>1
    <3> HIDE DEF late, Slots
    <3> QED
      BY <1>6, <3>1, <3>2 DEF JobShape
  <2>2. CASE j \notin late
    BY <1>6, <2>2
  <2> QED
    BY <2>1, <2>2
<1>8. DOMAIN Slots(rank) = DOMAIN after /\ Slots(rank) = [j \in DOMAIN after |-> Slots(rank)[j]]
  OBVIOUS
<1> HIDE DEF Slots, late
<1>9. JobsShape(Slots(rank))
  <2>1. Slots(rank) \in [DOMAIN after -> JobShape]
    BY <1>7, <1>8
  <2> QED
    BY <1>3, <1>8, <2>1 DEF JobsShape
<1>10. After(Slots(rank), jobs', fin)
  <2>1. ASSUME NEW j \in DOMAIN Slots(rank)
        PROVE  Slots(rank)[j].running = IF j \in Finished(fin) \/ j \notin DOMAIN jobs
                                          THEN None ELSE jobs[j].running
    BY <1>4, <1>7, <1>8
  <2>2. /\ JobsShape(jobs') /\ DOMAIN jobs' = DOMAIN Slots(rank)
        /\ \A j \in DOMAIN Slots(rank) : Kept(Slots(rank)[j], jobs'[j], now)
    BY <1>1, <1>2, <1>9, MaintainedKept
  <2> QED
    BY <2>1, <2>2 DEF After
<1> QED
  BY <1>1, <1>2, <1>4, <1>8, <1>10, AfterStep

LEMMA AddSafe == IInv /\ (\E j \in Jobs : Add(j)) => IInv'
<1> SUFFICES ASSUME IInv, NEW j \in Jobs, Add(j) PROVE IInv'
  OBVIOUS
<1> DEFINE A == [i \in DOMAIN jobs \cup {j} |-> IF i = j THEN Created(j, now + 1) ELSE jobs[i]]
<1>1. /\ phase # "down" /\ phase' # "down" /\ now' = now /\ used' = used \cup {j}
      /\ jobs' = Recomputed(A, now) /\ runs' = Freed(runs, jobs', {})
      /\ j \notin used
  BY DEF Add, Event
<1>2. JobsShape(jobs) /\ now \in Nat
  BY DEF IInv, Shape
<1>3. Created(j, now + 1) \in JobShape /\ Created(j, now + 1).running = None
  <2>1. FreshJob(now + 1) \in JobShape /\ FreshJob(now + 1).running = None
    BY <1>2 DEF FreshJob, JobShape, None
  <2>2. NextRun(j, FreshJob(now + 1), now) \in Int
    BY <1>2, <2>1, NextRunInt
  <2> QED
    BY <2>1, <2>2 DEF Created, JobShape
<1>4. JobsShape(A)
  BY <1>2, <1>3 DEF JobsShape
<1>5. j \notin DOMAIN jobs
  BY <1>1 DEF IInv, Shape
<1>6. After(A, jobs', {})
  <2>1. ASSUME NEW i \in DOMAIN A
        PROVE  A[i].running = IF i \notin DOMAIN jobs THEN None ELSE jobs[i].running
    BY <1>3, <1>5
  <2> HIDE DEF A
  <2> QED
    BY <1>1, <1>2, <1>4, <2>1, RecomputedKept DEF After, Finished
<1>7. DOMAIN A = DOMAIN jobs \cup {j}
  OBVIOUS
<1> HIDE DEF A
<1> QED
  BY <1>1, <1>6, <1>7, AfterStep DEF Finished

LEMMA UpdateSafe == IInv /\ (\E j \in Jobs : Update(j)) => IInv'
<1> SUFFICES ASSUME IInv, NEW j \in Jobs, Update(j) PROVE IInv'
  OBVIOUS
<1>1. PICK enabled \in BOOLEAN, at \in {jobs[j].at, now + 1} :
        LET r == [jobs[j] EXCEPT !.enabled = enabled, !.at = at]
        IN  jobs' = [jobs EXCEPT ![j] =
               IF enabled THEN [r EXCEPT !.next = NextRun(j, r, now)]
                          ELSE [r EXCEPT !.next = None, !.running = None]]
  BY DEF Update
<1>2. /\ phase # "down" /\ phase' # "down" /\ now' = now /\ used' = used /\ j \in DOMAIN jobs
      /\ runs' = Freed(runs, jobs', {})
  BY DEF Update, Event
<1>3. JobsShape(jobs) /\ now \in Nat /\ None \in Int
  BY DEF IInv, Shape, None
<1> DEFINE r == [jobs[j] EXCEPT !.enabled = enabled, !.at = at]
           new == IF enabled THEN [r EXCEPT !.next = NextRun(j, r, now)]
                             ELSE [r EXCEPT !.next = None, !.running = None]
           A == [jobs EXCEPT ![j] = r]
<1>4. r \in JobShape /\ r.running = jobs[j].running /\ r.enabled = enabled
  <2>1. jobs[j] \in JobShape
    BY <1>2, <1>3 DEF JobsShape
  <2>2. at \in Int
    BY <1>3, <2>1 DEF JobShape
  <2> QED
    BY <2>1, <2>2 DEF JobShape
<1> HIDE DEF r
<1>5. Kept(r, new, now)
  <2>1. NextRun(j, r, now) \in Int
    BY <1>3, <1>4, NextRunInt
  <2>2. CASE enabled
    BY <1>4, <2>1, <2>2 DEF Kept, JobShape
  <2>3. CASE ~ enabled
    BY <1>3, <1>4, <2>3 DEF Kept, JobShape
  <2> QED
    BY <2>2, <2>3
<1>6. jobs' = [jobs EXCEPT ![j] = new]
  BY <1>1 DEF r
<1> HIDE DEF new
<1>7. After(A, jobs', {})
  <2>1. new \in JobShape
    BY <1>5 DEF Kept
  <2>2. \A i \in DOMAIN jobs : jobs[i] \in JobShape /\ Kept(jobs[i], jobs[i], now)
    BY <1>3 DEF JobsShape, Kept
  <2>3. JobsShape(jobs') /\ DOMAIN jobs' = DOMAIN A
    BY <1>2, <1>3, <1>6, <2>1 DEF JobsShape
  <2>4. ASSUME NEW i \in DOMAIN A
        PROVE  Kept(A[i], jobs'[i], now) /\ A[i].running = jobs[i].running
    BY <1>2, <1>4, <1>5, <1>6, <2>2
  <2> QED
    BY <2>3, <2>4 DEF After, Finished
<1>8. DOMAIN A = DOMAIN jobs
  OBVIOUS
<1> HIDE DEF A
<1> QED
  BY <1>2, <1>7, <1>8, AfterStep DEF Finished

LEMMA RemoveSafe == IInv /\ (\E j \in Jobs : Remove(j)) => IInv'
<1> SUFFICES ASSUME IInv, NEW j \in Jobs, Remove(j) PROVE IInv'
  OBVIOUS
<1>1. /\ phase # "down" /\ phase' # "down" /\ now' = now /\ used' = used
      /\ jobs' = [i \in DOMAIN jobs \ {j} |-> jobs[i]]
      /\ runs' = Freed(runs, jobs', {})
  BY DEF Remove, Event
<1>2. JobsShape(jobs)
  BY DEF IInv, Shape
<1>3. \A i \in DOMAIN jobs : jobs[i] \in JobShape /\ Kept(jobs[i], jobs[i], now)
  BY <1>2 DEF JobsShape, Kept
<1>4. After(jobs', jobs', {})
  BY <1>1, <1>2, <1>3 DEF After, Finished, JobsShape
<1> QED
  BY <1>1, <1>4, AfterStep DEF Finished

LEMMA ManualCheckSafe == IInv /\ (\E j \in Jobs, force \in BOOLEAN : ManualCheck(j, force)) => IInv'
<1> SUFFICES ASSUME IInv, NEW j \in Jobs, NEW force \in BOOLEAN, ManualCheck(j, force) PROVE IInv'
  OBVIOUS
<1> DEFINE F == Freed(runs, jobs', {})
           new == NewRun(j, "manual", "checked", force)
<1>1. /\ phase # "down" /\ phase' = phase /\ now' = now /\ used' = used
      /\ jobs' = Maintained(jobs, now, FALSE) /\ runs' = F \cup {new}
  BY DEF ManualCheck, Event
<1>2. After(jobs, jobs', {})
  BY <1>1, MaintainedAfter
<1>3. F \subseteq RunShape /\ Guarded(jobs', F) /\ Single(F) /\ Owned(jobs', F)
  <2>1. runs \ {} = runs /\ Finished({}) = {}
    BY DEF Finished
  <2> QED
    BY <1>1, <1>2, <2>1, AfterSafe
<1>4. new \in RunShape /\ ~ Protected(new)
  <2>1. now \in Nat
    BY DEF IInv, Shape
  <2> QED
    BY <2>1 DEF NewRun, RunShape, Protected, Started, None
<1>5. /\ now' \in Nat /\ JobsShape(jobs') /\ DOMAIN jobs' \subseteq used'
  BY <1>1, <1>2 DEF IInv, Shape, After
<1> HIDE DEF F, new
<1>6. Guarded(jobs', runs') /\ Single(runs') /\ Owned(jobs', runs')
  BY <1>1, <1>3, <1>4 DEF Guarded, Single, Owned
<1> QED
  BY <1>1, <1>3, <1>4, <1>5, <1>6 DEF IInv, Shape, Safe

LEMMA ManualReserveSafe == IInv /\ (\E run \in runs : ManualReserve(run)) => IInv'
<1> SUFFICES ASSUME IInv, NEW run \in runs, ManualReserve(run) PROVE IInv'
  OBVIOUS
<1>1. /\ phase # "down" /\ phase' = phase /\ tick' = tick /\ now' = now /\ used' = used
      /\ run.stage = "checked"
  BY DEF ManualReserve, IInv, Safe
<1>2. /\ now \in Nat /\ JobsShape(jobs) /\ DOMAIN jobs \subseteq used /\ runs \subseteq RunShape
      /\ Guarded(jobs, runs) /\ Single(runs) /\ Owned(jobs, runs)
  BY <1>1 DEF IInv, Shape, Safe
<1>3. CASE run.job \in DOMAIN jobs /\ jobs[run.job].running = None
  <2> DEFINE new == [run EXCEPT !.stage = "executing"]
             marked == [jobs[run.job] EXCEPT !.running = run.began]
  <2>1. jobs' = [jobs EXCEPT ![run.job] = marked] /\ runs' = (runs \ {run}) \cup {new}
    BY <1>3 DEF ManualReserve
  <2>2. new \in RunShape /\ new.job = run.job /\ Started(new)
    BY <1>2 DEF RunShape, Started
  <2>3. marked \in JobShape /\ marked.running # None
    <3>1. jobs[run.job] \in JobShape /\ run.began \in Nat
      BY <1>2, <1>3 DEF JobsShape, RunShape
    <3> QED
      BY <3>1 DEF JobShape, None
  <2> HIDE DEF new, marked
  <2>4. JobsShape(jobs') /\ DOMAIN jobs' = DOMAIN jobs
    BY <1>2, <1>3, <2>1, <2>3 DEF JobsShape
  <2>5. \A j \in DOMAIN jobs : j # run.job => jobs'[j] = jobs[j]
    BY <2>1
  <2>6. jobs'[run.job] = marked
    BY <1>3, <2>1
  <2>7. \A x \in runs : Protected(x) => x.job # run.job
    BY <1>2, <1>3 DEF Guarded
  <2>8. Guarded(jobs', runs')
    BY <1>2, <1>3, <2>1, <2>2, <2>3, <2>4, <2>5, <2>6, <2>7 DEF Guarded
  <2>9. Single(runs')
    <3> SUFFICES ASSUME NEW a \in runs', NEW b \in runs',
                        Protected(a), Protected(b), a.job = b.job
                 PROVE  a = b
      BY Zenon DEF Single
    <3> QED
      BY <1>2, <2>1, <2>2, <2>7 DEF Single
  <2>10. Owned(jobs', runs')
    <3> SUFFICES ASSUME NEW j \in DOMAIN jobs', jobs'[j].running # None
                 PROVE  \E x \in runs' : x.job = j /\ Started(x)
      BY DEF Owned
    <3>1. CASE j = run.job
      BY <2>1, <2>2, <3>1
    <3>2. CASE j # run.job
      <4>1. PICK x \in runs : x.job = j /\ Started(x)
        BY <1>2, <2>4, <2>5, <3>2 DEF Owned
      <4> QED
        BY <2>1, <3>2, <4>1
    <3> QED
      BY <3>1, <3>2
  <2> QED
    BY <1>1, <1>2, <2>1, <2>2, <2>4, <2>8, <2>9, <2>10 DEF IInv, Shape, Safe
<1>4. CASE ~ (run.job \in DOMAIN jobs /\ jobs[run.job].running = None)
  <2>1. jobs' = jobs /\ runs' = runs \ {run}
    BY <1>4 DEF ManualReserve
  <2>2. ~ Started(run)
    BY <1>1 DEF Started
  <2>3. Guarded(jobs', runs') /\ Single(runs') /\ Owned(jobs', runs')
    BY <1>2, <2>1, <2>2 DEF Guarded, Single, Owned
  <2> QED
    BY <1>1, <1>2, <2>1, <2>3 DEF IInv, Shape, Safe
<1> QED
  BY <1>3, <1>4

LEMMA ManualFinishSafe == IInv /\ (\E run \in runs : ManualFinish(run)) => IInv'
<1> SUFFICES ASSUME IInv, NEW run \in runs, ManualFinish(run) PROVE IInv'
  OBVIOUS
<1>1. /\ phase # "down" /\ phase' # "down" /\ now' = now /\ used' = used
      /\ runs' = Freed(runs \ {run}, jobs', Finished({run}))
  BY DEF ManualFinish, IInv, Safe, Finished
<1>2. CASE run.job \in DOMAIN jobs
  <2>1. jobs' = Maintained(Outcomes(jobs, {run}), now, TRUE)
    BY <1>2 DEF ManualFinish
  <2> QED
    BY <1>1, <2>1, OutcomeAfter, AfterStep
<1>3. CASE run.job \notin DOMAIN jobs
  <2>1. jobs' = jobs
    BY <1>3 DEF ManualFinish
  <2>2. JobsShape(jobs) /\ \A i \in DOMAIN jobs : jobs[i] \in JobShape /\ Kept(jobs[i], jobs[i], now)
    BY DEF IInv, Shape, JobsShape, Kept
  <2>3. After(jobs, jobs', {run})
    BY <1>3, <2>1, <2>2 DEF After, Finished
  <2> QED
    BY <1>1, <2>3, AfterStep
<1> QED
  BY <1>2, <1>3

LEMMA ExecStartSafe == IInv /\ (\E run \in runs : ExecStart(run)) => IInv'
<1> SUFFICES ASSUME IInv, NEW run \in runs, ExecStart(run) PROVE IInv'
  OBVIOUS
<1> DEFINE new == [run EXCEPT !.stage = "executing", !.began = now]
<1>1. run \in RunShape /\ now \in Nat
  BY DEF IInv, Shape
<1>2. new \in RunShape /\ new.job = run.job /\ new.freed = run.freed /\ Started(new)
  BY <1>1 DEF RunShape, Started
<1>3. /\ phase' = phase /\ tick' = tick /\ now' = now /\ used' = used
      /\ Started(run) /\ runs' = (runs \ {run}) \cup {new}
      /\ \/ jobs' = jobs
         \/ run.job \in DOMAIN jobs /\ jobs' = [jobs EXCEPT ![run.job].running = now]
  BY DEF ExecStart, Started
<1> HIDE DEF new
<1> QED
  BY <1>2, <1>3, RunStep

LEMMA ExecEndSafe == IInv /\ (\E run \in runs : ExecEnd(run)) => IInv'
<1> SUFFICES ASSUME IInv, NEW run \in runs, ExecEnd(run) PROVE IInv'
  OBVIOUS
<1>1. PICK result \in Results :
        runs' = (runs \ {run}) \cup
                  {[run EXCEPT !.stage = "done", !.ended = now, !.result = result]}
  BY DEF ExecEnd
<1> DEFINE new == [run EXCEPT !.stage = "done", !.ended = now, !.result = result]
<1>2. run \in RunShape /\ now \in Nat /\ result \in AllResults
  BY CronAssumption DEF IInv, Shape
<1>3. new \in RunShape /\ new.job = run.job /\ new.freed = run.freed /\ Started(new)
  <2>1. result \in AllResults \cup {"none"} /\ now \in Int
    BY <1>2
  <2>2. \A x \in AllResults \cup {"none"}, t \in Int :
           [run EXCEPT !.stage = "done", !.ended = t, !.result = x] \in RunShape
    BY <1>2 DEF RunShape
  <2>3. new.job = run.job /\ new.freed = run.freed /\ new.stage = "done"
    BY <1>2 DEF RunShape
  <2> QED
    BY <2>1, <2>2, <2>3 DEF Started
<1>4. /\ phase' = phase /\ tick' = tick /\ now' = now /\ used' = used
      /\ Started(run) /\ jobs' = jobs /\ runs' = (runs \ {run}) \cup {new}
  BY <1>1 DEF ExecEnd, Started
<1> HIDE DEF new
<1> QED
  BY <1>3, <1>4, RunStep

(* What leaves the jobs and the runs alone, or is the end of the process.  *)
LEMMA OtherSafe ==
  IInv /\ (Crash \/ TimerFires \/ TickEnd \/ Advance \/ UNCHANGED vars) => IInv'
<1> SUFFICES ASSUME IInv, Crash \/ TimerFires \/ TickEnd \/ Advance \/ UNCHANGED vars
             PROVE  IInv'
  OBVIOUS
<1>1. CASE Crash
  BY <1>1 DEF Crash, IInv, Shape, Safe, Guarded, Single
<1>2. CASE TimerFires
  BY <1>2 DEF TimerFires, IInv, Shape, Safe
<1>3. CASE TickEnd
  BY <1>3 DEF TickEnd, IInv, Shape, Safe
<1>4. CASE Advance
  BY <1>4 DEF Advance, IInv, Shape, Safe
<1>5. CASE UNCHANGED vars
  BY <1>5 DEF vars, IInv, Shape, Safe
<1> QED
  BY <1>1, <1>2, <1>3, <1>4, <1>5

LEMMA Inductive == IInv /\ [Next]_vars => IInv'
<1> SUFFICES ASSUME IInv, [Next]_vars PROVE IInv'
  OBVIOUS
<1> QED
  BY StartSafe, PlanSafe, CatchApplySafe, FinishStartSafe, TickScanSafe, TickApplySafe,
     ReadSafe, AddSafe, UpdateSafe, RemoveSafe, ManualCheckSafe, ManualReserveSafe,
     ManualFinishSafe, ExecStartSafe, ExecEndSafe, OtherSafe DEF Next

LEMMA InvariantHolds == Spec => []IInv
<1>1. Init => IInv
  BY InitShape
<1>2. IInv /\ [Next]_vars => IInv'
  BY Inductive
<1> QED
  BY <1>1, <1>2, PTL DEF Spec

-----------------------------------------------------------------------------
(* A job is executed by one party at a time, for any jobs and schedules:   *)
(* the sections of ops.ts and timer.ts under locked(...) look at the       *)
(* marker and set it in one step, and a run executes under its marker      *)
(* until somebody takes it away on purpose.                                *)
THEOREM OneExecutionPerJob == Spec => []NoOverlap
<1>1. IInv => NoOverlap
  <2> SUFFICES ASSUME IInv, NEW a \in runs, NEW b \in runs,
                      Protected(a), Protected(b), a.job = b.job
               PROVE  a = b
    BY DEF NoOverlap, Protected, Started
  <2> QED
    BY DEF IInv, Safe, Single
<1> QED
  BY <1>1, InvariantHolds, PTL

(* No marker leaks: whoever set it is still there to take it away, through *)
(* every edit, read, repair and outcome, and after a crash start() clears  *)
(* those that the dead process left.                                       *)
THEOREM EveryMarkerIsOwned == Spec => []MarkerOwned
<1>1. IInv => MarkerOwned
  BY DEF IInv, Safe, Owned, MarkerOwned, Started
<1> QED
  BY <1>1, InvariantHolds, PTL


-----------------------------------------------------------------------------
(* Slots: what the scheduler's arithmetic returns. *)

(* The one-shot that had its run: the only enabled job without a slot.     *)
Exhausted(j, r) == Kind[j] = "at" /\ r.status = "ok" /\ r.at <= r.lastRun

(* An enabled job has a slot after 0 unless it is exhausted, and its slot  *)
(* is not before the end h of its backoff window, or that end has passed.  *)
Good(j, r, h) ==
  /\ r.at >= 1 /\ (r.next = None \/ r.next >= 1)
  /\ r.enabled /\ r.next = None => Exhausted(j, r)
  /\ r.enabled /\ r.next # None => r.next >= h \/ now >= h

AllGood(J, H) == \A j \in DOMAIN J : Good(j, J[j], H[j])

LEMMA Least ==
  ASSUME NEW T \in SUBSET Nat, T # {}
  PROVE  \E x \in T : \A y \in T : x <= y
<1> DEFINE R == OpToRel(<, Nat)
<1>1. IsWellFoundedOn(R, Nat)
  BY NatLessThanWellFounded
<1>2. \A x, y \in Nat : x < y => <<x, y>> \in R
  BY DEF OpToRel
<1> HIDE DEF R
<1>3. PICK x \in T : \A y \in T : ~ (<<y, x>> \in R)
  BY <1>1, WFMin
<1>4. ASSUME NEW y \in T PROVE x <= y
  <2>1. x \in Nat /\ y \in Nat
    OBVIOUS
  <2>2. ~ (y < x)
    BY <1>2, <1>3, <2>1
  <2> QED
    BY <2>1, <2>2
<1> QED
  BY <1>4

LEMMA SlotsLater ==
  ASSUME NEW t \in Nat
  PROVE  SlotAfter(t) >= 1 /\ AnchorSlot(t) >= 1
<1>1. Period \in Nat /\ Period >= 1
  BY CronAssumption
<1>2. ASSUME NEW k \in Nat, k >= 1 PROVE k * Period \in Nat /\ k * Period >= 1
  BY <1>1, <1>2
<1>3. t \div Period + 1 \in Nat /\ t \div Period + 1 >= 1
  BY <1>1
<1>4. /\ Bigger(1, (t + Period - 1) \div Period) \in Nat
      /\ Bigger(1, (t + Period - 1) \div Period) >= 1
  <2>1. (t + Period - 1) \div Period \in Int
    BY <1>1
  <2> QED
    BY <2>1 DEF Bigger
<1> QED
  BY <1>2, <1>3, <1>4 DEF SlotAfter, AnchorSlot

(* Of an enabled job, only an exhausted one has no next slot.              *)
LEMMA NextRunLater ==
  ASSUME NEW j \in Jobs, NEW r \in JobShape, NEW t \in Nat, r.enabled, r.at >= 1
  PROVE  \/ NextRun(j, r, t) >= 1 /\ ~ Exhausted(j, r)
         \/ NextRun(j, r, t) = None /\ Exhausted(j, r)
<1>1. Kind[j] \in Kinds /\ Period \in Nat \ {0}
  BY CronAssumption
<1>2. r.lastRun \in Int /\ r.at \in Int
  BY DEF JobShape
<1>3. CASE Kind[j] = "cron"
  BY <1>3, SlotsLater DEF NextRun, Exhausted
<1>4. CASE Kind[j] = "every"
  <2>1. NextRun(j, r, t) = IF r.lastRun # None /\ r.lastRun + Period > t
                             THEN r.lastRun + Period ELSE AnchorSlot(t)
    BY <1>4 DEF NextRun
  <2>2. NextRun(j, r, t) >= 1
    BY <1>1, <1>2, <2>1, SlotsLater
  <2> QED
    BY <1>4, <2>2 DEF Exhausted
<1>5. CASE Kind[j] = "at"
  <2>1. NextRun(j, r, t) = IF Exhausted(j, r) THEN None ELSE r.at
    BY <1>5 DEF NextRun, Exhausted
  <2> QED
    BY <2>1
<1> QED
  BY <1>1, <1>3, <1>4, <1>5 DEF Kinds

-----------------------------------------------------------------------------
(* Slots: what the maintenance does to them. *)

(* s is the record r after a walk at time t that recomputes only slots for *)
(* which Refresh holds: everything but slot and marker stays.              *)
SameJob(r, s) ==
  /\ s.enabled = r.enabled /\ s.at = r.at /\ s.lastRun = r.lastRun
  /\ s.status = r.status /\ s.errs = r.errs

Tended(j, r, s, t, may) ==
  /\ s \in JobShape /\ SameJob(r, s)
  /\ ~ r.enabled => s.next = None
  /\ r.enabled => \/ s.next = r.next /\ r.next # None
                  \/ s.next = NextRun(j, s, t) /\ (r.next = None \/ may)

(* Why the maintenance after an execution gives up a past-due slot: it ran. *)
RanSlot(r) == r.lastRun # None /\ r.lastRun >= r.next

LEMMA NormalisedSame ==
  ASSUME NEW r \in JobShape, NEW t
  PROVE  /\ Normalised(r, t) \in JobShape /\ SameJob(r, Normalised(r, t))
         /\ r.enabled => Normalised(r, t).next = r.next
         /\ ~ r.enabled => Normalised(r, t).next = None
<1>1. None \in Int
  BY DEF None
<1>2. CASE ~r.enabled
  <2>1. Normalised(r, t) = [r EXCEPT !.next = None, !.running = None]
    BY <1>2 DEF Normalised
  <2> QED
    BY <1>1, <1>2, <2>1 DEF SameJob, JobShape
<1>3. CASE r.enabled /\ IsStuck(r, t)
  <2>1. Normalised(r, t) = [r EXCEPT !.running = None]
    BY <1>3 DEF Normalised
  <2> QED
    BY <1>1, <1>3, <2>1 DEF SameJob, JobShape
<1>4. CASE r.enabled /\ ~IsStuck(r, t)
  <2>1. Normalised(r, t) = r
    BY <1>4 DEF Normalised
  <2> QED
    BY <1>4, <2>1 DEF SameJob
<1> QED
  BY <1>2, <1>3, <1>4

LEMMA RefreshedTended ==
  ASSUME NEW j \in Jobs, NEW r \in JobShape, NEW t \in Int, NEW may,
         NEW s \in JobShape, SameJob(r, s), r.enabled, r.next = None \/ may
  PROVE  Tended(j, r, [s EXCEPT !.next = NextRun(j, s, t)], t, may)
<1> DEFINE w == [s EXCEPT !.next = NextRun(j, s, t)]
<1>1. NextRun(j, s, t) \in Int
  BY NextRunInt
<1>2. w \in JobShape /\ SameJob(r, w) /\ w.next = NextRun(j, s, t)
      /\ w.enabled = s.enabled /\ w.lastRun = s.lastRun /\ w.status = s.status
      /\ w.at = s.at
  BY <1>1 DEF JobShape, SameJob
<1> HIDE DEF w
<1>3. NextRun(j, w, t) = NextRun(j, s, t)
  BY <1>2 DEF NextRun
<1>4. Tended(j, r, w, t, may)
  <2>1. r.next = None \/ may
    OBVIOUS
  <2> QED
    BY <1>2, <1>3, <2>1, Zenon DEF Tended
<1> QED
  BY <1>4 DEF w

LEMMA RecomputedTended ==
  ASSUME NEW J, JobsShape(J), NEW t \in Int
  PROVE  \A j \in DOMAIN J : Tended(j, J[j], Recomputed(J, t)[j], t, t >= J[j].next)
<1> SUFFICES ASSUME NEW j \in DOMAIN J
             PROVE  Tended(j, J[j], Recomputed(J, t)[j], t, t >= J[j].next)
  OBVIOUS
<1> DEFINE r == J[j]
           n == Normalised(r, t)
<1>1. r \in JobShape /\ j \in Jobs
  BY DEF JobsShape
<1>2. /\ n \in JobShape /\ SameJob(r, n)
      /\ r.enabled => n.next = r.next
      /\ ~ r.enabled => n.next = None
  BY <1>1, NormalisedSame
<1>3. Recomputed(J, t)[j] = IF n.enabled /\ (n.next = None \/ t >= n.next)
                              THEN [n EXCEPT !.next = NextRun(j, n, t)] ELSE n
  BY DEF Recomputed, Walked
<1> HIDE DEF n, r
<1>4. CASE r.enabled /\ (r.next = None \/ t >= r.next)
  <2>1. Recomputed(J, t)[j] = [n EXCEPT !.next = NextRun(j, n, t)]
    BY <1>2, <1>3, <1>4 DEF SameJob
  <2>2. Tended(j, r, [n EXCEPT !.next = NextRun(j, n, t)], t, t >= r.next)
    BY <1>1, <1>2, <1>4, RefreshedTended
  <2> QED
    BY <2>1, <2>2 DEF r
<1>5. CASE ~ (r.enabled /\ (r.next = None \/ t >= r.next))
  <2>1. Recomputed(J, t)[j] = n
    BY <1>2, <1>3, <1>5 DEF SameJob
  <2>2. Tended(j, r, n, t, t >= r.next)
    BY <1>2, <1>5 DEF Tended
  <2> QED
    BY <2>1, <2>2 DEF r
<1> QED
  BY <1>4, <1>5

LEMMA MaintainedTended ==
  ASSUME NEW J, JobsShape(J), NEW t \in Int, NEW e \in BOOLEAN
  PROVE  \A j \in DOMAIN J :
           Tended(j, J[j], Maintained(J, t, e)[j], t, e /\ t >= J[j].next /\ RanSlot(J[j]))
<1> SUFFICES ASSUME NEW j \in DOMAIN J
             PROVE  Tended(j, J[j], Maintained(J, t, e)[j], t,
                           e /\ t >= J[j].next /\ RanSlot(J[j]))
  OBVIOUS
<1> DEFINE r == J[j]
           n == Normalised(r, t)
           redo == n.next = None \/ (e /\ t >= n.next /\ SlotRan(n))
           may == e /\ t >= r.next /\ RanSlot(r)
<1>1. r \in JobShape /\ j \in Jobs
  BY DEF JobsShape
<1>2. /\ n \in JobShape /\ SameJob(r, n)
      /\ r.enabled => n.next = r.next
      /\ ~ r.enabled => n.next = None
  BY <1>1, NormalisedSame
<1>3. Maintained(J, t, e)[j] = IF n.enabled /\ redo
                                 THEN [n EXCEPT !.next = NextRun(j, n, t)] ELSE n
  BY DEF Maintained, Walked
<1>4. r.enabled /\ redo => r.next = None \/ may
  BY <1>2 DEF SlotRan, RanSlot, SameJob
<1>5. r.enabled /\ r.next = None => redo
  BY <1>2
<1> HIDE DEF n, r, redo, may
<1>6. CASE r.enabled /\ redo
  <2>1. Maintained(J, t, e)[j] = [n EXCEPT !.next = NextRun(j, n, t)]
    BY <1>2, <1>3, <1>6 DEF SameJob
  <2>2. Tended(j, r, [n EXCEPT !.next = NextRun(j, n, t)], t, may)
    BY <1>1, <1>2, <1>4, <1>6, RefreshedTended
  <2> QED
    BY <2>1, <2>2 DEF r, may
<1>7. CASE ~ (r.enabled /\ redo)
  <2>1. Maintained(J, t, e)[j] = n
    BY <1>2, <1>3, <1>7 DEF SameJob
  <2>2. Tended(j, r, n, t, may)
    BY <1>2, <1>5, <1>7 DEF Tended
  <2> QED
    BY <2>1, <2>2 DEF r, may
<1> QED
  BY <1>6, <1>7

(* The maintenance keeps good slots good: it gives up a slot only when it  *)
(* is past due, and then the end of the backoff window is past, too.       *)
LEMMA TendedGood ==
  ASSUME now \in Nat, NEW j \in Jobs, NEW r \in JobShape, NEW s, NEW h \in Nat, NEW may \in BOOLEAN,
         may => now >= r.next, Tended(j, r, s, now, may), Good(j, r, h)
  PROVE  Good(j, s, h)
<1>1. /\ s \in JobShape /\ s.enabled = r.enabled /\ s.at >= 1
      /\ Exhausted(j, s) <=> Exhausted(j, r)
  BY DEF Tended, SameJob, Good, Exhausted
<1>2. CASE ~ r.enabled
  BY <1>1, <1>2 DEF Tended, Good
<1>3. CASE r.enabled /\ s.next = r.next
  BY <1>1, <1>3 DEF Good
<1>4. CASE r.enabled /\ s.next = NextRun(j, s, now) /\ (r.next = None \/ may)
  <2>1. \/ s.next >= 1 /\ ~ Exhausted(j, s)
        \/ s.next = None /\ Exhausted(j, s)
    BY <1>1, <1>4, NextRunLater
  <2>2. s.next # None => now >= h
    <3>1. CASE r.next = None
      BY <1>1, <1>4, <2>1, <3>1 DEF Good
    <3>2. CASE r.next # None
      BY <1>4, <3>2 DEF Good, JobShape
    <3> QED
      BY <3>1, <3>2
  <2> QED
    BY <1>1, <2>1, <2>2 DEF Good, None, JobShape
<1>5. r.enabled \in BOOLEAN
  BY DEF JobShape
<1>6. r.enabled => \/ s.next = r.next
                   \/ s.next = NextRun(j, s, now) /\ (r.next = None \/ may)
  BY Zenon DEF Tended
<1> QED
  BY <1>2, <1>3, <1>4, <1>5, <1>6

LEMMA RecomputedGood ==
  ASSUME now \in Nat, NEW J, JobsShape(J), NEW H \in [Jobs -> Nat], AllGood(J, H)
  PROVE  AllGood(Recomputed(J, now), H)
<1>1. DOMAIN Recomputed(J, now) = DOMAIN J
  BY DEF Recomputed, Walked
<1>2. ASSUME NEW j \in DOMAIN J PROVE Good(j, Recomputed(J, now)[j], H[j])
  <2> DEFINE may == now >= J[j].next
  <2>1. J[j] \in JobShape /\ j \in Jobs /\ H[j] \in Nat /\ now \in Int
    BY DEF JobsShape
  <2>2. Tended(j, J[j], Recomputed(J, now)[j], now, may)
    BY <2>1, RecomputedTended
  <2>3. may \in BOOLEAN /\ (may => now >= J[j].next) /\ Good(j, J[j], H[j])
    BY DEF AllGood
  <2> HIDE DEF may
  <2> QED
    BY <2>1, <2>2, <2>3, TendedGood
<1> QED
  BY <1>1, <1>2 DEF AllGood

LEMMA MaintainedGood ==
  ASSUME now \in Nat, NEW J, JobsShape(J), NEW H \in [Jobs -> Nat], AllGood(J, H), NEW e \in BOOLEAN
  PROVE  AllGood(Maintained(J, now, e), H)
<1>1. DOMAIN Maintained(J, now, e) = DOMAIN J
  BY DEF Maintained, Walked
<1>2. ASSUME NEW j \in DOMAIN J PROVE Good(j, Maintained(J, now, e)[j], H[j])
  <2> DEFINE may == e /\ now >= J[j].next /\ RanSlot(J[j])
  <2>1. J[j] \in JobShape /\ j \in Jobs /\ H[j] \in Nat /\ now \in Int
    BY DEF JobsShape
  <2>2. Tended(j, J[j], Maintained(J, now, e)[j], now, may)
    BY <2>1, MaintainedTended
  <2>3. may \in BOOLEAN /\ (may => now >= J[j].next) /\ Good(j, J[j], H[j])
    BY DEF AllGood
  <2> HIDE DEF may
  <2> QED
    BY <2>1, <2>2, <2>3, TendedGood
<1> QED
  BY <1>1, <1>2 DEF AllGood

-----------------------------------------------------------------------------
(* Slots: what an outcome does to them. *)

(* The end of the backoff window after the outcome of run left s.          *)
WindowEnd(s, run) == IF run.result \in Failures THEN run.ended + Backoff(s.errs) ELSE 0

LEMMA BackoffNat == \A e : Backoff(e) \in Nat
  BY CronAssumption DEF Backoff

(* An at-job leaves the outcome with a retry slot or disabled, a recurring *)
(* one with a slot; neither slot is inside the backoff window.             *)
LEMMA AppliedGood ==
  ASSUME now \in Nat, NEW j \in Jobs, NEW old \in JobShape, NEW run \in RunShape,
         run.ended >= 1, old.at >= 1
  PROVE  Good(j, Applied(j, old, run), WindowEnd(Applied(j, old, run), run))
<1> DEFINE failed == run.result \in Failures
           errs == IF failed THEN old.errs + 1 ELSE 0
           r == [old EXCEPT !.running = None, !.lastRun = run.began,
                            !.status = IF failed THEN "error" ELSE run.result,
                            !.errs = Smaller(errs, 2)]
           lastRun == IF run.force /\ Kind[j] = "every" THEN old.lastRun ELSE run.began
           s == Applied(j, old, run)
<1>1. s = IF Kind[j] = "at"
            THEN IF run.result = "transient" /\ errs <= MaxAttempts
                   THEN [r EXCEPT !.next = run.ended + Backoff(errs)]
                   ELSE [r EXCEPT !.enabled = FALSE, !.next = None]
            ELSE [r EXCEPT !.next = RecurringNext(j, r, run, lastRun)]
  BY DEF Applied
<1>2. errs \in Int /\ lastRun \in Int /\ None \in Int /\ run.ended \in Nat /\ run.began \in Int
  BY DEF JobShape, RunShape, None
<1>3. /\ r \in JobShape /\ r.at = old.at /\ r.enabled = old.enabled
      /\ r.errs = Smaller(errs, 2)
  <2>1. (IF failed THEN "error" ELSE run.result) \in AllResults \cup {"none", "error"}
    BY DEF RunShape
  <2>2. Smaller(errs, 2) \in Int
    BY <1>2 DEF Smaller
  <2> HIDE DEF failed, errs
  <2> QED
    BY <1>2, <2>1, <2>2 DEF JobShape
<1>4. Backoff(Smaller(errs, 2)) = Backoff(errs)
  BY <1>2 DEF Smaller, Backoff
<1>5. failed <=> run.result \in Failures
  OBVIOUS
<1> HIDE DEF failed, errs, r, lastRun, s
<1>6. CASE Kind[j] = "at" /\ run.result = "transient" /\ errs <= MaxAttempts
  <2>1. s = [r EXCEPT !.next = run.ended + Backoff(errs)]
    BY <1>1, <1>6
  <2>2. s.next = run.ended + Backoff(errs) /\ s.at = old.at /\ s.errs = Smaller(errs, 2)
    BY <1>3, <2>1 DEF JobShape
  <2>3. WindowEnd(s, run) = run.ended + Backoff(errs)
    BY <1>4, <1>6, <2>2 DEF WindowEnd, Failures
  <2> QED
    BY <1>2, <2>2, <2>3, BackoffNat DEF Good, None, s, JobShape
<1>7. CASE Kind[j] = "at" /\ ~ (run.result = "transient" /\ errs <= MaxAttempts)
  <2>1. s = [r EXCEPT !.enabled = FALSE, !.next = None]
    BY <1>1, <1>7
  <2>2. s.next = None /\ s.at = old.at /\ s.enabled = FALSE
    BY <1>3, <2>1 DEF JobShape
  <2> QED
    BY <2>2 DEF Good, s
<1>8. CASE Kind[j] # "at"
  <2> DEFINE natural == NextRun(j, [r EXCEPT !.lastRun = lastRun], run.ended)
             next == RecurringNext(j, r, run, lastRun)
  <2>1. s = [r EXCEPT !.next = next]
    BY <1>1, <1>8
  <2>2. s.next = next /\ s.at = old.at /\ s.enabled = r.enabled /\ s.errs = Smaller(errs, 2)
    BY <1>3, <2>1 DEF JobShape
  <2>3. CASE ~ r.enabled
    <3>1. next = None
      BY <2>3 DEF RecurringNext
    <3> QED
      BY <2>2, <2>3, <3>1 DEF Good, s
  <2>4. CASE r.enabled
    <3>1. natural >= 1 /\ natural \in Int
      <4> DEFINE q == [r EXCEPT !.lastRun = lastRun]
      <4>1. q \in JobShape /\ q.enabled /\ q.at >= 1
        BY <1>2, <1>3, <2>4 DEF JobShape
      <4>2. ~ Exhausted(j, q)
        BY <1>8 DEF Exhausted
      <4> HIDE DEF q
      <4>3. NextRun(j, q, run.ended) >= 1 /\ NextRun(j, q, run.ended) \in Int
        BY <1>2, <4>1, <4>2, NextRunLater, NextRunInt
      <4> QED
        BY <4>3 DEF q
    <3> HIDE DEF natural
    <3>2. Gap \in Nat
      BY CronAssumption
    <3>3. next = IF run.result \in Failures
                   THEN Bigger(natural, run.ended + Backoff(r.errs))
                   ELSE IF Kind[j] = "cron" THEN Bigger(natural, run.ended + Gap) ELSE natural
      BY <2>4 DEF RecurringNext, natural
    <3> HIDE DEF next
    <3>4. next >= 1 /\ next \in Int /\ next >= WindowEnd(s, run)
      <4>1. CASE run.result \in Failures
        <5>1. WindowEnd(s, run) = run.ended + Backoff(r.errs)
          BY <1>3, <2>2, <4>1 DEF WindowEnd
        <5>2. next = Bigger(natural, run.ended + Backoff(r.errs))
          BY <3>3, <4>1
        <5>3. Backoff(r.errs) \in Nat
          BY BackoffNat
        <5> QED
          BY <1>2, <3>1, <5>1, <5>2, <5>3 DEF Bigger
      <4>2. CASE run.result \notin Failures
        <5>1. WindowEnd(s, run) = 0
          BY <4>2 DEF WindowEnd
        <5>2. next = IF Kind[j] = "cron" THEN Bigger(natural, run.ended + Gap) ELSE natural
          BY <3>3, <4>2
        <5> QED
          BY <1>2, <3>1, <3>2, <5>1, <5>2 DEF Bigger
      <4> QED
        BY <4>1, <4>2
    <3> QED
      BY <2>2, <3>4 DEF Good, None, s
  <2> QED
    BY <2>3, <2>4
<1> QED
  BY <1>6, <1>7, <1>8

LEMMA OutcomesGood ==
  ASSUME now \in Nat, NEW J, JobsShape(J), NEW fin \in SUBSET RunShape,
         \A run \in fin : run.ended >= 1, hold \in [Jobs -> Nat], AllGood(J, hold)
  PROVE  /\ AllGood(Outcomes(J, fin), Held(Outcomes(J, fin), fin))
         /\ Held(Outcomes(J, fin), fin) \in [Jobs -> Nat]
         /\ \A j \in Jobs \ Finished(fin) : Held(Outcomes(J, fin), fin)[j] = hold[j]
         /\ \A j \in Jobs \ DOMAIN Outcomes(J, fin) :
              j \in Finished(fin) => Held(Outcomes(J, fin), fin)[j] = 0
<1> DEFINE O == Outcomes(J, fin)
           H == Held(O, fin)
           Run(j) == CHOOSE run \in fin : run.job = j
<1>1. JobsShape(O) /\ DOMAIN O \subseteq DOMAIN J
  BY OutcomesAre
<1>2. \A j \in Finished(fin) : Run(j) \in fin
  BY DEF Finished
<1>3. \A j \in DOMAIN O : O[j] = IF j \in Finished(fin) THEN Applied(j, J[j], Run(j)) ELSE J[j]
  BY DEF Outcomes, Finished
<1>4. H = [j \in Jobs |-> IF j \in Finished(fin)
                            THEN IF Run(j).result \in Failures /\ j \in DOMAIN O
                                   THEN Run(j).ended + Backoff(O[j].errs) ELSE 0
                            ELSE hold[j]]
  BY Zenon DEF Held, Finished
<1> HIDE DEF O, H, Run
<1>5. \A j \in Finished(fin) : Run(j) \in RunShape /\ Run(j).ended >= 1 /\ Run(j).ended \in Nat
  BY <1>2 DEF RunShape
<1>6. ASSUME NEW j \in Jobs PROVE H[j] \in Nat
  BY <1>4, <1>5, BackoffNat
<1>7. ASSUME NEW j \in DOMAIN O PROVE Good(j, O[j], H[j])
  <2>1. j \in Jobs /\ j \in DOMAIN J /\ J[j] \in JobShape /\ Good(j, J[j], hold[j])
    BY <1>1 DEF JobsShape, AllGood
  <2>2. CASE j \in Finished(fin)
    <3>1. O[j] = Applied(j, J[j], Run(j))
      BY <1>3, <2>2
    <3>2. H[j] = WindowEnd(O[j], Run(j))
      BY <1>4, <2>1, <2>2 DEF WindowEnd
    <3>3. J[j].at >= 1
      BY <2>1 DEF Good
    <3>4. Good(j, Applied(j, J[j], Run(j)), WindowEnd(Applied(j, J[j], Run(j)), Run(j)))
      BY <1>5, <2>1, <2>2, <3>3, AppliedGood
    <3> QED
      BY <3>1, <3>2, <3>4
  <2>3. CASE j \notin Finished(fin)
    BY <1>3, <1>4, <2>1, <2>3
  <2> QED
    BY <2>2, <2>3
<1>8. AllGood(O, H) /\ H \in [Jobs -> Nat]
  BY <1>4, <1>6, <1>7 DEF AllGood
<1> QED
  BY <1>4, <1>8 DEF O, H

-----------------------------------------------------------------------------
(* Slots: the invariant. *)

Ended(R) == \A run \in R : run.stage = "done" => run.ended >= 1

(* A job that a tick has reserved is not inside its backoff window.        *)
MarksClear(R, H) ==
  \A run \in R : run.by = "tick" /\ run.stage = "marked" /\ ~ run.freed => now >= H[run.job]

(* There is nothing to arm the timer for.                                  *)
Silent(J) == \A j \in DOMAIN J : J[j].enabled => J[j].next = None

Idle == phase = "up" /\ timer = None /\ tick # "end"

Clock == now >= 1 /\ events \in Nat /\ Ended(runs)

Windows ==
  /\ hold \in [Jobs -> Nat]
  /\ \A j \in Jobs \ used : hold[j] = 0
  /\ MarksClear(runs, hold)

SInv == Clock /\ Windows /\ AllGood(jobs, hold) /\ (Idle => Silent(jobs))

(* armTimer arms a timer for every job with a slot.                        *)
LEMMA ArmedUnlessSilent ==
  ASSUME now \in Nat, NEW J, NEW H, JobsShape(J), AllGood(J, H), Armed(J) = None
  PROVE  Silent(J)
<1> DEFINE due == {J[j].next : j \in {i \in DOMAIN J : J[i].enabled /\ J[i].next # None}}
           first == CHOOSE t \in due : \A u \in due : t <= u
<1>1. due = {} => Silent(J)
  BY DEF Silent
<1>2. due \in SUBSET Nat
  <2>1. ASSUME NEW i \in DOMAIN J, J[i].next # None PROVE J[i].next \in Nat
    <3>1. J[i] \in JobShape /\ J[i].next >= 1
      BY <2>1 DEF JobsShape, AllGood, Good
    <3> QED
      BY <3>1 DEF JobShape
  <2> QED
    BY <2>1
<1>3. Armed(J) = IF due = {} THEN None
                 ELSE IF first <= now THEN now + Smaller(Gap, Recheck)
                                      ELSE Smaller(first, now + Recheck)
  BY DEF Armed
<1> HIDE DEF due
<1>4. due # {} => first \in Nat
  <2>1. due # {} => \E t \in due : \A u \in due : t <= u
    BY <1>2, Least
  <2>2. due # {} => first \in due
    BY <2>1
  <2> HIDE DEF first
  <2> QED
    BY <1>2, <2>2
<1> HIDE DEF first
<1>5. due # {} => Armed(J) >= 0
  BY <1>3, <1>4, CronAssumption DEF Smaller
<1> QED
  BY <1>1, <1>5 DEF None

(* A walk over silent jobs arms nothing.                                   *)
LEMMA MaintainedSilent ==
  ASSUME now \in Nat, NEW J, NEW H, JobsShape(J), AllGood(J, H), Silent(J), NEW e \in BOOLEAN
  PROVE  Silent(Maintained(J, now, e))
<1>1. DOMAIN Maintained(J, now, e) = DOMAIN J
  BY DEF Maintained, Walked
<1>2. ASSUME NEW j \in DOMAIN J, Maintained(J, now, e)[j].enabled
      PROVE  Maintained(J, now, e)[j].next = None
  <2> DEFINE s == Maintained(J, now, e)[j]
             may == e /\ now >= J[j].next /\ RanSlot(J[j])
  <2>1. J[j] \in JobShape /\ j \in Jobs /\ now \in Int /\ Good(j, J[j], H[j])
    BY DEF JobsShape, AllGood
  <2>2. Tended(j, J[j], s, now, may)
    BY <2>1, MaintainedTended
  <2> HIDE DEF s, may
  <2>3. s \in JobShape /\ s.enabled /\ J[j].enabled /\ s.at >= 1 /\ (Exhausted(j, s) <=> Exhausted(j, J[j]))
    BY <1>2, <2>1, <2>2 DEF Tended, SameJob, Exhausted, Good, s
  <2>4. J[j].next = None /\ Exhausted(j, J[j])
    BY <2>1, <2>3 DEF Silent, Good
  <2>5. s.next = NextRun(j, s, now)
    BY <2>2, <2>3, <2>4 DEF Tended
  <2>6. s.next = None
    BY <2>1, <2>3, <2>4, <2>5, NextRunLater
  <2> QED
    BY <2>6 DEF s
<1> QED
  BY <1>1, <1>2 DEF Silent

(* A change of markers only.                                               *)
Remarked(J, K) ==
  /\ DOMAIN K = DOMAIN J
  /\ \A j \in DOMAIN J : SameJob(J[j], K[j]) /\ K[j].next = J[j].next

LEMMA RemarkedGood ==
  ASSUME NEW J, NEW K, NEW H, Remarked(J, K)
  PROVE  /\ AllGood(J, H) => AllGood(K, H)
         /\ Silent(J) => Silent(K)
<1>1. ASSUME NEW j \in DOMAIN J, Good(j, J[j], H[j]) PROVE Good(j, K[j], H[j])
  <2>1. SameJob(J[j], K[j]) /\ K[j].next = J[j].next
    BY DEF Remarked
  <2>2. Exhausted(j, K[j]) <=> Exhausted(j, J[j])
    BY <2>1 DEF Exhausted, SameJob
  <2> QED
    BY <1>1, <2>1, <2>2 DEF Good, SameJob
<1> QED
  BY <1>1 DEF AllGood, Silent, Remarked, SameJob

LEMMA RemarkStep ==
  ASSUME SInv, now' = now, events' = events, used' = used, hold' = hold,
         Remarked(jobs, jobs'), Ended(runs'), MarksClear(runs', hold),
         Idle' => Idle
  PROVE  SInv'
<1>1. AllGood(jobs', hold)
  BY RemarkedGood DEF SInv
<1>2. AllGood(jobs, hold)'
  BY <1>1 DEF AllGood, Good, Exhausted
<1>3. (Idle => Silent(jobs))'
  BY RemarkedGood DEF SInv, Silent
<1>4. Clock' /\ Windows'
  BY DEF SInv, Clock, Windows, MarksClear, Ended
<1> QED
  BY <1>2, <1>3, <1>4 DEF SInv

(* The runs after a walk: no marked run of a tick has its job's window     *)
(* opened under it, because an outcome of the job would have freed it.     *)
LEMMA AfterTimes ==
  ASSUME IInv, SInv, phase # "down", NEW fin \in SUBSET runs, NEW A, NEW J, After(A, J, fin),
         NEW H, \A j \in Jobs \ Finished(fin) : H[j] \in {hold[j], 0}
  PROVE  /\ Ended(Freed(runs \ fin, J, Finished(fin)))
         /\ MarksClear(Freed(runs \ fin, J, Finished(fin)), H)
<1> DEFINE F == Freed(runs \ fin, J, Finished(fin))
<1>1. F \subseteq RunShape /\ Guarded(J, F) /\ runs \ fin \in SUBSET RunShape
  BY AfterSafe DEF IInv, Shape
<1>2. \A x \in F : \E run \in runs \ fin :
         /\ x \in RunShape /\ x.job = run.job /\ x.stage = run.stage
         /\ x = [run EXCEPT !.freed = x.freed]
         /\ x.freed <=> Excusable(run, J, Finished(fin))
  BY <1>1, FreedIs
<1> HIDE DEF F
<1>3. ASSUME NEW x \in F, x.stage = "done" PROVE x.ended >= 1
  <2>1. PICK run \in runs : x.stage = run.stage /\ x = [run EXCEPT !.freed = x.freed] /\ run \in RunShape
    BY <1>1, <1>2
  <2>2. x.ended = run.ended
    BY <2>1 DEF RunShape
  <2> QED
    BY <1>3, <2>1, <2>2 DEF SInv, Clock, Ended
<1>4. ASSUME NEW x \in F, x.by = "tick", x.stage = "marked", ~ x.freed PROVE now >= H[x.job]
  <2>1. PICK run \in runs \ fin : /\ x \in RunShape /\ x.job = run.job /\ x.stage = run.stage
                                  /\ x = [run EXCEPT !.freed = x.freed]
                                  /\ x.freed <=> Excusable(run, J, Finished(fin))
    BY <1>2
  <2>2. run \in RunShape /\ x.by = run.by /\ ~ run.freed
    BY <1>1, <1>4, <2>1 DEF RunShape, Excusable
  <2>3. now >= hold[x.job]
    BY <1>4, <2>1, <2>2 DEF SInv, Windows, MarksClear
  <2>4. x.job \in DOMAIN J /\ J[x.job].running # None /\ x.job \in Jobs
    BY <1>1, <1>4 DEF Guarded, Protected, Started, RunShape
  <2>5. x.job \notin Finished(fin)
    BY <2>4 DEF After, Kept
  <2>6. now >= 0
    BY DEF IInv, Shape
  <2> QED
    BY <2>3, <2>4, <2>5, <2>6
<1> QED
  BY <1>3, <1>4 DEF Ended, MarksClear, F

LEMMA AfterSlots ==
  ASSUME IInv, SInv, phase # "down", now' = now, events' \in Nat, used \subseteq used',
         NEW fin \in SUBSET runs, NEW A, After(A, jobs', fin),
         runs' = Freed(runs \ fin, jobs', Finished(fin)),
         hold' \in [Jobs -> Nat],
         \A j \in Jobs \ used' : hold'[j] = 0,
         \A j \in Jobs \ Finished(fin) : hold'[j] \in {hold[j], 0},
         AllGood(jobs', hold'), Idle' => Silent(jobs')
  PROVE  SInv'
<1>1. Ended(runs') /\ MarksClear(runs', hold')
  BY AfterTimes
<1>2. AllGood(jobs, hold)'
  BY DEF AllGood, Good, Exhausted
<1>3. (Idle => Silent(jobs))'
  BY DEF Silent
<1>4. Clock'
  BY <1>1 DEF SInv, Clock, Ended
<1>5. Windows'
  BY <1>1 DEF Windows, MarksClear
<1> QED
  BY <1>2, <1>3, <1>4, <1>5 DEF SInv

-----------------------------------------------------------------------------
(* Slots: the initial states and the actions. *)

LEMMA CreatedGood ==
  ASSUME now \in Nat, NEW j \in Jobs, NEW at \in Nat, at >= 1
  PROVE  Created(j, at) \in JobShape /\ Good(j, Created(j, at), 0)
<1> DEFINE r == FreshJob(at)
           s == Created(j, at)
<1>1. r \in JobShape /\ r.enabled /\ r.at = at /\ r.status = "none"
  BY DEF FreshJob, JobShape, None
<1>2. s = [r EXCEPT !.next = NextRun(j, r, now)]
  BY DEF Created
<1> HIDE DEF r, s
<1>3. NextRun(j, r, now) \in Int /\ NextRun(j, r, now) >= 1
  BY <1>1, NextRunInt, NextRunLater DEF Exhausted
<1>4. s \in JobShape /\ s.at = at /\ s.enabled /\ s.next = NextRun(j, r, now)
  BY <1>1, <1>2, <1>3 DEF JobShape
<1> QED
  BY <1>3, <1>4 DEF Good, None, s

LEMMA InitSlots == Init => SInv
<1> SUFFICES ASSUME Init PROVE SInv
  OBVIOUS
<1>1. /\ now = 1 /\ runs = {} /\ phase = "down" /\ used \in SUBSET Jobs /\ events = 0
      /\ jobs = [j \in used |-> Created(j, 1)] /\ hold = [j \in Jobs |-> 0]
  BY DEF Init
<1>2. AllGood(jobs, hold)
  BY <1>1, CreatedGood DEF AllGood
<1> QED
  BY <1>1, <1>2 DEF SInv, Clock, Ended, Windows, MarksClear, Idle

LEMMA SameRemarked ==
  ASSUME JobsShape(jobs), NEW S, NEW m,
         jobs' = [j \in DOMAIN jobs |->
                    IF j \in S THEN [jobs[j] EXCEPT !.running = m] ELSE jobs[j]]
  PROVE  Remarked(jobs, jobs')
<1>1. \A r \in JobShape : /\ SameJob(r, [r EXCEPT !.running = m])
                          /\ [r EXCEPT !.running = m].next = r.next
  BY DEF SameJob, JobShape
<1>2. \A j \in DOMAIN jobs : jobs[j] \in JobShape /\ SameJob(jobs[j], jobs[j])
  BY DEF JobsShape, SameJob
<1> QED
  BY <1>1, <1>2 DEF Remarked

(* The jobs that a section reserves, and their runs.                       *)
LEMMA ReservedTimes ==
  ASSUME SInv, NEW S \in SUBSET DOMAIN jobs, NEW by \in {"tick", "catchup"},
         by = "tick" => \A j \in S : now >= hold[j],
         runs' = runs \cup {NewRun(j, by, "marked", FALSE) : j \in S}
  PROVE  Ended(runs') /\ MarksClear(runs', hold)
<1>1. Ended(runs) /\ MarksClear(runs, hold)
  BY DEF SInv, Clock, Windows
<1>2. \A j \in S : /\ NewRun(j, by, "marked", FALSE).stage = "marked"
                   /\ NewRun(j, by, "marked", FALSE).by = by
                   /\ NewRun(j, by, "marked", FALSE).job = j
  BY DEF NewRun
<1>3. ASSUME NEW run \in runs', run \notin runs
      PROVE  run.stage = "marked" /\ run.by = by /\ run.job \in S
  <2>1. PICK j \in S : run = NewRun(j, by, "marked", FALSE)
    BY <1>3
  <2> QED
    BY <1>2, <2>1
<1>4. Ended(runs')
  BY <1>1, <1>3 DEF Ended
<1>5. ASSUME NEW run \in runs', run.by = "tick", run.stage = "marked", ~ run.freed
      PROVE  now >= hold[run.job]
  <2>1. CASE run \in runs
    BY <1>1, <1>5, <2>1, Zenon DEF MarksClear
  <2>2. CASE run \notin runs
    BY <1>3, <1>5, <2>2, Zenon
  <2> QED
    BY <2>1, <2>2
<1> QED
  BY <1>4, <1>5, Zenon DEF MarksClear

LEMMA StartSlots == IInv /\ SInv /\ Start => SInv'
<1> SUFFICES ASSUME IInv, SInv, Start PROVE SInv'
  OBVIOUS
<1>1. /\ now' = now /\ events' = events /\ used' = used /\ hold' = hold /\ runs' = runs
      /\ phase' = "plan" /\ JobsShape(jobs)
      /\ jobs' = [j \in DOMAIN jobs |-> [jobs[j] EXCEPT !.running = None]]
  BY DEF Start, IInv, Shape
<1>2. Remarked(jobs, jobs')
  BY <1>1 DEF Remarked, SameJob, JobsShape, JobShape
<1> QED
  BY <1>1, <1>2, RemarkStep DEF Idle, SInv, Clock, Windows

LEMMA PlanSlots == IInv /\ SInv /\ Plan => SInv'
<1> SUFFICES ASSUME IInv, SInv, Plan PROVE SInv'
  OBVIOUS
<1> DEFINE missed == {j \in DOMAIN jobs : Missed(j)}
<1>1. PICK first \in SUBSET missed :
        /\ phase' = IF missed = {} THEN "finish" ELSE "catchup"
        /\ runs' = runs \cup {NewRun(j, "catchup", "marked", FALSE) : j \in first}
        /\ jobs' = [j \in DOMAIN jobs |->
                      IF j \in first THEN [jobs[j] EXCEPT !.running = now] ELSE jobs[j]]
  BY DEF Plan
<1>2. /\ now' = now /\ events' = events /\ used' = used /\ hold' = hold /\ JobsShape(jobs)
      /\ first \in SUBSET DOMAIN jobs
  BY DEF Plan, IInv, Shape
<1>3. Remarked(jobs, jobs')
  BY <1>1, <1>2, SameRemarked
<1>4. Ended(runs') /\ MarksClear(runs', hold)
  BY <1>1, <1>2, ReservedTimes
<1>5. phase' # "up"
  BY <1>1
<1> QED
  BY <1>2, <1>3, <1>4, <1>5, RemarkStep DEF Idle

(* A due job is past its slot, and so past its backoff window.             *)
LEMMA TickScanSlots == IInv /\ SInv /\ TickScan => SInv'
<1> SUFFICES ASSUME IInv, SInv, TickScan PROVE SInv'
  OBVIOUS
<1> DEFINE due == {j \in DOMAIN jobs : Due(j)}
<1>1. /\ phase # "down" /\ phase' = phase /\ timer' = timer /\ now' = now /\ used' = used
      /\ events' = events /\ hold' = hold /\ tick = "scan" /\ JobsShape(jobs) /\ now \in Nat
  BY DEF TickScan, IInv, Safe, Shape
<1>2. hold \in [Jobs -> Nat] /\ AllGood(jobs, hold) /\ events \in Nat
  BY DEF SInv, Windows, Clock
<1>3. CASE due = {}
  <2>1. /\ jobs' = Maintained(jobs, now, TRUE)
        /\ runs' = Freed(runs, jobs', {}) /\ tick' = "end"
    BY <1>3 DEF TickScan
  <2> HIDE DEF due
  <2>2. AllGood(jobs', hold)
    BY <1>1, <1>2, <2>1, MaintainedGood
  <2>3. After(jobs, jobs', {}) /\ Finished({}) = {} /\ runs \ {} = runs
    BY <2>1, MaintainedAfter DEF Finished
  <2>4. ~ Idle'
    BY <2>1 DEF Idle
  <2>5. hold' \in [Jobs -> Nat] /\ \A j \in Jobs \ used' : hold'[j] = 0
    BY <1>1 DEF SInv, Windows
  <2> QED
    BY <1>1, <1>2, <2>1, <2>2, <2>3, <2>4, <2>5, AfterSlots
<1>4. CASE due # {}
  <2>1. /\ jobs' = [j \in DOMAIN jobs |->
                      IF j \in due THEN [jobs[j] EXCEPT !.running = now] ELSE jobs[j]]
        /\ runs' = runs \cup {NewRun(j, "tick", "marked", FALSE) : j \in due}
        /\ tick' = "run"
    BY <1>4 DEF TickScan
  <2>2. ASSUME NEW j \in due PROVE now >= hold[j]
    <3>0. j \in DOMAIN jobs /\ Due(j)
      OBVIOUS
    <3>1. Good(j, jobs[j], hold[j]) /\ jobs[j].enabled /\ jobs[j].next # None /\ now >= jobs[j].next
      BY <1>2, <3>0, Zenon DEF Due, AllGood
    <3>2. jobs[j].next \in Int /\ hold[j] \in Nat
      <4>1. jobs[j] \in JobShape /\ j \in Jobs
        BY <1>1, <3>0 DEF JobsShape
      <4> QED
        BY <1>2, <4>1 DEF JobShape
    <3> QED
      BY <1>1, <3>1, <3>2 DEF Good
  <2>3. due \in SUBSET DOMAIN jobs
    OBVIOUS
  <2>4. Idle' => Idle
    BY <1>1 DEF Idle
  <2> HIDE DEF due
  <2>5. Remarked(jobs, jobs')
    BY <1>1, <2>1, SameRemarked
  <2>6. Ended(runs') /\ MarksClear(runs', hold)
    BY <2>1, <2>2, <2>3, ReservedTimes
  <2> QED
    BY <1>1, <2>4, <2>5, <2>6, RemarkStep
<1> QED
  BY <1>3, <1>4

LEMMA ReadSlots == IInv /\ SInv /\ Read => SInv'
<1> SUFFICES ASSUME IInv, SInv, Read PROVE SInv'
  OBVIOUS
<1>1. /\ phase # "down" /\ phase' = phase /\ timer' = timer /\ tick' = tick /\ now' = now
      /\ used' = used /\ events' = events /\ hold' = hold /\ JobsShape(jobs) /\ now \in Nat
      /\ jobs' = Maintained(jobs, now, FALSE) /\ runs' = Freed(runs, jobs', {})
  BY DEF Read, IInv, Shape
<1>2. /\ hold \in [Jobs -> Nat] /\ AllGood(jobs, hold) /\ events \in Nat
      /\ \A j \in Jobs \ used : hold[j] = 0
  BY DEF SInv, Windows, Clock
<1>3. AllGood(jobs', hold)
  BY <1>1, <1>2, MaintainedGood
<1>4. After(jobs, jobs', {}) /\ Finished({}) = {} /\ runs \ {} = runs
  BY <1>1, MaintainedAfter DEF Finished
<1>5. Idle' => Silent(jobs')
  BY <1>1, <1>2, MaintainedSilent DEF SInv, Idle
<1> QED
  BY <1>1, <1>2, <1>3, <1>4, <1>5, AfterSlots

LEMMA ManualCheckSlots ==
  IInv /\ SInv /\ (\E j \in Jobs, force \in BOOLEAN : ManualCheck(j, force)) => SInv'
<1> SUFFICES ASSUME IInv, SInv, NEW j \in Jobs, NEW force \in BOOLEAN, ManualCheck(j, force)
             PROVE  SInv'
  OBVIOUS
<1> DEFINE F == Freed(runs, jobs', {})
           new == NewRun(j, "manual", "checked", force)
<1>1. /\ phase # "down" /\ phase' = phase /\ timer' = timer /\ tick' = tick /\ now' = now
      /\ used' = used /\ events' = events + 1 /\ hold' = hold /\ JobsShape(jobs) /\ now \in Nat
      /\ jobs' = Maintained(jobs, now, FALSE) /\ runs' = F \cup {new}
  BY DEF ManualCheck, Event, IInv, Shape
<1>2. /\ hold \in [Jobs -> Nat] /\ AllGood(jobs, hold) /\ events \in Nat
      /\ \A i \in Jobs \ used : hold[i] = 0
  BY DEF SInv, Windows, Clock
<1>3. AllGood(jobs', hold)
  BY <1>1, <1>2, MaintainedGood
<1>4. After(jobs, jobs', {}) /\ Finished({}) = {} /\ runs \ {} = runs
  BY <1>1, MaintainedAfter DEF Finished
<1>5. Idle' => Silent(jobs')
  BY <1>1, <1>2, MaintainedSilent DEF SInv, Idle
<1>6. Ended(F) /\ MarksClear(F, hold)
  BY <1>1, <1>4, AfterTimes
<1>7. new.stage = "checked"
  BY DEF NewRun
<1> HIDE DEF F, new
<1>8. Ended(runs') /\ MarksClear(runs', hold)
  BY <1>1, <1>6, <1>7 DEF Ended, MarksClear
<1>9. Clock' /\ Windows'
  BY <1>1, <1>2, <1>8 DEF Clock, Windows, Ended, MarksClear, SInv
<1>10. AllGood(jobs, hold)' /\ (Idle => Silent(jobs))'
  BY <1>1, <1>3, <1>5 DEF AllGood, Good, Exhausted, Silent
<1> QED
  BY <1>9, <1>10 DEF SInv

LEMMA TickApplySlots == IInv /\ SInv /\ TickApply => SInv'
<1> SUFFICES ASSUME IInv, SInv, TickApply PROVE SInv'
  OBVIOUS
<1> DEFINE fin == RunsOf("tick")
           O == Outcomes(jobs, fin)
<1>1. /\ phase # "down" /\ now' = now /\ used' = used /\ events' = events
      /\ jobs' = Maintained(O, now, FALSE) /\ tick' = "end" /\ hold' = Held(O, fin)
      /\ runs' = Freed(runs \ fin, jobs', Finished(fin)) /\ \A run \in fin : run.stage = "done"
  BY DEF TickApply, IInv, Safe, Finished
<1>2. fin \in SUBSET runs
  BY DEF RunsOf
<1> HIDE DEF fin
<1>3. /\ JobsShape(jobs) /\ now \in Nat /\ fin \in SUBSET RunShape /\ events \in Nat
      /\ hold \in [Jobs -> Nat] /\ AllGood(jobs, hold) /\ DOMAIN jobs \subseteq used
      /\ \A run \in fin : run.ended >= 1
      /\ \A j \in Jobs \ used : hold[j] = 0
  BY <1>1, <1>2 DEF IInv, Shape, SInv, Clock, Ended, Windows
<1>4. /\ AllGood(O, hold') /\ hold' \in [Jobs -> Nat] /\ JobsShape(O)
      /\ DOMAIN O \subseteq DOMAIN jobs
      /\ \A j \in Jobs \ Finished(fin) : hold'[j] = hold[j]
      /\ \A j \in Jobs \ DOMAIN O : j \in Finished(fin) => hold'[j] = 0
  BY <1>1, <1>3, OutcomesGood, OutcomesAre
<1>5. After(O, jobs', fin)
  BY <1>1, <1>2, OutcomeAfter
<1> HIDE DEF O
<1>6. AllGood(jobs', hold')
  BY <1>1, <1>3, <1>4, MaintainedGood
<1>7. \A j \in Jobs \ used' : hold'[j] = 0
  BY <1>1, <1>3, <1>4
<1>8. ~ Idle'
  BY <1>1 DEF Idle
<1> QED
  BY <1>1, <1>2, <1>3, <1>4, <1>5, <1>6, <1>7, <1>8, AfterSlots

LEMMA ManualFinishSlots == IInv /\ SInv /\ (\E run \in runs : ManualFinish(run)) => SInv'
<1> SUFFICES ASSUME IInv, SInv, NEW run \in runs, ManualFinish(run) PROVE SInv'
  OBVIOUS
<1> DEFINE fin == {run}
           O == Outcomes(jobs, fin)
<1>1. /\ phase # "down" /\ phase' = phase /\ tick' = tick /\ now' = now /\ used' = used
      /\ events' = events /\ runs' = Freed(runs \ fin, jobs', Finished(fin))
      /\ run.stage = "done"
  BY DEF ManualFinish, IInv, Safe, Finished
<1>2. fin \in SUBSET runs
  OBVIOUS
<1>3. /\ JobsShape(jobs) /\ now \in Nat /\ fin \in SUBSET RunShape /\ events \in Nat
      /\ hold \in [Jobs -> Nat] /\ AllGood(jobs, hold) /\ DOMAIN jobs \subseteq used
      /\ \A x \in fin : x.ended >= 1
      /\ \A j \in Jobs \ used : hold[j] = 0
  BY <1>1, <1>2 DEF IInv, Shape, SInv, Clock, Ended, Windows
<1>4. CASE run.job \in DOMAIN jobs
  <2>1. /\ jobs' = Maintained(O, now, TRUE) /\ timer' = Armed(jobs') /\ hold' = Held(O, fin)
    BY <1>4 DEF ManualFinish
  <2> HIDE DEF fin
  <2>2. /\ AllGood(O, hold') /\ hold' \in [Jobs -> Nat] /\ JobsShape(O)
        /\ DOMAIN O \subseteq DOMAIN jobs
        /\ \A j \in Jobs \ Finished(fin) : hold'[j] = hold[j]
        /\ \A j \in Jobs \ DOMAIN O : j \in Finished(fin) => hold'[j] = 0
    BY <1>3, <2>1, OutcomesGood, OutcomesAre
  <2>3. After(O, jobs', fin)
    BY <1>2, <2>1, OutcomeAfter
  <2> HIDE DEF O
  <2>4. AllGood(jobs', hold') /\ JobsShape(jobs')
    BY <1>3, <2>1, <2>2, <2>3, MaintainedGood DEF After
  <2>5. \A j \in Jobs \ used' : hold'[j] = 0
    BY <1>1, <1>3, <2>2
  <2>6. timer' = None => Silent(jobs')
    BY <1>3, <2>1, <2>4, ArmedUnlessSilent
  <2>7. Idle' => Silent(jobs')
    BY <2>6 DEF Idle
  <2> QED
    BY <1>1, <1>2, <1>3, <2>2, <2>3, <2>4, <2>5, <2>7, AfterSlots
<1>5. CASE run.job \notin DOMAIN jobs
  <2>1. jobs' = jobs /\ timer' = timer /\ hold' = hold
    BY <1>5 DEF ManualFinish
  <2>2. \A i \in DOMAIN jobs : jobs[i] \in JobShape /\ Kept(jobs[i], jobs[i], now)
    BY <1>3 DEF JobsShape, Kept
  <2>3. After(jobs, jobs', fin)
    BY <1>3, <1>5, <2>1, <2>2 DEF After, Finished
  <2>4. Idle' => Silent(jobs')
    BY <1>1, <2>1 DEF SInv, Idle
  <2> HIDE DEF fin
  <2> QED
    BY <1>1, <1>2, <1>3, <2>1, <2>3, <2>4, AfterSlots
<1> QED
  BY <1>4, <1>5

LEMMA FinishStartSlots == IInv /\ SInv /\ FinishStart => SInv'
<1> SUFFICES ASSUME IInv, SInv, FinishStart PROVE SInv'
  OBVIOUS
<1>1. /\ phase # "down" /\ now' = now /\ used' = used /\ events' = events /\ hold' = hold
      /\ JobsShape(jobs) /\ now \in Nat /\ timer' = Armed(jobs')
      /\ jobs' = Recomputed(jobs, now) /\ runs' = Freed(runs, jobs', {})
  BY DEF FinishStart, IInv, Shape
<1>2. /\ hold \in [Jobs -> Nat] /\ AllGood(jobs, hold) /\ events \in Nat
      /\ \A j \in Jobs \ used : hold[j] = 0
  BY DEF SInv, Windows, Clock
<1>3. AllGood(jobs', hold)
  BY <1>1, <1>2, RecomputedGood
<1>4. After(jobs, jobs', {}) /\ Finished({}) = {} /\ runs \ {} = runs
  BY <1>1, RecomputedKept DEF After, Finished
<1>5. Idle' => Silent(jobs')
  <2>1. JobsShape(jobs')
    BY <1>4 DEF After
  <2> QED
    BY <1>1, <1>3, <2>1, ArmedUnlessSilent DEF Idle
<1> QED
  BY <1>1, <1>2, <1>3, <1>4, <1>5, AfterSlots

LEMMA AddSlots == IInv /\ SInv /\ (\E j \in Jobs : Add(j)) => SInv'
<1> SUFFICES ASSUME IInv, SInv, NEW j \in Jobs, Add(j) PROVE SInv'
  OBVIOUS
<1> DEFINE A == [i \in DOMAIN jobs \cup {j} |-> IF i = j THEN Created(j, now + 1) ELSE jobs[i]]
<1>1. /\ phase # "down" /\ now' = now /\ used' = used \cup {j} /\ events' = events + 1
      /\ jobs' = Recomputed(A, now) /\ runs' = Freed(runs, jobs', {}) /\ timer' = Armed(jobs')
      /\ j \notin used /\ hold' = hold /\ JobsShape(jobs) /\ now \in Nat /\ j \notin DOMAIN jobs
  BY DEF Add, Event, IInv, Shape
<1>2. /\ hold \in [Jobs -> Nat] /\ AllGood(jobs, hold) /\ events \in Nat
      /\ \A i \in Jobs \ used : hold[i] = 0
  BY DEF SInv, Windows, Clock
<1>3. Created(j, now + 1) \in JobShape /\ Good(j, Created(j, now + 1), hold[j])
  <2>1. now + 1 \in Nat /\ now + 1 >= 1 /\ hold[j] = 0
    BY <1>1, <1>2
  <2> QED
    BY <1>1, <2>1, CreatedGood
<1>4. Created(j, now + 1).running = None
  BY DEF Created, FreshJob
<1>5. JobsShape(A) /\ AllGood(A, hold)
  BY <1>1, <1>2, <1>3 DEF JobsShape, AllGood
<1>6. \A i \in DOMAIN A :
         A[i].running = IF i \notin DOMAIN jobs THEN None ELSE jobs[i].running
  BY <1>1, <1>4
<1> HIDE DEF A
<1>7. AllGood(jobs', hold)
  BY <1>1, <1>2, <1>5, RecomputedGood
<1>8. After(A, jobs', {}) /\ Finished({}) = {} /\ runs \ {} = runs
  BY <1>1, <1>5, <1>6, RecomputedKept DEF After, Finished
<1>9. Idle' => Silent(jobs')
  <2>1. JobsShape(jobs')
    BY <1>8 DEF After
  <2> QED
    BY <1>1, <1>7, <2>1, ArmedUnlessSilent DEF Idle
<1> QED
  BY <1>1, <1>2, <1>7, <1>8, <1>9, AfterSlots

LEMMA RemoveSlots == IInv /\ SInv /\ (\E j \in Jobs : Remove(j)) => SInv'
<1> SUFFICES ASSUME IInv, SInv, NEW j \in Jobs, Remove(j) PROVE SInv'
  OBVIOUS
<1>1. /\ phase # "down" /\ now' = now /\ used' = used /\ events' = events + 1 /\ hold' = hold
      /\ jobs' = [i \in DOMAIN jobs \ {j} |-> jobs[i]] /\ timer' = Armed(jobs')
      /\ runs' = Freed(runs, jobs', {}) /\ JobsShape(jobs) /\ now \in Nat
  BY DEF Remove, Event, IInv, Shape
<1>2. /\ hold \in [Jobs -> Nat] /\ AllGood(jobs, hold) /\ events \in Nat
      /\ \A i \in Jobs \ used : hold[i] = 0
  BY DEF SInv, Windows, Clock
<1>3. \A i \in DOMAIN jobs : jobs[i] \in JobShape /\ Kept(jobs[i], jobs[i], now)
  BY <1>1 DEF JobsShape, Kept
<1>4. After(jobs', jobs', {}) /\ Finished({}) = {} /\ runs \ {} = runs
  BY <1>1, <1>3 DEF After, Finished, JobsShape
<1>5. AllGood(jobs', hold)
  BY <1>1, <1>2 DEF AllGood
<1>6. Idle' => Silent(jobs')
  <2>1. JobsShape(jobs')
    BY <1>4 DEF After
  <2> QED
    BY <1>1, <1>5, <2>1, ArmedUnlessSilent DEF Idle
<1> QED
  BY <1>1, <1>2, <1>4, <1>5, <1>6, AfterSlots

(* An update opens no backoff window: the slot it computes may be earlier. *)
LEMMA UpdateSlots == IInv /\ SInv /\ (\E j \in Jobs : Update(j)) => SInv'
<1> SUFFICES ASSUME IInv, SInv, NEW j \in Jobs, Update(j) PROVE SInv'
  OBVIOUS
<1>1. PICK enabled \in BOOLEAN, at \in {jobs[j].at, now + 1} :
        LET r == [jobs[j] EXCEPT !.enabled = enabled, !.at = at]
        IN  jobs' = [jobs EXCEPT ![j] =
               IF enabled THEN [r EXCEPT !.next = NextRun(j, r, now)]
                          ELSE [r EXCEPT !.next = None, !.running = None]]
  BY DEF Update
<1>2. /\ phase # "down" /\ now' = now /\ used' = used /\ events' = events + 1
      /\ j \in DOMAIN jobs /\ runs' = Freed(runs, jobs', {}) /\ timer' = Armed(jobs')
      /\ hold' = [hold EXCEPT ![j] = 0] /\ JobsShape(jobs) /\ now \in Nat /\ None \in Int
  BY DEF Update, Event, IInv, Shape, None
<1>3. /\ hold \in [Jobs -> Nat] /\ AllGood(jobs, hold) /\ events \in Nat
      /\ \A i \in Jobs \ used : hold[i] = 0
  BY DEF SInv, Windows, Clock
<1> DEFINE r == [jobs[j] EXCEPT !.enabled = enabled, !.at = at]
           new == IF enabled THEN [r EXCEPT !.next = NextRun(j, r, now)]
                             ELSE [r EXCEPT !.next = None, !.running = None]
           A == [jobs EXCEPT ![j] = r]
<1>4. r \in JobShape /\ r.running = jobs[j].running /\ r.enabled = enabled /\ r.at >= 1
  <2>1. jobs[j] \in JobShape /\ Good(j, jobs[j], hold[j])
    BY <1>2, <1>3 DEF JobsShape, AllGood
  <2>2. at \in Int /\ at >= 1
    BY <1>2, <2>1 DEF JobShape, Good
  <2> QED
    BY <2>1, <2>2 DEF JobShape
<1> HIDE DEF r
<1>5. Kept(r, new, now) /\ new \in JobShape /\ Good(j, new, 0)
  <2>1. NextRun(j, r, now) \in Int
    BY <1>2, <1>4, NextRunInt
  <2>2. CASE enabled
    <3>1. new = [r EXCEPT !.next = NextRun(j, r, now)]
      BY <2>2
    <3>2. /\ new.at = r.at /\ new.next = NextRun(j, r, now) /\ new.enabled
          /\ new.status = r.status /\ new.lastRun = r.lastRun /\ new \in JobShape
      BY <1>4, <2>1, <2>2, <3>1 DEF JobShape
    <3>3. Kept(r, new, now)
      BY <1>4, <2>1, <2>2, <3>1 DEF Kept, JobShape
    <3>4. \/ NextRun(j, r, now) >= 1 /\ ~ Exhausted(j, r)
          \/ NextRun(j, r, now) = None /\ Exhausted(j, r)
      BY <1>2, <1>4, <2>2, NextRunLater
    <3> HIDE DEF new
    <3>5. Exhausted(j, new) <=> Exhausted(j, r)
      BY <3>2 DEF Exhausted
    <3>6. Good(j, new, 0)
      BY <1>2, <1>4, <3>2, <3>4, <3>5 DEF Good, None
    <3> QED
      BY <3>2, <3>3, <3>6
  <2>3. CASE ~ enabled
    <3>1. new = [r EXCEPT !.next = None, !.running = None]
      BY <2>3
    <3>2. new.at = r.at /\ new.next = None /\ ~ new.enabled /\ new \in JobShape
      BY <1>2, <1>4, <2>3, <3>1 DEF JobShape
    <3>3. Kept(r, new, now)
      BY <1>2, <1>4, <2>3, <3>1 DEF Kept, JobShape
    <3> HIDE DEF new
    <3> QED
      BY <1>4, <3>2, <3>3 DEF Good
  <2> QED
    BY <2>2, <2>3
<1>6. jobs' = [jobs EXCEPT ![j] = new]
  BY <1>1 DEF r
<1> HIDE DEF new
<1>7. After(A, jobs', {}) /\ Finished({}) = {} /\ runs \ {} = runs
  <2>1. \A i \in DOMAIN jobs : jobs[i] \in JobShape /\ Kept(jobs[i], jobs[i], now)
    BY <1>2 DEF JobsShape, Kept
  <2>2. JobsShape(jobs') /\ DOMAIN jobs' = DOMAIN A
    BY <1>2, <1>5, <1>6 DEF JobsShape
  <2>3. ASSUME NEW i \in DOMAIN A
        PROVE  Kept(A[i], jobs'[i], now) /\ A[i].running = jobs[i].running
    BY <1>2, <1>4, <1>5, <1>6, <2>1
  <2> QED
    BY <2>2, <2>3 DEF After, Finished
<1> HIDE DEF A
<1>8. hold' \in [Jobs -> Nat] /\ \A i \in Jobs : hold'[i] \in {hold[i], 0}
  BY <1>2, <1>3
<1>9. AllGood(jobs', hold')
  BY <1>2, <1>3, <1>5, <1>6 DEF AllGood
<1>10. Idle' => Silent(jobs')
  <2>1. JobsShape(jobs')
    BY <1>7 DEF After
  <2> QED
    BY <1>2, <1>9, <2>1, ArmedUnlessSilent DEF Idle
<1>11. \A i \in Jobs \ used' : hold'[i] = 0
  BY <1>2, <1>3, <1>8
<1>12. /\ runs' = Freed(runs \ {}, jobs', Finished({})) /\ events' \in Nat
       /\ \A i \in Jobs \ Finished({}) : hold'[i] \in {hold[i], 0}
  BY <1>2, <1>3, <1>7, <1>8
<1>13. hold' \in [Jobs -> Nat] /\ used \subseteq used' /\ {} \in SUBSET runs
  BY <1>2, <1>8
<1> QED
  BY <1>2, <1>7, <1>9, <1>10, <1>11, <1>12, <1>13, AfterSlots

(* A put-off job leaves its backoff window with the slot it is given.      *)
LEMMA CatchApplySlots == IInv /\ SInv /\ CatchApply => SInv'
<1> SUFFICES ASSUME IInv, SInv, CatchApply PROVE SInv'
  OBVIOUS
<1> DEFINE fin == RunsOf("catchup")
           after == Outcomes(jobs, fin)
           late == {j \in deferred \cap DOMAIN after : after[j].enabled}
           Slots(rank) == [j \in DOMAIN after |->
                             IF j \in late
                               THEN [after[j] EXCEPT !.next = now + rank[j] * Stagger]
                               ELSE after[j]]
           H == Held(after, fin)
<1>1. PICK rank \in [late -> 1 .. Cardinality(late)] :
        /\ jobs' = Maintained(Slots(rank), now, FALSE)
        /\ runs' = Freed(runs \ fin, jobs', Finished(fin))
        /\ hold' = [j \in Jobs |-> IF j \in late THEN 0 ELSE H[j]]
  BY DEF CatchApply, Finished
<1>2. /\ phase # "down" /\ phase' # "up" /\ now' = now /\ used' = used /\ events' = events
      /\ now \in Nat /\ fin \in SUBSET runs /\ \A run \in fin : run.stage = "done"
  BY DEF CatchApply, IInv, Shape, RunsOf
<1> HIDE DEF fin
<1>3. /\ JobsShape(jobs) /\ fin \in SUBSET RunShape /\ events \in Nat
      /\ hold \in [Jobs -> Nat] /\ AllGood(jobs, hold) /\ DOMAIN jobs \subseteq used
      /\ \A run \in fin : run.ended >= 1
      /\ \A j \in Jobs \ used : hold[j] = 0
  BY <1>2 DEF IInv, Shape, SInv, Clock, Ended, Windows
<1>4. /\ JobsShape(after) /\ DOMAIN after \subseteq DOMAIN jobs
      /\ \A j \in DOMAIN jobs \ Finished(fin) : after[j] = jobs[j]
      /\ \A j \in DOMAIN after : j \in Finished(fin) => after[j].running = None
  BY <1>3, OutcomesAre
<1>5. /\ AllGood(after, H) /\ H \in [Jobs -> Nat]
      /\ \A j \in Jobs \ Finished(fin) : H[j] = hold[j]
      /\ \A j \in Jobs \ DOMAIN after : j \in Finished(fin) => H[j] = 0
  BY <1>2, <1>3, OutcomesGood
<1> HIDE DEF after, H
<1>6. ASSUME NEW j \in late
      PROVE  now + rank[j] * Stagger \in Nat /\ now + rank[j] * Stagger >= 1
  <2>1. rank[j] \in 1 .. Cardinality(late)
    BY <1>1
  <2>2. rank[j] \in Int /\ rank[j] >= 1
    BY <2>1
  <2> HIDE DEF late
  <2>3. Stagger \in Nat /\ Stagger >= 1
    BY CronAssumption
  <2>4. rank[j] * Stagger \in Nat /\ rank[j] * Stagger >= 1
    BY <2>2, <2>3
  <2> QED
    BY <1>2, <2>4
<1>7. \A j \in DOMAIN after : after[j] \in JobShape /\ j \in Jobs
  BY <1>4 DEF JobsShape
<1>8. ASSUME NEW j \in DOMAIN after
      PROVE  /\ Slots(rank)[j] \in JobShape /\ Slots(rank)[j].running = after[j].running
             /\ Good(j, Slots(rank)[j], hold'[j])
  <2>1. CASE j \in late
    <3>1. Slots(rank)[j] = [after[j] EXCEPT !.next = now + rank[j] * Stagger]
      BY <2>1
    <3>2. now + rank[j] * Stagger \in Nat /\ now + rank[j] * Stagger >= 1
      BY <1>6, <2>1
    <3>3. hold'[j] = 0 /\ Good(j, after[j], H[j])
      BY <1>1, <1>5, <1>7, <2>1 DEF AllGood
    <3> HIDE DEF late, Slots
    <3>4. /\ Slots(rank)[j] \in JobShape /\ Slots(rank)[j].running = after[j].running
          /\ Slots(rank)[j].next = now + rank[j] * Stagger /\ Slots(rank)[j].at = after[j].at
      BY <1>7, <3>1, <3>2 DEF JobShape
    <3> QED
      BY <3>2, <3>3, <3>4 DEF Good, None
  <2>2. CASE j \notin late
    <3>1. Slots(rank)[j] = after[j]
      BY <2>2
    <3>2. hold'[j] = H[j]
      BY <1>1, <1>7, <2>2
    <3> QED
      BY <1>5, <1>7, <3>1, <3>2 DEF AllGood
  <2> QED
    BY <2>1, <2>2
<1>9. DOMAIN Slots(rank) = DOMAIN after /\ Slots(rank) = [j \in DOMAIN after |-> Slots(rank)[j]]
  OBVIOUS
<1>10. hold' \in [Jobs -> Nat]
  BY <1>1, <1>5
<1>11. \A j \in Jobs \ Finished(fin) : hold'[j] \in {hold[j], 0}
  BY <1>1, <1>5
<1>12. \A j \in Jobs \ used' : hold'[j] = 0
  <2> SUFFICES ASSUME NEW j \in Jobs \ used PROVE hold'[j] = 0
    BY <1>2
  <2>1. j \notin DOMAIN after /\ hold[j] = 0
    BY <1>3, <1>4
  <2>2. j \notin late
    BY <2>1
  <2>3. H[j] = 0
    BY <1>5, <2>1
  <2> QED
    BY <1>1, <2>2, <2>3
<1> HIDE DEF Slots, late
<1>13. JobsShape(Slots(rank)) /\ AllGood(Slots(rank), hold')
  <2>1. Slots(rank) \in [DOMAIN after -> JobShape]
    BY <1>8, <1>9
  <2> QED
    BY <1>4, <1>8, <1>9, <2>1 DEF JobsShape, AllGood
<1>14. AllGood(jobs', hold')
  BY <1>1, <1>2, <1>10, <1>13, MaintainedGood
<1>15. After(Slots(rank), jobs', fin)
  <2>1. ASSUME NEW j \in DOMAIN Slots(rank)
        PROVE  Slots(rank)[j].running = IF j \in Finished(fin) \/ j \notin DOMAIN jobs
                                          THEN None ELSE jobs[j].running
    BY <1>4, <1>8, <1>9
  <2>2. /\ JobsShape(jobs') /\ DOMAIN jobs' = DOMAIN Slots(rank)
        /\ \A j \in DOMAIN Slots(rank) : Kept(Slots(rank)[j], jobs'[j], now)
    <3>1. now \in Int /\ JobsShape(Slots(rank)) /\ jobs' = Maintained(Slots(rank), now, FALSE)
      BY <1>1, <1>2, <1>13
    <3> QED
      BY <3>1, MaintainedKept
  <2> QED
    BY <2>1, <2>2 DEF After
<1>16. ~ Idle'
  BY <1>2 DEF Idle
<1> QED
  BY <1>1, <1>2, <1>3, <1>10, <1>11, <1>12, <1>14, <1>15, <1>16, AfterSlots

LEMMA ExecStartSlots == IInv /\ SInv /\ (\E run \in runs : ExecStart(run)) => SInv'
<1> SUFFICES ASSUME IInv, SInv, NEW run \in runs, ExecStart(run) PROVE SInv'
  OBVIOUS
<1> DEFINE new == [run EXCEPT !.stage = "executing", !.began = now]
<1>1. run \in RunShape /\ now \in Nat /\ JobsShape(jobs)
  BY DEF IInv, Shape
<1>2. new.stage = "executing"
  BY <1>1 DEF RunShape
<1>3. /\ phase' = phase /\ tick' = tick /\ timer' = timer /\ now' = now /\ used' = used
      /\ events' = events /\ hold' = hold /\ runs' = (runs \ {run}) \cup {new}
      /\ \/ jobs' = jobs
         \/ run.job \in DOMAIN jobs /\ jobs' = [jobs EXCEPT ![run.job].running = now]
  BY DEF ExecStart
<1> HIDE DEF new
<1>4. Remarked(jobs, jobs')
  <2>1. CASE jobs' = jobs
    BY <2>1 DEF Remarked, SameJob
  <2>2. CASE jobs' = [jobs EXCEPT ![run.job].running = now]
    <3>1. jobs' = [j \in DOMAIN jobs |->
                     IF j \in {run.job} THEN [jobs[j] EXCEPT !.running = now] ELSE jobs[j]]
      BY <1>1, <2>2 DEF JobsShape
    <3> QED
      BY <1>1, <3>1, SameRemarked
  <2> QED
    BY <1>3, <2>1, <2>2
<1>5. Ended(runs') /\ MarksClear(runs', hold)
  BY <1>2, <1>3 DEF SInv, Clock, Windows, Ended, MarksClear
<1>6. Idle' => Idle
  BY <1>3 DEF Idle
<1> QED
  BY <1>3, <1>4, <1>5, <1>6, RemarkStep

LEMMA ExecEndSlots == IInv /\ SInv /\ (\E run \in runs : ExecEnd(run)) => SInv'
<1> SUFFICES ASSUME IInv, SInv, NEW run \in runs, ExecEnd(run) PROVE SInv'
  OBVIOUS
<1>1. PICK result \in Results :
        runs' = (runs \ {run}) \cup
                  {[run EXCEPT !.stage = "done", !.ended = now, !.result = result]}
  BY DEF ExecEnd
<1> DEFINE new == [run EXCEPT !.stage = "done", !.ended = now, !.result = result]
<1>2. run \in RunShape
  BY DEF IInv, Shape
<1>3. new.stage = "done" /\ new.ended = now
  BY <1>2 DEF RunShape
<1>4. /\ phase' = phase /\ tick' = tick /\ timer' = timer /\ now' = now /\ used' = used
      /\ events' = events /\ hold' = hold /\ jobs' = jobs /\ runs' = (runs \ {run}) \cup {new}
  BY <1>1 DEF ExecEnd
<1> HIDE DEF new
<1>5. Remarked(jobs, jobs')
  BY <1>4 DEF Remarked, SameJob
<1>6. Ended(runs') /\ MarksClear(runs', hold)
  BY <1>3, <1>4 DEF SInv, Clock, Windows, Ended, MarksClear
<1>7. Idle' => Idle
  BY <1>4 DEF Idle
<1> QED
  BY <1>4, <1>5, <1>6, <1>7, RemarkStep

LEMMA ManualReserveSlots == IInv /\ SInv /\ (\E run \in runs : ManualReserve(run)) => SInv'
<1> SUFFICES ASSUME IInv, SInv, NEW run \in runs, ManualReserve(run) PROVE SInv'
  OBVIOUS
<1> DEFINE new == [run EXCEPT !.stage = "executing"]
<1>1. run \in RunShape /\ JobsShape(jobs)
  BY DEF IInv, Shape
<1>2. new.stage = "executing"
  BY <1>1 DEF RunShape
<1>3. /\ phase' = phase /\ tick' = tick /\ timer' = timer /\ now' = now /\ used' = used
      /\ events' = events /\ hold' = hold
      /\ \/ jobs' = jobs /\ runs' = runs \ {run}
         \/ jobs' = [jobs EXCEPT ![run.job].running = run.began]
            /\ runs' = (runs \ {run}) \cup {new}
  BY DEF ManualReserve
<1> HIDE DEF new
<1>4. Remarked(jobs, jobs')
  <2>1. CASE jobs' = jobs
    BY <2>1 DEF Remarked, SameJob
  <2>2. CASE jobs' = [jobs EXCEPT ![run.job].running = run.began]
    <3>1. jobs' = [j \in DOMAIN jobs |->
                     IF j \in {run.job} THEN [jobs[j] EXCEPT !.running = run.began] ELSE jobs[j]]
      BY <1>1, <2>2 DEF JobsShape
    <3> QED
      BY <1>1, <3>1, SameRemarked
  <2> QED
    BY <1>3, <2>1, <2>2
<1>5. Ended(runs') /\ MarksClear(runs', hold)
  BY <1>2, <1>3 DEF SInv, Clock, Windows, Ended, MarksClear
<1>6. Idle' => Idle
  BY <1>3 DEF Idle
<1> QED
  BY <1>3, <1>4, <1>5, <1>6, RemarkStep

(* What leaves the jobs alone, or is the end of the process.               *)
LEMMA OtherSlots ==
  IInv /\ SInv /\ (Crash \/ TimerFires \/ TickEnd \/ Advance \/ UNCHANGED vars) => SInv'
<1> SUFFICES ASSUME IInv, SInv, Crash \/ TimerFires \/ TickEnd \/ Advance \/ UNCHANGED vars
             PROVE  SInv'
  OBVIOUS
<1>1. /\ JobsShape(jobs) /\ now \in Nat /\ events \in Nat /\ hold \in [Jobs -> Nat]
      /\ AllGood(jobs, hold) /\ Recheck \in Nat /\ Ended(runs) /\ MarksClear(runs, hold)
      /\ \A run \in runs : run.job \in Jobs
  BY CronAssumption DEF IInv, Shape, SInv, Clock, Windows, RunShape
<1>2. CASE Crash
  BY <1>1, <1>2 DEF Crash, Event, SInv, Clock, Windows, Ended, MarksClear, Idle, AllGood, Good,
                    Exhausted
<1>3. CASE TimerFires
  <2>1. /\ now' = now /\ used' = used /\ events' = events /\ hold' = hold /\ jobs' = jobs
        /\ runs' = runs /\ timer' = now + Recheck
    BY <1>3 DEF TimerFires
  <2>2. Remarked(jobs, jobs') /\ ~ Idle'
    BY <1>1, <2>1 DEF Remarked, SameJob, Idle, None
  <2> QED
    BY <1>1, <2>1, <2>2, RemarkStep DEF Ended, MarksClear
<1>4. CASE TickEnd
  <2>1. /\ now' = now /\ used' = used /\ events' = events /\ hold' = hold /\ jobs' = jobs
        /\ runs' = runs /\ timer' = Armed(jobs)
    BY <1>4 DEF TickEnd
  <2>2. Idle' => Silent(jobs)
    BY <1>1, <2>1, ArmedUnlessSilent DEF Idle
  <2>3. AllGood(jobs, hold)' /\ (Idle => Silent(jobs))'
    BY <1>1, <2>1, <2>2 DEF AllGood, Good, Exhausted, Silent
  <2>4. Clock' /\ Windows'
    BY <1>1, <2>1 DEF SInv, Clock, Windows, Ended, MarksClear
  <2> QED
    BY <2>3, <2>4 DEF SInv
<1>5. CASE Advance
  <2>1. /\ now' = now + 1 /\ used' = used /\ events' = events /\ hold' = hold /\ jobs' = jobs
        /\ runs' = runs /\ (Idle' <=> Idle)
    BY <1>5 DEF Advance, Idle
  <2>2. MarksClear(runs, hold)'
    <3>1. ASSUME NEW run \in runs, now >= hold[run.job] PROVE now + 1 >= hold[run.job]
      BY <1>1, <3>1
    <3> QED
      BY <1>1, <2>1, <3>1 DEF MarksClear
  <2>3. ASSUME NEW j \in DOMAIN jobs PROVE Good(j, jobs[j], hold[j])'
    <3>1. Good(j, jobs[j], hold[j]) /\ hold[j] \in Nat
      BY <1>1 DEF AllGood, JobsShape
    <3> QED
      BY <1>1, <2>1, <3>1 DEF Good, Exhausted
  <2>4. AllGood(jobs, hold)'
    BY <2>1, <2>3 DEF AllGood
  <2>5. (Idle => Silent(jobs))'
    BY <2>1 DEF SInv, Silent
  <2>6. Clock' /\ Windows'
    BY <1>1, <2>1, <2>2 DEF SInv, Clock, Windows, Ended
  <2> QED
    BY <2>4, <2>5, <2>6 DEF SInv
<1>6. CASE UNCHANGED vars
  <2>1. /\ now' = now /\ used' = used /\ events' = events /\ hold' = hold /\ jobs' = jobs
        /\ runs' = runs /\ Idle' = Idle
    BY <1>6 DEF vars, startup, Idle
  <2>2. Remarked(jobs, jobs')
    BY <2>1 DEF Remarked, SameJob
  <2> QED
    BY <1>1, <2>1, <2>2, RemarkStep DEF Ended, MarksClear
<1> QED
  BY <1>2, <1>3, <1>4, <1>5, <1>6

LEMMA SlotsInductive == IInv /\ SInv /\ [Next]_vars => SInv'
<1> SUFFICES ASSUME IInv, SInv, [Next]_vars PROVE SInv'
  OBVIOUS
<1> QED
  BY StartSlots, PlanSlots, CatchApplySlots, FinishStartSlots, TickScanSlots, TickApplySlots,
     ReadSlots, AddSlots, UpdateSlots, RemoveSlots, ManualCheckSlots, ManualReserveSlots,
     ManualFinishSlots, ExecStartSlots, ExecEndSlots, OtherSlots DEF Next

LEMMA SlotsHold == Spec => [](IInv /\ SInv)
<1>1. Init => IInv /\ SInv
  BY InitShape, InitSlots
<1>2. IInv /\ SInv /\ [Next]_vars => (IInv /\ SInv)'
  BY Inductive, SlotsInductive
<1> QED
  BY <1>1, <1>2, PTL DEF Spec

(* The scheduler never falls silent: whatever the users, the executions    *)
(* and a tick in progress do to the stored jobs, a service with a job to   *)
(* run has armed its timer or is in the section that arms it.              *)
THEOREM TimerStaysArmed == Spec => []SchedulerAlive
<1>1. SInv => SchedulerAlive
  <2> SUFFICES ASSUME SInv, phase = "up", timer = None, tick # "end",
                      NEW j \in DOMAIN jobs, jobs[j].enabled
               PROVE  jobs[j].next = None
    BY DEF SchedulerAlive
  <2> QED
    BY DEF SInv, Idle, Silent
<1> QED
  BY <1>1, SlotsHold, PTL

-----------------------------------------------------------------------------
(* The error backoff. *)

ReservedClear ==
  \A run \in runs' \ runs :
    run.stage = "marked" /\ run.by = "tick" => now >= hold[run.job]

(* The flag makes no new reservation: only a run that was not freed before *)
(* can change, and the tick that reserved it was not early.                *)
LEMMA FreedClear ==
  ASSUME IInv, SInv, NEW rs \in SUBSET runs, NEW J, NEW done, NEW x \in Freed(rs, J, done),
         x \notin runs, x.stage = "marked", x.by = "tick"
  PROVE  now >= hold[x.job]
<1>1. rs \in SUBSET RunShape
  BY DEF IInv, Shape
<1>2. PICK run \in rs : /\ x \in RunShape /\ x.job = run.job /\ x.stage = run.stage
                        /\ x = [run EXCEPT !.freed = x.freed]
                        /\ x.freed <=> Excusable(run, J, done)
  BY <1>1, FreedIs
<1>3. run \in RunShape /\ x.by = run.by /\ run \in runs
  BY <1>1, <1>2 DEF RunShape
<1>4. ~ run.freed
  <2> SUFFICES ASSUME run.freed PROVE x = run
    BY <1>3
  <2>1. x.freed
    BY <1>2 DEF Excusable
  <2>2. x.freed = run.freed
    BY <1>2, <1>3, <2>1 DEF RunShape
  <2> QED
    BY <1>2, <1>3, <2>2 DEF RunShape
<1> QED
  BY <1>2, <1>3, <1>4 DEF SInv, Windows, MarksClear

LEMMA FreedReservations ==
  ASSUME IInv, SInv, NEW rs \in SUBSET runs, NEW J, NEW done, runs' = Freed(rs, J, done)
  PROVE  ReservedClear
<1> SUFFICES ASSUME NEW run \in runs', run \notin runs, run.stage = "marked", run.by = "tick"
             PROVE  now >= hold[run.job]
  BY DEF ReservedClear
<1> QED
  BY FreedClear

LEMMA TickScanClear == IInv /\ SInv /\ TickScan => ReservedClear
<1> SUFFICES ASSUME IInv, SInv, TickScan PROVE ReservedClear
  OBVIOUS
<1> DEFINE due == {j \in DOMAIN jobs : Due(j)}
<1>1. CASE due = {}
  BY <1>1, FreedReservations DEF TickScan
<1>2. CASE due # {}
  <2>1. runs' = runs \cup {NewRun(j, "tick", "marked", FALSE) : j \in due}
    BY <1>2 DEF TickScan
  <2>2. ASSUME NEW j \in due PROVE now >= hold[j]
    <3>1. j \in DOMAIN jobs /\ Due(j)
      OBVIOUS
    <3>2. Good(j, jobs[j], hold[j]) /\ jobs[j].enabled /\ jobs[j].next # None /\ now >= jobs[j].next
      BY <3>1, Zenon DEF Due, SInv, AllGood
    <3>3. jobs[j].next \in Int /\ hold[j] \in Nat /\ now \in Nat
      <4>1. jobs[j] \in JobShape /\ j \in Jobs /\ now \in Nat
        BY <3>1 DEF IInv, Shape, JobsShape
      <4> QED
        BY <4>1 DEF JobShape, SInv, Windows
    <3> QED
      BY <3>2, <3>3 DEF Good
  <2>3. \A j \in due : NewRun(j, "tick", "marked", FALSE).job = j
    BY DEF NewRun
  <2> HIDE DEF due
  <2> SUFFICES ASSUME NEW run \in runs', run \notin runs PROVE now >= hold[run.job]
    BY DEF ReservedClear
  <2>4. PICK j \in due : run = NewRun(j, "tick", "marked", FALSE)
    BY <2>1
  <2> QED
    BY <2>2, <2>3, <2>4
<1> QED
  BY <1>1, <1>2

(* The other steps that make or change a run do not reserve for a tick.    *)
LEMMA OthersClear ==
  ASSUME IInv, SInv,
         \/ Plan
         \/ \E j \in Jobs, force \in BOOLEAN : ManualCheck(j, force)
         \/ \E run \in runs : ExecStart(run) \/ ExecEnd(run) \/ ManualReserve(run)
  PROVE  ReservedClear
<1> SUFFICES ASSUME NEW x \in runs', x \notin runs, x.stage = "marked", x.by = "tick"
             PROVE  now >= hold[x.job]
  BY DEF ReservedClear
<1>1. \A run \in runs : run \in RunShape
  BY DEF IInv, Shape
<1>2. CASE Plan
  <2>1. PICK first : runs' = runs \cup {NewRun(j, "catchup", "marked", FALSE) : j \in first}
    BY <1>2 DEF Plan
  <2>2. PICK j \in first : x = NewRun(j, "catchup", "marked", FALSE)
    BY <2>1
  <2> QED
    BY <2>2 DEF NewRun
<1>3. CASE \E j \in Jobs, force \in BOOLEAN : ManualCheck(j, force)
  <2>1. PICK j \in Jobs, force \in BOOLEAN :
          runs' = Freed(runs, jobs', {}) \cup {NewRun(j, "manual", "checked", force)}
    BY <1>3 DEF ManualCheck
  <2>2. x # NewRun(j, "manual", "checked", force)
    BY DEF NewRun
  <2>3. x \in Freed(runs, jobs', {})
    BY <2>1, <2>2
  <2> QED
    BY <2>3, FreedClear
<1>4. ASSUME NEW run \in runs, ExecStart(run) PROVE FALSE
  <2>1. x = [run EXCEPT !.stage = "executing", !.began = now]
    BY <1>4 DEF ExecStart
  <2> QED
    BY <1>1, <2>1 DEF RunShape
<1>5. ASSUME NEW run \in runs, ExecEnd(run) PROVE FALSE
  <2>1. \E result \in Results : x = [run EXCEPT !.stage = "done", !.ended = now, !.result = result]
    BY <1>5 DEF ExecEnd
  <2> QED
    BY <1>1, <2>1 DEF RunShape
<1>6. ASSUME NEW run \in runs, ManualReserve(run) PROVE FALSE
  <2>1. x = [run EXCEPT !.stage = "executing"]
    BY <1>6 DEF ManualReserve
  <2> QED
    BY <1>1, <2>1 DEF RunShape
<1> QED
  BY <1>2, <1>3, <1>4, <1>5, <1>6

LEMMA StepClear == IInv /\ SInv /\ Next => ReservedClear
<1> SUFFICES ASSUME IInv, SInv, Next PROVE ReservedClear
  OBVIOUS
<1>1. CASE runs' \subseteq runs
  BY <1>1 DEF ReservedClear
<1>2. CASE Start \/ Crash \/ TimerFires \/ TickEnd \/ Advance
  BY <1>1, <1>2 DEF Start, Crash, TimerFires, TickEnd, Advance
<1>3. CASE CatchApply \/ FinishStart \/ TickApply \/ Read
  <2>1. \A S : runs \ S \in SUBSET runs
    OBVIOUS
  <2>2. \E rs \in SUBSET runs : \E done : runs' = Freed(rs, jobs', done)
    BY <1>3, <2>1 DEF CatchApply, FinishStart, TickApply, Read
  <2> QED
    BY <2>2, FreedReservations
<1>4. CASE \E j \in Jobs : Add(j) \/ Update(j) \/ Remove(j)
  <2>1. runs' = Freed(runs, jobs', {})
    BY <1>4 DEF Add, Update, Remove
  <2> QED
    BY <2>1, FreedReservations
<1>5. CASE \E run \in runs : ManualFinish(run)
  <2>1. PICK run \in runs : runs' = Freed(runs \ {run}, jobs', {run.job})
    BY <1>5 DEF ManualFinish
  <2> QED
    BY <2>1, FreedReservations
<1> QED
  BY <1>2, <1>3, <1>4, <1>5, TickScanClear, OthersClear DEF Next

(* A tick never reserves a job inside the backoff window of its last       *)
(* failure, for any schedule and any edits by the users in between.        *)
THEOREM BackoffIsKept == Spec => BackoffKept
<1>1. IInv /\ SInv /\ [Next]_vars => [ReservedClear]_vars
  BY StepClear
<1>2. ReservedClear =>
        \A run \in runs' \ runs :
          run.stage = "marked" /\ run.by = "tick" => now >= hold[run.job]
  BY DEF ReservedClear
<1>3. IInv /\ SInv /\ [Next]_vars =>
        [\A run \in runs' \ runs :
          run.stage = "marked" /\ run.by = "tick" => now >= hold[run.job]]_vars
  BY <1>1, <1>2
<1> QED
  BY <1>3, SlotsHold, PTL DEF Spec, BackoffKept

-----------------------------------------------------------------------------
(* Due slots. *)

(* What may move a due slot of j.                                          *)
Allowed(j) ==
  \/ SlotRanBy(j) \/ MovedByUser(j) \/ j \in deferred
  \/ phase' # phase \/ used' # used

LEMMA UnmovedSlot ==
  ASSUME IInv, NEW j, jobs'[j].next = jobs[j].next
  PROVE  ~ SlotMoved(j)
<1> SUFFICES ASSUME SlotMoved(j) PROVE FALSE
  OBVIOUS
<1>1. j \in DOMAIN jobs /\ jobs[j].next # None /\ (jobs'[j].next = None \/ jobs'[j].next > jobs[j].next)
  BY DEF SlotMoved
<1>2. jobs[j].next \in Int
  BY <1>1 DEF IInv, Shape, JobsShape, JobShape
<1> QED
  BY <1>1, <1>2

(* The maintenance of a read keeps every due slot, also after an outcome   *)
(* of another job.                                                         *)
LEMMA ReadKeepsSlot ==
  ASSUME IInv, NEW J, JobsShape(J), NEW j \in DOMAIN J, j \in DOMAIN jobs => J[j] = jobs[j],
         jobs' = Maintained(J, now, FALSE)
  PROVE  ~ SlotMoved(j)
<1> SUFFICES ASSUME SlotMoved(j) PROVE FALSE
  OBVIOUS
<1>1. J[j] = jobs[j] /\ jobs[j].enabled /\ jobs[j].next # None
  BY DEF SlotMoved
<1>2. Tended(j, J[j], jobs'[j], now, FALSE)
  <2>1. now \in Int
    BY DEF IInv, Shape
  <2>2. Tended(j, J[j], Maintained(J, now, FALSE)[j], now,
               FALSE /\ now >= J[j].next /\ RanSlot(J[j]))
    BY <2>1, MaintainedTended
  <2>3. (FALSE /\ now >= J[j].next /\ RanSlot(J[j])) = FALSE
    OBVIOUS
  <2> QED
    BY <2>2, <2>3
<1>3. jobs'[j].next = jobs[j].next
  BY <1>1, <1>2 DEF Tended
<1> QED
  BY <1>3, UnmovedSlot

(* The maintenance after an execution gives up a due slot of another job   *)
(* only when that job ran after it.                                        *)
LEMMA RunKeepsSlot ==
  ASSUME IInv, NEW J, JobsShape(J), NEW j \in DOMAIN J, j \in DOMAIN jobs => J[j] = jobs[j],
         jobs' = Maintained(J, now, TRUE), SlotMoved(j)
  PROVE  jobs'[j].lastRun # None /\ jobs'[j].lastRun >= jobs[j].next
<1> DEFINE may == TRUE /\ now >= J[j].next /\ RanSlot(J[j])
<1>1. J[j] = jobs[j] /\ jobs[j].enabled /\ jobs[j].next # None
  BY DEF SlotMoved
<1>2. Tended(j, J[j], jobs'[j], now, may)
  <2>1. now \in Int
    BY DEF IInv, Shape
  <2> QED
    BY <2>1, MaintainedTended
<1>3. jobs'[j].next # jobs[j].next
  BY UnmovedSlot
<1>4. jobs'[j].lastRun = jobs[j].lastRun
  BY <1>1, <1>2 DEF Tended, SameJob
<1>5. may
  <2> HIDE DEF may
  <2> QED
    BY <1>1, <1>2, <1>3 DEF Tended
<1> QED
  BY <1>1, <1>4, <1>5 DEF RanSlot

(* A finished run is gone after the step that applies its outcome, or the  *)
(* flag has made another run of its job equal to it, and that one is gone. *)
LEMMA FinishedGone ==
  ASSUME IInv, NEW fin \in SUBSET runs, NEW J, NEW run \in fin,
         runs' = Freed(runs \ fin, J, Finished(fin))
  PROVE  \E x \in runs \ runs' : x.job = run.job
<1>1. runs \ fin \in SUBSET RunShape /\ run \in RunShape
  BY DEF IInv, Shape
<1>2. ASSUME run \in runs' PROVE \E x \in runs \ runs' : x.job = run.job
  <2>1. PICK r \in runs \ fin : /\ run.job = r.job /\ run.stage = r.stage
                                /\ run = [r EXCEPT !.freed = run.freed]
                                /\ run.freed <=> Excusable(r, J, Finished(fin))
    BY <1>1, <1>2, FreedIs
  <2>2. r \in RunShape /\ r # run
    BY <1>1, <2>1
  <2>3. ~ r.freed /\ run.freed
    <3>1. run.freed # r.freed
      BY <2>1, <2>2 DEF RunShape
    <3>2. r.freed => run.freed
      BY <2>1 DEF Excusable
    <3> QED
      BY <1>1, <2>2, <3>1, <3>2 DEF RunShape
  <2>4. r \notin runs'
    <3> SUFFICES ASSUME r \in runs' PROVE FALSE
      OBVIOUS
    <3>1. PICK q \in runs \ fin : /\ r.job = q.job /\ r.stage = q.stage
                                  /\ r = [q EXCEPT !.freed = r.freed]
                                  /\ r.freed <=> Excusable(q, J, Finished(fin))
      BY <1>1, FreedIs
    <3>2. q \in RunShape /\ ~ q.freed
      BY <1>1, <2>3, <3>1 DEF Excusable
    <3>3. q = r
      BY <2>2, <2>3, <3>1, <3>2 DEF RunShape
    <3> QED
      BY <2>1, <2>3, <3>1, <3>3
  <2> QED
    BY <2>1, <2>4
<1> QED
  BY <1>2

LEMMA TickApplySlot ==
  ASSUME IInv, TickApply, NEW j \in Jobs, SlotMoved(j)
  PROVE  Allowed(j)
<1> DEFINE fin == RunsOf("tick")
<1>1. /\ jobs' = Maintained(Outcomes(jobs, fin), now, FALSE)
      /\ runs' = Freed(runs \ fin, jobs', Finished(fin))
  BY DEF TickApply, Finished
<1>2. fin \in SUBSET runs
  BY DEF RunsOf
<1> HIDE DEF fin
<1>3. CASE j \in Finished(fin)
  <2>1. PICK run \in fin : run.job = j
    BY <1>3 DEF Finished
  <2> QED
    BY <1>1, <1>2, <2>1, FinishedGone DEF Allowed, SlotRanBy
<1>4. CASE j \notin Finished(fin)
  <2>1. JobsShape(jobs) /\ fin \in SUBSET RunShape /\ j \in DOMAIN jobs
    BY <1>2 DEF IInv, Shape, SlotMoved
  <2>2. /\ JobsShape(Outcomes(jobs, fin)) /\ j \in DOMAIN Outcomes(jobs, fin)
        /\ Outcomes(jobs, fin)[j] = jobs[j]
    BY <1>4, <2>1, OutcomesAre
  <2> QED
    BY <1>1, <2>2, ReadKeepsSlot
<1> QED
  BY <1>3, <1>4

LEMMA ManualFinishSlot ==
  ASSUME IInv, NEW run \in runs, ManualFinish(run), NEW j \in Jobs, SlotMoved(j)
  PROVE  Allowed(j)
<1>1. run.job \in DOMAIN jobs
  <2> SUFFICES ASSUME run.job \notin DOMAIN jobs PROVE FALSE
    OBVIOUS
  <2>1. jobs' = jobs
    BY DEF ManualFinish
  <2> QED
    BY <2>1, UnmovedSlot
<1>2. /\ jobs' = Maintained(Outcomes(jobs, {run}), now, TRUE)
      /\ runs' = Freed(runs \ {run}, jobs', Finished({run}))
  BY <1>1 DEF ManualFinish, Finished
<1>3. CASE j = run.job
  BY <1>2, <1>3, FinishedGone DEF Allowed, SlotRanBy
<1>4. CASE j # run.job
  <2>1. JobsShape(jobs) /\ {run} \in SUBSET RunShape /\ j \in DOMAIN jobs
    BY DEF IInv, Shape, SlotMoved
  <2>2. /\ JobsShape(Outcomes(jobs, {run})) /\ j \in DOMAIN Outcomes(jobs, {run})
        /\ Outcomes(jobs, {run})[j] = jobs[j]
    <3>1. j \notin Finished({run})
      BY <1>4 DEF Finished
    <3> QED
      BY <2>1, <3>1, OutcomesAre
  <2>3. jobs'[j].lastRun # None /\ jobs'[j].lastRun >= jobs[j].next
    BY <1>2, <2>2, RunKeepsSlot
  <2> QED
    BY <2>3 DEF Allowed, SlotRanBy
<1> QED
  BY <1>3, <1>4

(* A tick that moved a due slot would have found the job due.              *)
LEMMA TickScanSlot ==
  ASSUME IInv, TickScan, NEW j \in Jobs
  PROVE  ~ SlotMoved(j)
<1> SUFFICES ASSUME SlotMoved(j) PROVE FALSE
  OBVIOUS
<1> DEFINE due == {i \in DOMAIN jobs : Due(i)}
<1>1. j \in due
  BY DEF SlotMoved, Due
<1>2. jobs' = [i \in DOMAIN jobs |->
                 IF i \in due THEN [jobs[i] EXCEPT !.running = now] ELSE jobs[i]]
  BY <1>1 DEF TickScan
<1>3. jobs[j] \in JobShape /\ j \in DOMAIN jobs
  BY DEF SlotMoved, IInv, Shape, JobsShape
<1> HIDE DEF due
<1>4. jobs'[j].next = jobs[j].next
  BY <1>1, <1>2, <1>3 DEF JobShape
<1> QED
  BY <1>4, UnmovedSlot

LEMMA UpdateSlot ==
  ASSUME IInv, SInv, NEW i \in Jobs, Update(i), NEW j \in Jobs, SlotMoved(j)
  PROVE  Allowed(j)
<1>1. /\ DOMAIN jobs' = DOMAIN jobs /\ \A k \in DOMAIN jobs \ {i} : jobs'[k] = jobs[k]
      /\ used' = used /\ events' = events + 1 /\ runs' = Freed(runs, jobs', {})
      /\ events \in Nat /\ j \in DOMAIN jobs
  BY DEF Update, Event, SlotMoved, SInv, Clock
<1>2. j = i
  BY <1>1, UnmovedSlot
<1>3. ASSUME NEW x \in runs', x \notin runs PROVE x.stage # "checked"
  <2>1. runs \in SUBSET RunShape /\ x \in Freed(runs, jobs', {})
    BY <1>1 DEF IInv, Shape
  <2>2. PICK run \in runs : /\ x \in RunShape /\ x.job = run.job /\ x.stage = run.stage
                            /\ x = [run EXCEPT !.freed = x.freed]
                            /\ x.freed <=> Excusable(run, jobs', {})
    BY <2>1, FreedIs
  <2>3. run \in RunShape
    BY <2>1
  <2>4. ASSUME x.stage = "checked" PROVE x.freed = run.freed
    <3>1. x.freed <=> run.freed
      BY <2>2, <2>4 DEF Excusable
    <3> QED
      BY <2>2, <2>3, <3>1 DEF RunShape
  <2>5. x.freed = run.freed => x = run
    BY <2>2, <2>3 DEF RunShape
  <2> QED
    BY <1>3, <2>4, <2>5
<1>4. MovedByUser(j)
  BY <1>1, <1>2, <1>3 DEF MovedByUser
<1> QED
  BY <1>4 DEF Allowed

(* Steps that set markers, remove a job or leave the jobs alone.           *)
LEMMA OtherSlot ==
  ASSUME IInv, NEW j \in Jobs,
         \/ TimerFires \/ TickEnd \/ Advance
         \/ \E i \in Jobs : Remove(i)
         \/ \E run \in runs : ExecStart(run) \/ ExecEnd(run) \/ ManualReserve(run)
  PROVE  ~ SlotMoved(j)
<1> SUFFICES ASSUME SlotMoved(j) PROVE FALSE
  OBVIOUS
<1>1. jobs[j] \in JobShape /\ j \in DOMAIN jobs /\ j \in DOMAIN jobs' /\ JobsShape(jobs)
  BY DEF SlotMoved, IInv, Shape, JobsShape
<1>2. \A m : [jobs[j] EXCEPT !.running = m].next = jobs[j].next
  BY <1>1 DEF JobShape
<1>3. jobs'[j].next = jobs[j].next
  <2>1. CASE TimerFires \/ TickEnd \/ Advance
    BY <2>1 DEF TimerFires, TickEnd, Advance
  <2>2. CASE \E i \in Jobs : Remove(i)
    BY <1>1, <2>2 DEF Remove
  <2>3. ASSUME NEW run \in runs, ExecEnd(run) PROVE jobs'[j].next = jobs[j].next
    BY <2>3 DEF ExecEnd
  <2>4. ASSUME NEW run \in runs, NEW m, jobs' = [jobs EXCEPT ![run.job].running = m]
        PROVE  jobs'[j].next = jobs[j].next
    BY <1>1, <1>2, <2>4
  <2>5. ASSUME NEW run \in runs, ExecStart(run) PROVE jobs'[j].next = jobs[j].next
    BY <2>4, <2>5 DEF ExecStart
  <2>6. ASSUME NEW run \in runs, ManualReserve(run) PROVE jobs'[j].next = jobs[j].next
    BY <2>4, <2>6 DEF ManualReserve
  <2> QED
    BY <2>1, <2>2, <2>3, <2>5, <2>6
<1> QED
  BY <1>3, UnmovedSlot

LEMMA StepKeepsSlots ==
  ASSUME IInv, SInv, Next, NEW j \in Jobs, SlotMoved(j)
  PROVE  Allowed(j)
<1>1. CASE Start \/ Plan \/ CatchApply \/ FinishStart \/ Crash
  <2>1. CASE Plan
    BY <2>1 DEF Plan, Allowed
  <2> QED
    BY <1>1, <2>1 DEF Start, CatchApply, FinishStart, Crash, Event, Allowed
<1>2. CASE \E i \in Jobs : Add(i)
  BY <1>2 DEF Add, Allowed
<1>3. CASE Read \/ \E i \in Jobs, force \in BOOLEAN : ManualCheck(i, force)
  <2>1. jobs' = Maintained(jobs, now, FALSE)
    BY <1>3 DEF Read, ManualCheck
  <2>2. JobsShape(jobs) /\ j \in DOMAIN jobs
    BY DEF IInv, Shape, SlotMoved
  <2> QED
    BY <2>1, <2>2, ReadKeepsSlot
<1> QED
  BY <1>1, <1>2, <1>3, TickScanSlot, TickApplySlot, ManualFinishSlot, UpdateSlot, OtherSlot
  DEF Next

(* A due slot is never advanced without having been executed: the only     *)
(* steps that move one are the run it is for, an update of the job itself, *)
(* start(), add() and the catch-up of the jobs it has put off.             *)
THEOREM DueSlotsAreKept == Spec => SlotKept
<1>1. IInv /\ SInv /\ [Next]_vars => [\A j \in Jobs : SlotMoved(j) => Allowed(j)]_vars
  BY StepKeepsSlots
<1>2. (\A j \in Jobs : SlotMoved(j) => Allowed(j)) =>
        \A j \in Jobs :
          SlotMoved(j) => \/ SlotRanBy(j) \/ MovedByUser(j) \/ j \in deferred
                          \/ phase' # phase \/ used' # used
  BY Zenon DEF Allowed
<1>3. IInv /\ SInv /\ [Next]_vars =>
        [\A j \in Jobs :
          SlotMoved(j) => \/ SlotRanBy(j) \/ MovedByUser(j) \/ j \in deferred
                          \/ phase' # phase \/ used' # used]_vars
  BY <1>1, <1>2
<1> QED
  BY <1>3, SlotsHold, PTL DEF Spec, SlotKept

=============================================================================
