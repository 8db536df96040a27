------------------------- MODULE FullRefreshProofs --------------------------
(***************************************************************************)
(* Proofs about FullRefresh, for any workers, groups, limits and bounds.   *)
(***************************************************************************)
EXTENDS FullRefresh, FiniteSetTheorems, TLAPS

LEMMA Sizes ==
  /\ N \in Nat \ {0} /\ MaxRequests \in Nat \ {0} /\ MaxAttempts \in Nat \ {0}
  /\ Interval \in Nat \ {0}
  /\ DailyLimit \in Nat /\ MaxDay \in Nat /\ MaxFaults \in Nat
  /\ Weight \in [1..N -> Nat \ {0}] /\ ManualAfterScheduled \in BOOLEAN
  BY SizeAssumption

LEMMA Names == /\ \A p \in Parents : Whole(p) \in Jobs
               /\ Manual \in Jobs /\ Items \subseteq Jobs
               /\ 1 \in Parents
               /\ \A p \in Parents : Whole(p) # Manual
               /\ \A j \in Items : j[1] \in Parents /\ j[2] \in Group
  BY Sizes, NameAssumption DEF Whole, Jobs, Items, Parents, Group

LEMMA RecordTypes ==
  /\ NoAttempt \in AttemptRec /\ Gone \in AttemptRec /\ Idle \in WorkerRec
  /\ Idle.loop = "idle" /\ NoAttempt.next \in Group /\ Gone.pc \notin Enqueueing
<1>1. NoAttempt \in AttemptRec /\ NoAttempt.next \in Group
  BY Sizes, Names DEF NoAttempt, AttemptRec, Results, Group
<1>2. Gone \in AttemptRec /\ Gone.pc = "gone"
  BY <1>1 DEF Gone, AttemptRec
<1>3. Idle \in WorkerRec /\ Idle.loop = "idle"
  BY DEF Idle, WorkerRec
<1> QED BY <1>1, <1>2, <1>3 DEF Enqueueing

LEMMA InitTyped == Init => TypeOK
<1> SUFFICES ASSUME Init PROVE TypeOK
  OBVIOUS
<1> USE Sizes DEF Init
<1>1. JobsTyped
  BY DEF JobsTyped, Statuses
<1>2. ProgressTyped
  BY DEF ProgressTyped, Counters, Outcomes
<1>3. LockTyped
  BY DEF LockTyped
<1>4. AttemptsTyped
  BY RecordTypes DEF AttemptsTyped
<1>5. WorkersTyped /\ FaultsTyped
  BY RecordTypes DEF WorkersTyped, FaultsTyped
<1> QED BY <1>1, <1>2, <1>3, <1>4, <1>5 DEF TypeOK

-----------------------------------------------------------------------------
(* Each step keeps the types.                                              *)

(* A step of an attempt that moves it from one place to another.           *)
LEMMA AttemptReplaced ==
  ASSUME AttemptsTyped, NEW a \in Attempts, NEW r \in AttemptRec,
         r.pc \in Enqueueing => r.next \in Group, attempt' = [attempt EXCEPT ![a] = r]
  PROVE  AttemptsTyped'
  BY DEF AttemptsTyped

(* What an attempt that has ended its run keeps.                           *)
LEMMA Kept ==
  ASSUME AttemptsTyped, NEW a \in Attempts,
         NEW p \in Holding \cup {"unused", "lock", "finish", "metric", "gone"}
  PROVE  /\ Keeping(a, p) \in AttemptRec
         /\ Keeping(a, p).pc = p /\ Keeping(a, p).parent = attempt[a].parent
         /\ Keeping(a, p).next \in Group
<1>1. attempt[a] \in AttemptRec
  BY DEF AttemptsTyped
<1> QED BY <1>1, RecordTypes DEF Keeping, AttemptRec

LEMMA Ended ==
  ASSUME AttemptsTyped, NEW a \in Attempts, NEW o \in Results,
         NEW p \in Holding \cup {"unused", "lock", "finish", "metric", "gone"}, Ends(a, o, p)
  PROVE  \E r \in AttemptRec : /\ attempt' = [attempt EXCEPT ![a] = r]
                                /\ r.pc = p /\ r.parent = attempt[a].parent /\ r.next \in Group
<1> DEFINE k == Keeping(a, p)
           r == [k EXCEPT !.result = o, !.mute = attempt[a].mute,
                          !.lost = attempt[a].lost /\ p = "release"]
<1>1. k \in AttemptRec /\ k.pc = p /\ k.parent = attempt[a].parent /\ k.next \in Group
  BY Kept
<1>2. attempt[a].mute \in BOOLEAN /\ attempt[a].lost \in BOOLEAN
  BY DEF AttemptsTyped, AttemptRec
<1>3. attempt' = [attempt EXCEPT ![a] = r]
  BY DEF Ends
<1> HIDE DEF k
<1>4. r \in AttemptRec /\ r.pc = p /\ r.parent = attempt[a].parent /\ r.next \in Group
  BY <1>1, <1>2 DEF AttemptRec
<1> QED BY <1>3, <1>4

LEMMA AttemptMoves ==
  ASSUME AttemptsTyped, NEW a \in Attempts,
         NEW p \in Holding \cup {"unused", "lock", "finish", "metric", "gone"}
  PROVE  /\ Goto(a, p) /\ (p \in Enqueueing => attempt[a].next \in Group) => AttemptsTyped'
         /\ \A r \in Results : Ends(a, r, p) => AttemptsTyped'
<1>1. ASSUME Goto(a, p), p \in Enqueueing => attempt[a].next \in Group PROVE AttemptsTyped'
  <2> DEFINE r == [attempt[a] EXCEPT !.pc = p]
  <2>1. r \in AttemptRec /\ r.pc = p /\ r.next = attempt[a].next
    BY DEF AttemptsTyped, AttemptRec
  <2>2. attempt' = [attempt EXCEPT ![a] = r]
    BY <1>1 DEF AttemptsTyped, AttemptRec, Goto
  <2> HIDE DEF r
  <2> QED BY <1>1, <2>1, <2>2, AttemptReplaced
<1>2. ASSUME NEW o \in Results, Ends(a, o, p) PROVE AttemptsTyped'
  BY <1>2, Ended, AttemptReplaced
<1> QED BY <1>1, <1>2

LEMMA WorkerMoves ==
  ASSUME WorkersTyped, NEW w \in Workers, NEW r \in WorkerRec, r.loop = "slot" => r.held \in Items,
         worker' = [worker EXCEPT ![w] = r]
  PROVE  WorkersTyped'
  BY DEF WorkersTyped

LEMMA RequestTyped ==
  ASSUME TypeOK
  PROVE  /\ \A p \in Parents : Submit(p, "manual") => TypeOK'
         /\ \A w \in Workers : ScheduledRefresh(w) => TypeOK'
         /\ \A w \in Workers : InitializeSchedule(w) => TypeOK'
         /\ UserAsks => TypeOK'
<1> USE Names DEF TypeOK
<1>1. ASSUME NEW p \in Parents, NEW o \in {"manual", "scheduled"}, Submit(p, o)
      PROVE  TypeOK'
  <2>1. JobsTyped'
    BY <1>1 DEF Submit, JobsTyped, Statuses
  <2>2. ProgressTyped' /\ LockTyped' /\ AttemptsTyped' /\ WorkersTyped' /\ FaultsTyped'
    BY <1>1 DEF Submit, lockVars, ProgressTyped, LockTyped, AttemptsTyped, WorkersTyped, FaultsTyped
  <2> QED BY <2>1, <2>2
<1>2. ASSUME NEW w \in Workers, InitializeSchedule(w) PROVE TypeOK'
  <2>1. LockTyped'
    BY <1>2, Sizes DEF InitializeSchedule, LockTyped
  <2>2. JobsTyped' /\ ProgressTyped' /\ AttemptsTyped' /\ WorkersTyped' /\ FaultsTyped'
    BY <1>2 DEF InitializeSchedule, jobVars, JobsTyped, ProgressTyped, AttemptsTyped, WorkersTyped, FaultsTyped
  <2> QED BY <2>1, <2>2
<1>3. ASSUME UserAsks PROVE TypeOK'
  <2>1. JobsTyped'
    BY <1>3 DEF UserAsks, JobsTyped, Statuses
  <2>2. ProgressTyped' /\ LockTyped' /\ AttemptsTyped' /\ WorkersTyped' /\ FaultsTyped'
    BY <1>3 DEF UserAsks, lockVars, ProgressTyped, LockTyped, AttemptsTyped, WorkersTyped, FaultsTyped
  <2> QED BY <2>1, <2>2
<1> QED BY <1>1, <1>2, <1>3 DEF ScheduledRefresh

LEMMA TasksCount == ASSUME TypeOK, NEW w \in Workers PROVE Tasks(w) \in Nat
<1>1. IsFiniteSet(Items)
  <2>1. IsFiniteSet(Parents) /\ IsFiniteSet(Group)
    BY Sizes, FS_Interval DEF Parents, Group
  <2> QED BY <2>1, FS_Product DEF Items
<1>2. IsFiniteSet(Attempts)
  BY Sizes, FS_Interval DEF Attempts
<1>3. worker[w].fresh \subseteq Items /\ worker[w].stale \subseteq Items
  BY DEF TypeOK, WorkersTyped, WorkerRec
<1>4. /\ Cardinality(worker[w].fresh) \in Nat /\ Cardinality(worker[w].stale) \in Nat
      /\ Cardinality(Mine(w)) \in Nat
  BY <1>1, <1>2, <1>3, FS_Subset, FS_CardinalityType DEF Mine
<1> QED BY <1>4 DEF Tasks

LEMMA FaultTyped == ASSUME TypeOK, Fault PROVE FaultsTyped'
  BY Sizes DEF Fault, TypeOK, FaultsTyped

LEMMA SpentTyped ==
  ASSUME WorkersTyped, NEW w \in Workers, NEW j \in worker[w].fresh, worker' = Spent(w, j)
  PROVE  WorkersTyped'
<1> DEFINE r == [worker[w] EXCEPT !.fresh = @ \ {j}, !.stale = @ \cup {j}]
<1>1. r \in WorkerRec /\ r.loop = worker[w].loop /\ r.held = worker[w].held
  BY DEF WorkersTyped, WorkerRec
<1>2. worker' = [worker EXCEPT ![w] = r]
  BY DEF Spent, WorkersTyped, WorkerRec
<1> HIDE DEF r
<1> QED BY <1>1, <1>2, WorkerMoves DEF WorkersTyped

LEMMA WorkerTyped ==
  ASSUME TypeOK, NEW w \in Workers,
         ClaimManual(w) \/ ManualEnds(w) \/ LoopGoesOn(w) \/ ClaimParent(w) \/ ClaimItem(w)
           \/ SlotFree(w) \/ ItemEnds(w) \/ StaleEnds(w) \/ ItemUnreported(w)
  PROVE  TypeOK'
<1> USE Names DEF TypeOK
<1>1. CASE ClaimManual(w)
  <2> DEFINE r == [worker[w] EXCEPT !.loop = "manual", !.held = Manual]
  <2>1. r \in WorkerRec /\ r.loop # "slot"
    BY DEF WorkersTyped, WorkerRec
  <2>2. WorkersTyped'
    <3>1. worker' = [worker EXCEPT ![w] = r]
      BY <1>1 DEF ClaimManual, WorkersTyped, WorkerRec
    <3> HIDE DEF r
    <3> QED BY <2>1, <3>1, WorkerMoves
  <2>3. JobsTyped'
    BY <1>1 DEF ClaimManual, JobsTyped, Statuses
  <2>4. ProgressTyped' /\ LockTyped' /\ AttemptsTyped' /\ FaultsTyped'
    BY <1>1 DEF ClaimManual, lockVars, ProgressTyped, LockTyped, AttemptsTyped, FaultsTyped
  <2> QED BY <2>2, <2>3, <2>4
<1>2. CASE ManualEnds(w)
  <2> DEFINE r == [worker[w] EXCEPT !.held = NoJob]
  <2>1. r \in WorkerRec /\ r.loop # "slot"
    BY <1>2 DEF ManualEnds, WorkersTyped, WorkerRec
  <2>2. WorkersTyped'
    <3>1. worker' = [worker EXCEPT ![w] = r]
      BY <1>2 DEF ManualEnds, WorkersTyped, WorkerRec
    <3> HIDE DEF r
    <3> QED BY <2>1, <3>1, WorkerMoves
  <2>3. JobsTyped'
    BY <1>2, AnswersAssumption DEF ManualEnds, JobsTyped, Statuses
  <2>4. ProgressTyped' /\ LockTyped' /\ AttemptsTyped' /\ FaultsTyped'
    BY <1>2 DEF ManualEnds, lockVars, ProgressTyped, LockTyped, AttemptsTyped, FaultsTyped
  <2> QED BY <2>2, <2>3, <2>4
<1>3. CASE ClaimParent(w)
  <2> PICK p \in Parents, a \in Attempts :
        /\ status' = [status EXCEPT ![Whole(p)] = "running"]
        /\ claim' = [claim EXCEPT ![p] = a]
        /\ attempt' = [attempt EXCEPT ![a] = [NoAttempt EXCEPT !.pc = "lock", !.parent = p,
                                                 !.on = w, !.since = day]]
    BY <1>3 DEF ClaimParent
  <2>1. JobsTyped'
    BY <1>3 DEF ClaimParent, JobsTyped, Statuses
  <2> DEFINE r == [NoAttempt EXCEPT !.pc = "lock", !.parent = p, !.on = w, !.since = day]
  <2>2. r \in AttemptRec /\ r.next \in Group
    BY RecordTypes DEF AttemptRec, LockTyped
  <2>3. AttemptsTyped'
    BY <2>2, AttemptReplaced
  <2>4. ProgressTyped' /\ LockTyped' /\ WorkersTyped' /\ FaultsTyped'
    BY <1>3 DEF ClaimParent, lockVars, ProgressTyped, LockTyped, WorkersTyped, FaultsTyped
  <2> QED BY <2>1, <2>3, <2>4
<1>4. CASE ClaimItem(w)
  <2> PICK j \in Items :
        /\ status' = [status EXCEPT ![j] = "running"]
        /\ worker' = IF Tasks(w) < Concurrency THEN [worker EXCEPT ![w].fresh = @ \cup {j}]
                     ELSE [worker EXCEPT ![w].loop = "slot", ![w].held = j,
                                         ![w].valid = TRUE, ![w].seen = Tasks(w)]
    BY <1>4 DEF ClaimItem
  <2>1. JobsTyped'
    BY <1>4 DEF ClaimItem, JobsTyped, Statuses
  <2>2. Tasks(w) \in Nat
    BY TasksCount
  <2> DEFINE started == [worker[w] EXCEPT !.fresh = @ \cup {j}]
             waiting == [worker[w] EXCEPT !.loop = "slot", !.held = j, !.valid = TRUE,
                                          !.seen = Tasks(w)]
  <2>3. started \in WorkerRec /\ started.loop = "idle"
    <3>1. worker[w].loop = "idle"
      BY <1>4 DEF ClaimItem, MayClaimLow
    <3> QED BY <3>1 DEF WorkersTyped, WorkerRec
  <2>4. waiting \in WorkerRec /\ waiting.held \in Items
    BY <2>2 DEF WorkersTyped, WorkerRec
  <2>5. WorkersTyped'
    <3>1. CASE Tasks(w) < Concurrency
      <4>1. worker' = [worker EXCEPT ![w] = started]
        BY <3>1 DEF WorkersTyped, WorkerRec
      <4> QED BY <2>3, <4>1, WorkerMoves
    <3>2. CASE ~(Tasks(w) < Concurrency)
      <4>1. worker' = [worker EXCEPT ![w] = waiting]
        BY <3>2 DEF WorkersTyped, WorkerRec
      <4> QED BY <2>4, <4>1, WorkerMoves
    <3> QED BY <3>1, <3>2
  <2>6. ProgressTyped' /\ LockTyped' /\ AttemptsTyped' /\ FaultsTyped'
    BY <1>4 DEF ClaimItem, lockVars, ProgressTyped, LockTyped, AttemptsTyped, FaultsTyped
  <2> QED BY <2>1, <2>5, <2>6
<1>5. CASE SlotFree(w)
  <2> DEFINE j == worker[w].held
             rec == [Idle EXCEPT !.fresh = IF worker[w].valid THEN worker[w].fresh \cup {j}
                                           ELSE worker[w].fresh,
                                 !.stale = IF worker[w].valid THEN worker[w].stale
                                           ELSE worker[w].stale \cup {j}]
  <2>1. worker[w].held \in Items
    BY <1>5 DEF SlotFree, WorkersTyped
  <2>2. rec \in WorkerRec /\ rec.loop = "idle"
    BY <2>1, RecordTypes DEF WorkersTyped, WorkerRec
  <2>3. WorkersTyped'
    BY <1>5, <2>2, WorkerMoves DEF SlotFree
  <2>4. JobsTyped' /\ ProgressTyped' /\ LockTyped' /\ AttemptsTyped' /\ FaultsTyped'
    BY <1>5 DEF SlotFree, jobVars, lockVars, JobsTyped, ProgressTyped, LockTyped, AttemptsTyped, FaultsTyped
  <2> QED BY <2>3, <2>4
<1>6. CASE ItemEnds(w)
  <2> PICK j \in worker[w].fresh, o \in Answers :
        /\ status' = [status EXCEPT ![j] = o]
        /\ progress' = [progress EXCEPT ![j[1]] = Counted(progress[j[1]], o, Weight[j[2]])]
        /\ worker' = Spent(w, j)
    BY <1>6 DEF ItemEnds
  <2>1. j \in Items /\ j[1] \in Parents /\ Weight[j[2]] \in Nat /\ o \in Outcomes
    BY Sizes, AnswersAssumption DEF WorkersTyped, WorkerRec, Group
  <2>2. JobsTyped'
    BY <1>6, <2>1 DEF ItemEnds, JobsTyped, Statuses
  <2>3. Counted(progress[j[1]], o, Weight[j[2]]) \in Counters
    BY <2>1 DEF Counted, ProgressTyped, Counters
  <2>4. ProgressTyped'
    BY <1>6, <2>1, <2>3 DEF ItemEnds, ProgressTyped
  <2>5. WorkersTyped'
    BY SpentTyped
  <2>6. LockTyped' /\ AttemptsTyped' /\ FaultsTyped'
    BY <1>6 DEF ItemEnds, lockVars, LockTyped, AttemptsTyped, FaultsTyped
  <2> QED BY <2>2, <2>4, <2>5, <2>6
<1>7. CASE StaleEnds(w)
  <2>1. WorkersTyped'
    BY <1>7 DEF StaleEnds, WorkersTyped, WorkerRec
  <2>2. JobsTyped' /\ ProgressTyped' /\ LockTyped' /\ AttemptsTyped' /\ FaultsTyped'
    BY <1>7 DEF StaleEnds, jobVars, lockVars, JobsTyped, ProgressTyped, LockTyped, AttemptsTyped, FaultsTyped
  <2> QED BY <2>1, <2>2
<1>8. CASE ItemUnreported(w)
  <2>1. WorkersTyped'
    BY <1>8, SpentTyped DEF ItemUnreported
  <2>2. FaultsTyped'
    BY <1>8, FaultTyped DEF ItemUnreported
  <2>3. JobsTyped' /\ ProgressTyped' /\ LockTyped' /\ AttemptsTyped'
    BY <1>8 DEF ItemUnreported, jobVars, lockVars, JobsTyped, ProgressTyped, LockTyped, AttemptsTyped
  <2> QED BY <2>1, <2>2, <2>3
<1>9. CASE LoopGoesOn(w)
  <2> DEFINE r == [worker[w] EXCEPT !.loop = "idle"]
  <2>1. r \in WorkerRec /\ r.loop # "slot"
    BY DEF WorkersTyped, WorkerRec
  <2>2. WorkersTyped'
    <3>1. worker' = [worker EXCEPT ![w] = r]
      BY <1>9 DEF LoopGoesOn, WorkersTyped, WorkerRec
    <3> HIDE DEF r
    <3> QED BY <2>1, <3>1, WorkerMoves
  <2>3. JobsTyped' /\ ProgressTyped' /\ LockTyped' /\ AttemptsTyped' /\ FaultsTyped'
    BY <1>9 DEF LoopGoesOn, jobVars, lockVars, JobsTyped, ProgressTyped, LockTyped, AttemptsTyped, FaultsTyped
  <2> QED BY <2>2, <2>3
<1> QED BY <1>1, <1>2, <1>3, <1>4, <1>5, <1>6, <1>7, <1>8, <1>9

(* The steps of an attempt that leave the job records alone.               *)
LEMMA QuietAttemptTyped ==
  ASSUME TypeOK, NEW a \in Attempts, AttemptsTyped', LockTyped', ProgressTyped', JobsTyped',
         UNCHANGED <<worker, faults>>
  PROVE  TypeOK'
  BY DEF TypeOK, WorkersTyped, FaultsTyped

LEMMA AttemptTyped == ASSUME TypeOK, NEW a \in Attempts, AttemptStep(a) PROVE TypeOK'
<1> USE Sizes DEF TypeOK
<1>0. /\ \A p \in (Holding \cup {"finish"}) \ Enqueueing :
           /\ Goto(a, p) => AttemptsTyped'
           /\ \A r \in Results : Ends(a, r, p) => AttemptsTyped'
      /\ \A p \in {"plan", "init", "enqueue"} :
           attempt[a].next \in Group /\ Goto(a, p) => AttemptsTyped'
  BY AttemptMoves DEF Holding
<1>a. /\ attempt[a] \in AttemptRec /\ ParentOf(a) \in Parents
      /\ attempt[a].result \in Results /\ Outgoing(a) \in Results
  BY DEF AttemptsTyped, AttemptRec, ParentOf, Outgoing, Results
<1>b. attempt[a].pc \in Enqueueing => attempt[a].next \in Group
  BY DEF AttemptsTyped
<1>1. CASE Acquire(a)
  <2>1. AttemptsTyped'
    <3> PICK today \in Dates(a) :
          attempt' = [attempt EXCEPT ![a].pc = "plan", ![a].late = today # day, ![a].since = 0]
      BY <1>1 DEF Acquire
    <3> DEFINE r == [attempt[a] EXCEPT !.pc = "plan", !.late = today # day, !.since = 0]
    <3>1. r \in AttemptRec /\ r.next = attempt[a].next
      <4>1. 0 \in 0..MaxDay /\ (today # day) \in BOOLEAN
        OBVIOUS
      <4> QED BY <1>a, <4>1 DEF AttemptRec, Holding
    <3>2. attempt' = [attempt EXCEPT ![a] = r]
      BY <1>a DEF AttemptsTyped, AttemptRec
    <3>3. attempt[a].next \in Group
      BY <1>b, <1>1 DEF Acquire, At, Enqueueing
    <3> HIDE DEF r
    <3> QED BY <3>1, <3>2, <3>3, AttemptReplaced
  <2>2. LockTyped'
    BY <1>1 DEF Acquire, LockTyped
  <2> QED BY <1>1, <2>1, <2>2, QuietAttemptTyped DEF Acquire, jobVars, JobsTyped, ProgressTyped
<1>2. CASE Skip(a) \/ Plan(a) \/ Wait(a) \/ Total(a) \/ LeaseLost(a)
  <2>1. AttemptsTyped'
    <3>1. CASE Skip(a) \/ LeaseLost(a)
      BY <1>0, <3>1 DEF Skip, LeaseLost, Holding, Enqueueing, Results, Outcomes
    <3>2. CASE Plan(a)
      BY <1>0, <1>b, <3>2 DEF Plan, At, Holding, Enqueueing, Results, Outcomes
    <3>4. CASE Total(a)
      <4> DEFINE r == [attempt[a] EXCEPT !.pc = "mark", !.since = day]
      <4>1. CASE attempt' = [attempt EXCEPT ![a].pc = "mark", ![a].since = day]
        <5>1. r \in AttemptRec /\ r.pc = "mark"
          BY <1>a DEF AttemptRec, Holding, LockTyped
        <5>2. attempt' = [attempt EXCEPT ![a] = r]
          BY <1>a, <4>1 DEF AttemptsTyped, AttemptRec
        <5> HIDE DEF r
        <5> QED BY <5>1, <5>2, AttemptReplaced DEF Enqueueing
      <4> QED BY <1>0, <3>4, <4>1 DEF Total, Holding, Enqueueing, Results, Outcomes
    <3>3. CASE Wait(a)
      <4>1. attempt[a].next \in Group \/ attempt[a].next > N
        BY <1>a DEF AttemptRec, Group
      <4> QED BY <1>0, <4>1, <3>3 DEF Wait, Holding, Enqueueing, Group
    <3> QED BY <1>2, <3>1, <3>2, <3>3, <3>4
  <2>2. UNCHANGED <<jobVars, lockVars, day, worker, faults, course>>
    BY <1>2 DEF Skip, Plan, Wait, Total, LeaseLost
  <2> QED BY <2>1, <2>2, QuietAttemptTyped
          DEF jobVars, lockVars, JobsTyped, ProgressTyped, LockTyped
<1>3. CASE InitializeProgress(a)
  <2>1. AttemptsTyped'
    BY <1>0, <1>b, <1>3 DEF InitializeProgress, At, Enqueueing
  <2>2. [progress[ParentOf(a)] EXCEPT !.processed = 0] \in Counters
    BY <1>a DEF ProgressTyped, Counters
  <2>3. ProgressTyped'
    BY <1>3, <1>a, <2>2 DEF InitializeProgress, ProgressTyped, Initialized
  <2> QED BY <1>3, <2>1, <2>3, QuietAttemptTyped
          DEF InitializeProgress, lockVars, JobsTyped, LockTyped
<1>4. CASE Enqueue(a)
  <2> DEFINE g == attempt[a].next
             j == <<ParentOf(a), g>>
             q == IF BatchEnd(g) THEN "wait" ELSE "enqueue"
             r == [attempt[a] EXCEPT !.next = g + 1, !.pc = q]
  <2>1. g \in Group /\ j \in Items
    BY <1>a, <1>b, <1>4 DEF Enqueue, At, Enqueueing, Items
  <2>2. r \in AttemptRec /\ r.next = g + 1 /\ r.pc = q
    <3>1. q \in Holding
      BY DEF Holding
    <3>2. g + 1 \in 1..N+1
      BY <2>1 DEF Group
    <3> HIDE DEF q, g
    <3> QED BY <1>a, <3>1, <3>2 DEF AttemptRec
  <2>3. AttemptsTyped'
    <3>1. r.pc \in Enqueueing => r.next \in Group
      <4>1. CASE g = N
        BY <2>2, <4>1 DEF BatchEnd, Enqueueing
      <4>2. CASE g # N
        <5>1. g + 1 \in Group
          <6>1. g \in 1..N /\ N \in Nat
            BY <2>1 DEF Group
          <6> HIDE DEF g
          <6> QED BY <4>2, <6>1 DEF Group
        <5> QED BY <2>2, <5>1
      <4> QED BY <4>1, <4>2
    <3>2. attempt' = [attempt EXCEPT ![a] = r]
      BY <1>4 DEF Enqueue, AttemptsTyped, AttemptRec
    <3> QED BY <2>2, <3>1, <3>2, AttemptReplaced
  <2>4. JobsTyped'
    BY <1>4, <2>1, Names DEF Enqueue, JobsTyped, Statuses
  <2> QED BY <1>4, <2>3, <2>4, QuietAttemptTyped DEF Enqueue, lockVars, LockTyped, ProgressTyped
<1>5. CASE Mark(a)
  <2>1. AttemptsTyped'
    <3> DEFINE r == [attempt[a] EXCEPT !.pc = "stamp", !.late = FALSE, !.since = 0]
    <3>1. r \in AttemptRec /\ r.pc = "stamp"
      <4>1. 0 \in 0..MaxDay
        OBVIOUS
      <4> QED BY <1>a, <4>1 DEF AttemptRec, Holding
    <3>2. attempt' = [attempt EXCEPT ![a] = r]
      BY <1>a, <1>5 DEF Mark, AttemptsTyped, AttemptRec
    <3> HIDE DEF r
    <3> QED BY <3>1, <3>2, AttemptReplaced DEF Enqueueing
  <2>2. LockTyped'
    <3> PICK today \in Dates(a) :
          /\ count' = [count EXCEPT ![today] = @ + 1]
          /\ lastOrigin' = [lastOrigin EXCEPT ![today] = origin[ParentOf(a)]]
      BY <1>5 DEF Mark
    <3>1. origin[ParentOf(a)] \in {"manual", "scheduled"}
      BY <1>a DEF JobsTyped
    <3>2. today \in 0..MaxDay
      BY <1>a DEF Dates, AttemptRec, LockTyped
    <3> QED BY <1>5, <3>1, <3>2 DEF Mark, LockTyped
  <2> QED BY <1>5, <2>1, <2>2, QuietAttemptTyped DEF Mark, jobVars, JobsTyped, ProgressTyped
<1>6. CASE Stamp(a)
  <2>1. AttemptsTyped'
    BY <1>0, <1>6 DEF Stamp, Holding, Results, Outcomes, Enqueueing
  <2>2. LockTyped'
    BY <1>6 DEF Stamp, LockTyped
  <2> QED BY <1>6, <2>1, <2>2, QuietAttemptTyped DEF Stamp, jobVars, JobsTyped, ProgressTyped
<1>7. CASE Release(a)
  <2>1. AttemptsTyped'
    BY <1>0, <1>7, <1>a DEF Release, Enqueueing, Holding
  <2>2. LockTyped'
    BY <1>7 DEF Release, LockTyped
  <2> QED BY <1>7, <2>1, <2>2, QuietAttemptTyped DEF Release, jobVars, JobsTyped, ProgressTyped
<1>8. CASE FinishParent(a)
  <2>1. AttemptsTyped'
    BY <1>8, Kept, AttemptReplaced DEF FinishParent
  <2>2. JobsTyped'
    BY <1>8, <1>a, Names DEF FinishParent, JobsTyped, Statuses, Results, Outcomes
  <2>3. LockTyped'
    BY <1>8 DEF FinishParent, LockTyped
  <2> QED BY <1>8, <2>1, <2>2, <2>3, QuietAttemptTyped DEF FinishParent, ProgressTyped
<1>9. CASE TaskEnds(a)
  <2>1. AttemptsTyped'
    BY <1>9, RecordTypes, AttemptReplaced DEF TaskEnds
  <2> QED BY <1>9, <2>1, QuietAttemptTyped
          DEF TaskEnds, jobVars, lockVars, JobsTyped, ProgressTyped, LockTyped
<1> QED BY <1>1, <1>2, <1>3, <1>4, <1>5, <1>6, <1>7, <1>8, <1>9 DEF AttemptStep

LEMMA LeaseTyped ==
  ASSUME TypeOK, (\E w \in Workers : Recover(w)) \/ LockLapses \/ Midnight
  PROVE  TypeOK'
<1> USE DEF TypeOK
<1>1. CASE \E w \in Workers : Recover(w)
  <2> PICK w \in Workers, j \in Jobs :
        /\ Recover(w)
        /\ status' = [status EXCEPT ![j] = "queued"]
        /\ claim' = [p \in Parents |-> IF j = Whole(p) THEN 0 ELSE claim[p]]
        /\ worker' = [v \in Workers |-> [worker[v] EXCEPT !.valid = @ /\ worker[v].held # j]]
    BY <1>1 DEF Recover
  <2>1. JobsTyped'
    BY DEF Recover, JobsTyped, Statuses
  <2>2. ASSUME NEW v \in Workers
        PROVE  /\ worker'[v] \in WorkerRec
               /\ worker'[v].loop = worker[v].loop /\ worker'[v].held = worker[v].held
    BY DEF WorkersTyped, WorkerRec
  <2>3. WorkersTyped'
    BY <2>2 DEF WorkersTyped
  <2>4. ProgressTyped' /\ LockTyped' /\ AttemptsTyped' /\ FaultsTyped'
    BY DEF Recover, lockVars, ProgressTyped, LockTyped, AttemptsTyped, FaultsTyped
  <2> QED BY <2>1, <2>3, <2>4
<1>2. CASE LockLapses
  BY <1>2 DEF LockLapses, jobVars, JobsTyped, ProgressTyped, LockTyped, AttemptsTyped,
              WorkersTyped, FaultsTyped
<1>3. CASE Midnight
  <2>1. LockTyped'
    BY <1>3, Sizes DEF Midnight, lockVars, LockTyped
  <2> QED BY <1>3, <2>1 DEF Midnight, jobVars, JobsTyped, ProgressTyped, AttemptsTyped,
                            WorkersTyped, FaultsTyped
<1> QED BY <1>1, <1>2, <1>3

LEMMA EndedTyped ==
  ASSUME AttemptsTyped, NEW A, attempt' = [a \in Attempts |-> IF a \in A THEN Gone ELSE attempt[a]]
  PROVE  AttemptsTyped'
  BY RecordTypes DEF AttemptsTyped

LEMMA CrashTyped == ASSUME TypeOK, NEW w \in Workers, Crash(w) PROVE TypeOK'
<1> USE DEF TypeOK
<1>1. FaultsTyped'
  BY FaultTyped DEF Crash
<1>2. WorkersTyped'
  BY RecordTypes, WorkerMoves DEF Crash
<1>3. AttemptsTyped'
  BY EndedTyped DEF Crash
<1> QED BY <1>1, <1>2, <1>3 DEF Crash, jobVars, lockVars, JobsTyped, ProgressTyped, LockTyped

LEMMA StopTyped == ASSUME TypeOK, NEW w \in Workers, Stop(w) PROVE TypeOK'
<1> USE DEF TypeOK
<1>1. FaultsTyped'
  BY FaultTyped DEF Stop
<1>2. JobsTyped'
  BY DEF Stop, JobsTyped, Statuses
<1>3. LockTyped'
  BY DEF Stop, LockTyped
<1>4. AttemptsTyped'
  BY EndedTyped DEF Stop
<1>5. WorkersTyped'
  <2>1. ASSUME NEW v \in Workers, v # w
        PROVE  /\ worker'[v] \in WorkerRec
               /\ worker'[v].loop = worker[v].loop /\ worker'[v].held = worker[v].held
    BY <2>1 DEF Stop, WorkersTyped, WorkerRec
  <2>2. worker'[w] = Idle
    BY DEF Stop
  <2>3. worker' = [v \in Workers |-> worker'[v]]
    BY DEF Stop
  <2> QED BY <2>1, <2>2, <2>3, RecordTypes DEF WorkersTyped
<1> QED BY <1>1, <1>2, <1>3, <1>4, <1>5 DEF Stop, ProgressTyped

LEMMA AttemptFaultTyped ==
  ASSUME TypeOK, NEW a \in Attempts, RenewalFails(a) \/ HeartbeatDies(a) \/ CommandFails(a)
  PROVE  TypeOK'
<1> USE DEF TypeOK
<1>1. FaultsTyped'
  BY FaultTyped DEF RenewalFails, HeartbeatDies, CommandFails
<1>2. AttemptsTyped'
  <2>1. CASE RenewalFails(a)
    <3> DEFINE r == [attempt[a] EXCEPT !.lost = TRUE]
    <3>1. r \in AttemptRec /\ r.pc = attempt[a].pc /\ r.next = attempt[a].next
      BY DEF AttemptsTyped, AttemptRec
    <3>2. attempt' = [attempt EXCEPT ![a] = r]
      BY <2>1 DEF RenewalFails, AttemptsTyped, AttemptRec
    <3> QED BY <3>1, <3>2, AttemptReplaced DEF AttemptsTyped
  <2>2. CASE HeartbeatDies(a)
    <3> DEFINE r == [attempt[a] EXCEPT !.mute = TRUE]
    <3>1. r \in AttemptRec /\ r.pc = attempt[a].pc /\ r.next = attempt[a].next
      BY DEF AttemptsTyped, AttemptRec
    <3>2. attempt' = [attempt EXCEPT ![a] = r]
      BY <2>2 DEF HeartbeatDies, AttemptsTyped, AttemptRec
    <3> QED BY <3>1, <3>2, AttemptReplaced DEF AttemptsTyped
  <2>3. CASE CommandFails(a)
    <3>1. Outgoing(a) \in Results /\ "error" \in Results
      BY DEF AttemptsTyped, AttemptRec, Outgoing, Results
    <3>2. \A o \in Results : Ends(a, o, "release") \/ Ends(a, o, "finish") => AttemptsTyped'
      BY AttemptMoves DEF Holding, Enqueueing
    <3>3. CASE attempt' = [attempt EXCEPT ![a] = Gone]
      BY <3>3, RecordTypes, AttemptReplaced
    <3> QED BY <2>3, <3>1, <3>2, <3>3 DEF CommandFails
  <2> QED BY <2>1, <2>2, <2>3
<1> QED BY <1>1, <1>2 DEF RenewalFails, HeartbeatDies, CommandFails, jobVars, lockVars,
                          JobsTyped, ProgressTyped, LockTyped, WorkersTyped

LEMMA NextTyped == TypeOK /\ [Next]_vars => TypeOK'
<1> SUFFICES ASSUME TypeOK, [Next]_vars PROVE TypeOK'
  OBVIOUS
<1>1. CASE \/ \E p \in Parents : Submit(p, "manual")
           \/ UserAsks
           \/ \E w \in Workers : InitializeSchedule(w) \/ ScheduledRefresh(w)
  BY <1>1, RequestTyped
<1>2. ASSUME NEW w \in Workers,
             ClaimManual(w) \/ ManualEnds(w) \/ LoopGoesOn(w) \/ ClaimParent(w) \/ ClaimItem(w)
               \/ SlotFree(w) \/ ItemEnds(w) \/ StaleEnds(w) \/ ItemUnreported(w)
      PROVE  TypeOK'
  BY <1>2, WorkerTyped
<1>3. ASSUME NEW w \in Workers, Recover(w) \/ Crash(w) \/ Stop(w)
      PROVE  TypeOK'
  BY <1>3, LeaseTyped, CrashTyped, StopTyped
<1>4. ASSUME NEW a \in Attempts,
             AttemptStep(a) \/ RenewalFails(a) \/ HeartbeatDies(a) \/ CommandFails(a)
      PROVE  TypeOK'
  BY <1>4, AttemptTyped, AttemptFaultTyped
<1>5. CASE LockLapses \/ Midnight
  BY <1>5, LeaseTyped
<1>6. CASE UNCHANGED vars
  BY <1>6 DEF vars, jobVars, lockVars, TypeOK, JobsTyped, ProgressTyped, LockTyped,
              AttemptsTyped, WorkersTyped, FaultsTyped
<1> QED BY <1>1, <1>2, <1>3, <1>4, <1>5, <1>6 DEF Next

(* Every variable keeps its type, whatever fails, for any constants.       *)
THEOREM TypeCorrect == Spec => []TypeOK
  BY InitTyped, NextTyped, PTL DEF Spec

-----------------------------------------------------------------------------
(* One run at a time, and the limit of the day.  Before it is marked as    *)
(* done, the run that holds the lock is one the lock script would let      *)
(* begin now, and on every date it may be counted for: nobody else can use *)
(* up the day in the meantime, and a new day has used up nothing.  Only a  *)
(* run that asked for the lock with the keys of a day gone by is not.      *)

Unmarked == {"plan", "init", "enqueue", "wait", "total", "mark"}

(* The dates for which an attempt may be counted by its next command.      *)
Reach(a) == IF At(a, "mark") THEN Dates(a) ELSE {day}

Allowed(a, d) == \/ count[d] < DailyLimit
                 \/ /\ ManualAfterScheduled
                    /\ origin[ParentOf(a)] = "manual" /\ lastOrigin[d] = "scheduled"

Permitted(a) == DailyLimit > 0 /\ (attempt[a].late \/ \A d \in Reach(a) : Allowed(a, d))

RunsPermitted == \A a \in Attempts : attempt[a].pc \in Unmarked => Permitted(a)
ParentsKnown == \A a \in Attempts : Alive(a) => status[Whole(ParentOf(a))] # "none"
DaysAhead == \A d \in day+1..MaxDay : count[d] = 0
OriginsCounted == \A d \in 0..MaxDay : lastOrigin[d] # "none" => DailyLimit > 0

IInv == /\ TypeOK /\ OneRunAtATime
        /\ RunsPermitted /\ ParentsKnown /\ DaysAhead /\ OriginsCounted

LEMMA InitIInv == Init => IInv
<1> SUFFICES ASSUME Init PROVE IInv
  OBVIOUS
<1>1. TypeOK
  BY InitTyped
<1>2. \A a \in Attempts : attempt[a].pc = "unused"
  BY DEF Init, NoAttempt
<1>3. OneRunAtATime /\ RunsPermitted /\ ParentsKnown
  BY <1>2 DEF OneRunAtATime, RunsPermitted, ParentsKnown, Holding, Unmarked, Alive
<1>4. DaysAhead /\ OriginsCounted
  BY Sizes DEF Init, DaysAhead, OriginsCounted
<1> QED BY <1>1, <1>3, <1>4 DEF IInv

(* A step after which an attempt has not got further into the lock.        *)
Tame(b) ==
  \/ attempt'[b].pc \in {"unused", "gone"}
  \/ attempt'[b].pc = "lock" /\ status'[Whole(attempt'[b].parent)] # "none"
  \/ /\ Alive(b) /\ attempt'[b].parent = attempt[b].parent
     /\ attempt'[b].pc \in Holding => attempt[b].pc \in Holding
     /\ attempt'[b].pc \in Unmarked =>
          /\ attempt[b].pc \in Unmarked /\ attempt'[b].late = attempt[b].late
          /\ \/ attempt'[b].pc = attempt[b].pc /\ attempt'[b].since = attempt[b].since
             \/ attempt[b].pc # "mark" /\ (attempt'[b].pc = "mark" => attempt'[b].since = day)

StatusesStay == \A j \in Jobs : status[j] # "none" => status'[j] # "none"

(* Such a step can only disturb the lock itself.                           *)
LEMMA Frame ==
  ASSUME IInv, TypeOK', OneRunAtATime', StatusesStay, \A b \in Attempts : Tame(b),
         UNCHANGED <<count, lastOrigin, day, origin>>
  PROVE  IInv'
<1>1. \A b \in Attempts : ParentOf(b) \in Parents
  BY DEF IInv, TypeOK, AttemptsTyped, AttemptRec, ParentOf
<1>2. ParentsKnown'
  <2> SUFFICES ASSUME NEW b \in Attempts, Alive(b)' PROVE status'[Whole(ParentOf(b)')] # "none"
    BY DEF ParentsKnown, Whole, ParentOf
  <2>1. CASE attempt'[b].pc = "lock" /\ status'[Whole(attempt'[b].parent)] # "none"
    BY <2>1 DEF ParentOf
  <2>2. CASE Alive(b) /\ attempt'[b].parent = attempt[b].parent
    <3>1. ParentOf(b)' = ParentOf(b)
      BY <2>2 DEF ParentOf
    <3> QED BY <1>1, <2>2, <3>1, Names DEF IInv, ParentsKnown, StatusesStay
  <2> QED BY <2>1, <2>2 DEF Tame, Alive
<1>3. RunsPermitted'
  <2> SUFFICES ASSUME NEW b \in Attempts, attempt'[b].pc \in Unmarked PROVE Permitted(b)'
    BY DEF RunsPermitted
  <2>1. /\ attempt[b].pc \in Unmarked /\ attempt'[b].late = attempt[b].late
        /\ ParentOf(b)' = ParentOf(b)
    BY DEF Tame, Unmarked, ParentOf
  <2>2. Reach(b)' = Reach(b) \/ (Reach(b)' = {day} /\ Reach(b) = {day})
    <3>1. day \in Nat /\ attempt[b].since \in Nat
      BY Sizes DEF IInv, TypeOK, LockTyped, AttemptsTyped, AttemptRec
    <3>2. CASE attempt'[b].pc = attempt[b].pc /\ attempt'[b].since = attempt[b].since
      <4>1. day' = day
        OBVIOUS
      <4>2. Dates(b)' = Dates(b)
        BY <3>1, <3>2, <4>1 DEF Dates
      <4>3. CASE attempt[b].pc = "mark"
        <5>1. Reach(b) = Dates(b)
          BY <4>3 DEF Reach, At
        <5>2. Reach(b)' = Dates(b)'
          BY <3>2, <4>3 DEF Reach, At
        <5> QED BY <4>2, <5>1, <5>2
      <4>4. CASE attempt[b].pc # "mark"
        BY <3>2, <4>1, <4>4 DEF Reach, At
      <4> QED BY <4>3, <4>4
    <3>3. CASE attempt[b].pc # "mark" /\ (attempt'[b].pc = "mark" => attempt'[b].since = day)
      BY <3>1, <3>3 DEF Reach, Dates, At
    <3> QED BY <3>2, <3>3 DEF Tame, Unmarked
  <2>3. \A d \in Reach(b) : Allowed(b, d) => Allowed(b, d)'
    BY <2>1 DEF Allowed
  <2> QED BY <2>1, <2>2, <2>3 DEF IInv, RunsPermitted, Permitted
<1>4. DaysAhead' /\ OriginsCounted'
  BY DEF IInv, DaysAhead, OriginsCounted
<1> QED BY <1>2, <1>3, <1>4 DEF IInv

LEMMA LockKept ==
  ASSUME IInv, \A b \in Attempts : Tame(b), lock' = lock
  PROVE  OneRunAtATime'
  BY DEF IInv, OneRunAtATime, Tame, Holding


(* A step of one attempt that takes it no further into the lock.           *)
LEMMA OneTame ==
  ASSUME TypeOK, NEW a \in Attempts, NEW r, attempt' = [attempt EXCEPT ![a] = r],
         \/ r.pc = "gone"
         \/ /\ Alive(a) /\ r.parent = attempt[a].parent
            /\ r.pc \in Holding => attempt[a].pc \in Holding
            /\ r.pc \in Unmarked =>
                 /\ attempt[a].pc \in Unmarked /\ r.late = attempt[a].late
                 /\ attempt[a].pc # "mark" /\ (r.pc = "mark" => r.since = day)
  PROVE  \A b \in Attempts : Tame(b)
<1>1. Tame(a)
  BY DEF Tame, TypeOK, AttemptsTyped
<1>2. ASSUME NEW b \in Attempts, b # a PROVE Tame(b)
  BY <1>2 DEF Tame, Alive, TypeOK, AttemptsTyped
<1> QED BY <1>1, <1>2

LEMMA GotoTame ==
  ASSUME TypeOK, NEW a \in Attempts, Alive(a), NEW p,
         p \in Holding => attempt[a].pc \in Holding,
         p \in Unmarked => p # "mark" /\ attempt[a].pc \in Unmarked \ {"mark"},
         Goto(a, p)
  PROVE  \A b \in Attempts : Tame(b)
<1> DEFINE r == [attempt[a] EXCEPT !.pc = p]
<1>1. /\ attempt' = [attempt EXCEPT ![a] = r]
      /\ r.pc = p /\ r.parent = attempt[a].parent /\ r.late = attempt[a].late
  BY DEF Goto, TypeOK, AttemptsTyped, AttemptRec
<1> HIDE DEF r
<1> QED BY <1>1, OneTame

LEMMA EndsTame ==
  ASSUME TypeOK, NEW a \in Attempts, Alive(a), NEW p \in {"release", "finish"},
         p = "release" => attempt[a].pc \in Holding,
         NEW o \in Results, Ends(a, o, p)
  PROVE  \A b \in Attempts : Tame(b)
<1> PICK r \in AttemptRec : /\ attempt' = [attempt EXCEPT ![a] = r]
                            /\ r.pc = p /\ r.parent = attempt[a].parent
  BY Ended DEF TypeOK, Holding
<1> QED BY OneTame DEF Holding, Unmarked

LEMMA StillTame ==
  ASSUME TypeOK, UNCHANGED attempt PROVE \A b \in Attempts : Tame(b)
  BY DEF Tame, Alive

(* Whoever is inside the lock is alone there.                              *)
LEMMA Alone ==
  ASSUME IInv, NEW a \in Attempts, NEW b \in Attempts,
         attempt[a].pc \in Holding, attempt[b].pc \in Holding
  PROVE  a = b
  BY DEF IInv, OneRunAtATime

LEMMA AcquireIInv == ASSUME IInv, NEW a \in Attempts, Acquire(a), TypeOK' PROVE IInv'
<1> PICK today \in Dates(a) :
      /\ Free(a, today)
      /\ attempt' = [attempt EXCEPT ![a].pc = "plan", ![a].late = today # day, ![a].since = 0]
  BY DEF Acquire
<1>1. \A b \in Attempts : attempt[b].pc \notin Holding
  BY Sizes DEF IInv, OneRunAtATime, Free, Attempts
<1>2. /\ attempt'[a].pc = "plan" /\ ParentOf(a)' = ParentOf(a)
      /\ attempt'[a].late = (today # day)
      /\ \A b \in Attempts : b # a => attempt'[b] = attempt[b]
  BY DEF IInv, TypeOK, AttemptsTyped, AttemptRec, ParentOf
<1>3. OneRunAtATime'
  BY <1>1, <1>2 DEF OneRunAtATime, Acquire
<1>4. DailyLimit > 0 /\ (today = day => Allowed(a, day))
  <2>1. CASE today # day
    BY <2>1 DEF Free, WithinLimit
  <2>2. CASE today = day /\ count[day] < DailyLimit
    <3>1. count[day] \in Nat
      BY DEF IInv, TypeOK, LockTyped
    <3> QED BY <2>2, <3>1, Sizes DEF Allowed
  <2>3. CASE today = day /\ Override(a)
    BY <2>3, Sizes DEF Allowed, Override, IInv, TypeOK, LockTyped, OriginsCounted
  <2> QED BY <2>1, <2>2, <2>3 DEF Free, WithinLimit
<1>5. RunsPermitted'
  <2>1. Reach(a)' = {day}
    BY <1>2 DEF Reach, At, Acquire
  <2>2. Allowed(a, day) => Allowed(a, day)'
    BY <1>2 DEF Allowed, Acquire, jobVars
  <2>3. Permitted(a)'
    BY <1>2, <1>4, <2>1, <2>2 DEF Permitted, Acquire
  <2> QED BY <1>1, <1>2, <2>3 DEF RunsPermitted, Unmarked, Holding
<1>6. ParentsKnown'
  BY <1>2 DEF IInv, ParentsKnown, Alive, ParentOf, Acquire, At, jobVars
<1>7. DaysAhead' /\ OriginsCounted'
  BY DEF IInv, DaysAhead, OriginsCounted, Acquire
<1> QED BY <1>3, <1>5, <1>6, <1>7 DEF IInv

LEMMA MarkIInv == ASSUME IInv, NEW a \in Attempts, Mark(a), TypeOK' PROVE IInv'
<1>1. \A b \in Attempts : b # a => attempt[b].pc \notin Holding
  BY Alone DEF Mark, At, Holding
<1>2. /\ attempt'[a].pc = "stamp" /\ ParentOf(a)' = ParentOf(a)
      /\ \A b \in Attempts : b # a => attempt'[b] = attempt[b]
  BY DEF IInv, TypeOK, AttemptsTyped, AttemptRec, Mark, ParentOf
<1> PICK today \in Dates(a) :
      /\ count' = [count EXCEPT ![today] = @ + 1]
      /\ lastOrigin' = [lastOrigin EXCEPT ![today] = origin[ParentOf(a)]]
  BY DEF Mark
<1>d. today \in 0..day
  BY Sizes DEF IInv, TypeOK, AttemptsTyped, AttemptRec, LockTyped, Dates
<1>3. OneRunAtATime'
  BY <1>1, <1>2 DEF IInv, OneRunAtATime, Mark, At, Holding
<1>4. RunsPermitted'
  BY <1>1, <1>2 DEF RunsPermitted, Unmarked, Holding
<1>5. ParentsKnown'
  <2>1. Alive(a) /\ UNCHANGED status
    BY DEF Mark, At, Alive, jobVars
  <2> QED BY <1>2, <2>1 DEF IInv, ParentsKnown, Alive, ParentOf
<1>6. DaysAhead'
  BY <1>d, Sizes DEF IInv, TypeOK, LockTyped, DaysAhead, Mark
<1>7. OriginsCounted'
  <2>1. DailyLimit > 0
    BY DEF IInv, RunsPermitted, Permitted, Unmarked, Mark, At
  <2> QED BY <2>1 DEF OriginsCounted
<1> QED BY <1>3, <1>4, <1>5, <1>6, <1>7 DEF IInv

LEMMA AttemptIInv == ASSUME IInv, NEW a \in Attempts, AttemptStep(a), TypeOK' PROVE IInv'
<1>a. TypeOK /\ attempt[a].result \in Results /\ Outgoing(a) \in Results
  BY DEF IInv, TypeOK, AttemptsTyped, AttemptRec, Outgoing, Results
<1>1. CASE Acquire(a)
  BY <1>1, AcquireIInv
<1>2. CASE Mark(a)
  BY <1>2, MarkIInv
<1>3. CASE \/ Skip(a) \/ Plan(a) \/ InitializeProgress(a) \/ Wait(a)
           \/ Total(a) \/ Stamp(a) \/ LeaseLost(a)
  <2>1. Alive(a)
    BY <1>3 DEF Skip, Plan, InitializeProgress, Wait, Total, Stamp, LeaseLost, At, Alive
  <2>2. \A b \in Attempts : Tame(b)
    <3>1. CASE (Goto(a, "init") /\ At(a, "plan")) \/ InitializeProgress(a) \/ Wait(a)
      BY <1>a, <2>1, <3>1, GotoTame DEF InitializeProgress, Wait, At, Holding, Unmarked
    <3>2. CASE \/ Skip(a) \/ Stamp(a) \/ LeaseLost(a)
               \/ (Ends(a, "failed", "release") /\ attempt[a].pc \in {"plan", "total"})
      BY <1>a, <2>1, <3>2, EndsTame DEF Skip, Stamp, LeaseLost, At, Holding, Results, Outcomes
    <3>3. CASE At(a, "total") /\ attempt' = [attempt EXCEPT ![a].pc = "mark", ![a].since = day]
      <4> DEFINE r == [attempt[a] EXCEPT !.pc = "mark", !.since = day]
      <4>1. /\ attempt' = [attempt EXCEPT ![a] = r]
            /\ r.pc = "mark" /\ r.parent = attempt[a].parent
            /\ r.late = attempt[a].late /\ r.since = day
        BY <1>a, <3>3 DEF TypeOK, AttemptsTyped, AttemptRec
      <4> HIDE DEF r
      <4> QED BY <1>a, <2>1, <3>3, <4>1, OneTame DEF At, Holding, Unmarked
    <3> QED BY <1>3, <3>1, <3>2, <3>3 DEF Plan, Total, At
  <2>3. UNCHANGED <<status, lock, count, lastOrigin, day, origin>>
    BY <1>3 DEF Skip, Plan, InitializeProgress, Wait, Total, Stamp, LeaseLost, jobVars, lockVars
  <2> QED BY <2>2, <2>3, LockKept, Frame DEF StatusesStay
<1>4. CASE Enqueue(a)
  <2> DEFINE g == attempt[a].next
             q == IF BatchEnd(g) THEN "wait" ELSE "enqueue"
             r == [attempt[a] EXCEPT !.next = g + 1, !.pc = q]
  <2>1. /\ attempt' = [attempt EXCEPT ![a] = r]
        /\ r.pc = q /\ r.parent = attempt[a].parent /\ r.late = attempt[a].late
    BY <1>4, <1>a DEF Enqueue, TypeOK, AttemptsTyped, AttemptRec
  <2>2. \A b \in Attempts : Tame(b)
    <3>1. attempt[a].pc = "enqueue" /\ q \in {"enqueue", "wait"}
      BY <1>4 DEF Enqueue, At
    <3> HIDE DEF q, r
    <3>2. Alive(a) /\ attempt[a].pc \in Holding /\ attempt[a].pc \in Unmarked \ {"mark"}
      BY <3>1 DEF Alive, Holding, Unmarked
    <3> QED BY <1>a, <2>1, <3>1, <3>2, OneTame
  <2>3. StatusesStay
    BY <1>4, <1>a DEF Enqueue, StatusesStay, TypeOK, JobsTyped
  <2>4. UNCHANGED <<lock, count, lastOrigin, day, origin>>
    BY <1>4 DEF Enqueue, lockVars
  <2> QED BY <2>2, <2>3, <2>4, LockKept, Frame
<1>5. CASE Release(a)
  <2>1. \A b \in Attempts : Tame(b)
    BY <1>5, <1>a, EndsTame DEF Release, At, Alive
  <2>2. attempt'[a].pc = "finish" /\ \A b \in Attempts : b # a => attempt'[b] = attempt[b]
    <3> PICK r \in AttemptRec : attempt' = [attempt EXCEPT ![a] = r] /\ r.pc = "finish"
      BY <1>5, <1>a, Ended DEF Release, TypeOK
    <3> QED BY <1>a DEF TypeOK, AttemptsTyped
  <2>3. OneRunAtATime'
    BY <1>5, <2>2, Alone DEF OneRunAtATime, Release, At, Holding
  <2>4. UNCHANGED <<status, count, lastOrigin, day, origin>>
    BY <1>5 DEF Release, jobVars
  <2> QED BY <2>1, <2>3, <2>4, Frame DEF StatusesStay
<1>6. CASE FinishParent(a)
  <2>1. \A b \in Attempts : Tame(b)
    <3>1. Keeping(a, "metric").pc = "metric" /\ Keeping(a, "metric").parent = attempt[a].parent
      BY <1>a, Kept DEF TypeOK
    <3> QED BY <1>6, <1>a, <3>1, OneTame DEF FinishParent, At, Alive, Holding, Unmarked
  <2>2. StatusesStay
    BY <1>6, <1>a DEF FinishParent, StatusesStay, Results, Outcomes, TypeOK, JobsTyped
  <2>3. UNCHANGED <<lock, count, lastOrigin, day, origin>>
    BY <1>6 DEF FinishParent
  <2> QED BY <2>1, <2>2, <2>3, LockKept, Frame
<1>7. CASE TaskEnds(a)
  <2>1. \A b \in Attempts : Tame(b)
    BY <1>7, <1>a, OneTame DEF TaskEnds, Gone, NoAttempt
  <2>2. UNCHANGED <<status, lock, count, lastOrigin, day, origin>>
    BY <1>7 DEF TaskEnds, jobVars, lockVars
  <2> QED BY <2>1, <2>2, LockKept, Frame DEF StatusesStay
<1> QED BY <1>1, <1>2, <1>3, <1>4, <1>5, <1>6, <1>7 DEF AttemptStep

(* The steps of requests and workers move no attempt, or begin one.        *)
LEMMA WorkerIInv ==
  ASSUME IInv, NEW w \in Workers, TypeOK',
         InitializeSchedule(w) \/ ClaimManual(w) \/ ManualEnds(w) \/ LoopGoesOn(w)
           \/ ClaimParent(w) \/ ClaimItem(w) \/ SlotFree(w) \/ ItemEnds(w) \/ StaleEnds(w)
           \/ ItemUnreported(w) \/ Recover(w)
  PROVE  IInv'
<1>a. TypeOK
  BY DEF IInv
<1>1. UNCHANGED <<lock, count, lastOrigin, day, origin>>
  BY DEF InitializeSchedule, ClaimManual, ManualEnds, LoopGoesOn, ClaimParent, ClaimItem, SlotFree,
         ItemEnds, StaleEnds, ItemUnreported, Recover, jobVars, lockVars
<1>2. StatusesStay
  <2>1. CASE UNCHANGED status
    BY <2>1 DEF StatusesStay
  <2>2. ASSUME NEW j \in Jobs, NEW v \in {"running", "success", "queued"} \cup Outcomes,
               status' = [status EXCEPT ![j] = v]
        PROVE  StatusesStay
    BY <1>a, <2>2 DEF StatusesStay, Outcomes, TypeOK, JobsTyped
  <2>3. worker[w].fresh \subseteq Jobs
    BY <1>a, Names DEF TypeOK, WorkersTyped, WorkerRec
  <2>4. CASE ManualEnds(w) \/ ItemEnds(w)
    BY <2>2, <2>3, <2>4, Names, AnswersAssumption DEF ManualEnds, ItemEnds
  <2> QED BY <2>1, <2>2, <2>4, Names
          DEF InitializeSchedule, ClaimManual, LoopGoesOn, ClaimParent, ClaimItem, SlotFree,
              StaleEnds, ItemUnreported, Recover, jobVars
<1>3. \A b \in Attempts : Tame(b)
  <2>1. CASE ClaimParent(w)
    <3> PICK p \in Parents, a \in Attempts :
          /\ status' = [status EXCEPT ![Whole(p)] = "running"]
          /\ attempt' = [attempt EXCEPT ![a] = [NoAttempt EXCEPT !.pc = "lock", !.parent = p,
                                                   !.on = w, !.since = day]]
      BY <2>1 DEF ClaimParent
    <3>1. Tame(a)
      BY <1>a, Names DEF Tame, NoAttempt, TypeOK, AttemptsTyped, JobsTyped
    <3>2. ASSUME NEW b \in Attempts, b # a PROVE Tame(b)
      BY <1>a, <3>2 DEF Tame, Alive, TypeOK, AttemptsTyped
    <3> QED BY <3>1, <3>2
  <2>2. CASE UNCHANGED attempt
    BY <1>a, <2>2, StillTame
  <2> QED BY <2>1, <2>2 DEF InitializeSchedule, ClaimManual, ManualEnds, LoopGoesOn, ClaimItem,
                            SlotFree, ItemEnds, StaleEnds, ItemUnreported, Recover
<1> QED BY <1>1, <1>2, <1>3, LockKept, Frame

(* A request chooses the origin of a parent that no attempt executes yet.  *)
LEMMA SubmitIInv ==
  ASSUME IInv, NEW p \in Parents, NEW o \in {"manual", "scheduled"}, Submit(p, o), TypeOK'
  PROVE  IInv'
<1>1. \A a \in Attempts : Alive(a) => ParentOf(a) \in Parents \ {p}
  BY DEF IInv, ParentsKnown, Submit, TypeOK, AttemptsTyped, AttemptRec, ParentOf
<1>2. OneRunAtATime'
  BY DEF IInv, OneRunAtATime, Submit
<1>3. ParentsKnown'
  BY <1>1, Names DEF IInv, ParentsKnown, Alive, ParentOf, Submit, TypeOK, JobsTyped
<1>4. RunsPermitted'
  <2> SUFFICES ASSUME NEW a \in Attempts, attempt[a].pc \in Unmarked PROVE Permitted(a)'
    BY DEF RunsPermitted, Submit
  <2>1. Permitted(a) /\ Alive(a)
    BY DEF IInv, RunsPermitted, Unmarked, Alive
  <2>2. origin'[ParentOf(a)] = origin[ParentOf(a)]
    BY <1>1, <2>1 DEF Submit, IInv, TypeOK, JobsTyped
  <2> QED BY <2>1, <2>2 DEF Permitted, Allowed, Reach, Dates, At, ParentOf, Submit
<1>5. DaysAhead' /\ OriginsCounted'
  BY DEF IInv, DaysAhead, OriginsCounted, Submit
<1> QED BY <1>2, <1>3, <1>4, <1>5 DEF IInv

LEMMA FaultIInv ==
  ASSUME IInv, TypeOK',
         \/ \E a \in Attempts : RenewalFails(a) \/ HeartbeatDies(a) \/ CommandFails(a)
         \/ \E w \in Workers : Crash(w)
  PROVE  IInv'
<1>a. TypeOK
  BY DEF IInv
<1>1. UNCHANGED <<status, lock, count, lastOrigin, day, origin>>
  BY DEF RenewalFails, HeartbeatDies, CommandFails, Crash, jobVars, lockVars
<1>2. \A b \in Attempts : Tame(b)
  <2>1. ASSUME NEW a \in Attempts, RenewalFails(a) \/ HeartbeatDies(a)
        PROVE  \A b \in Attempts : Tame(b)
    <3>1. \A b \in Attempts : /\ attempt'[b].pc = attempt[b].pc
                             /\ attempt'[b].parent = attempt[b].parent
                             /\ attempt'[b].late = attempt[b].late
                             /\ attempt'[b].since = attempt[b].since
      BY <1>a, <2>1 DEF RenewalFails, HeartbeatDies, TypeOK, AttemptsTyped, AttemptRec
    <3> QED BY <3>1 DEF Tame, Alive
  <2>2. ASSUME NEW a \in Attempts, CommandFails(a)
        PROVE  \A b \in Attempts : Tame(b)
    <3>1. Outgoing(a) \in Results /\ "error" \in Results
      BY <1>a DEF TypeOK, AttemptsTyped, AttemptRec, Outgoing, Results
    <3>2. CASE attempt' = [attempt EXCEPT ![a] = Gone]
      BY <1>a, <3>2, OneTame DEF Gone, NoAttempt
    <3>3. ASSUME NEW q \in {"release", "finish"}, Alive(a), NEW o \in Results,
                 Ends(a, o, q), q = "release" => attempt[a].pc \in Holding
          PROVE  \A b \in Attempts : Tame(b)
      BY <1>a, <3>3, EndsTame
    <3> QED BY <2>2, <3>1, <3>2, <3>3 DEF CommandFails, At, Alive, Holding
  <2>3. ASSUME NEW w \in Workers, Crash(w)
        PROVE  \A b \in Attempts : Tame(b)
    BY <1>a, <2>3 DEF Crash, Tame, Alive, Gone, NoAttempt, TypeOK, AttemptsTyped
  <2> QED BY <2>1, <2>2, <2>3
<1> QED BY <1>1, <1>2, LockKept, Frame DEF StatusesStay

LEMMA StopIInv == ASSUME IInv, NEW w \in Workers, Stop(w), TypeOK' PROVE IInv'
<1>1. ASSUME NEW b \in Attempts
      PROVE  \/ b \in Mine(w) /\ attempt'[b].pc = "gone"
             \/ b \notin Mine(w) /\ attempt'[b] = attempt[b]
  BY DEF Stop, Gone, NoAttempt
<1>2. \A b \in Attempts : Tame(b)
  BY <1>1 DEF Tame, Alive
<1>3. OneRunAtATime'
  <2>1. lock' = IF lock \in Mine(w) THEN 0 ELSE lock
    BY DEF Stop
  <2> QED BY <1>1, <2>1 DEF IInv, OneRunAtATime, Holding
<1>4. UNCHANGED <<count, lastOrigin, day, origin>> /\ StatusesStay
  BY DEF Stop, StatusesStay
<1> QED BY <1>2, <1>3, <1>4, Frame

LEMMA LockLapsesIInv == ASSUME IInv, LockLapses, TypeOK' PROVE IInv'
<1>1. \A b \in Attempts : Tame(b)
  BY StillTame DEF IInv, LockLapses
<1>2. OneRunAtATime'
  BY DEF IInv, OneRunAtATime, LockLapses, Holding, Alive
<1> QED BY <1>1, <1>2, Frame DEF LockLapses, jobVars, StatusesStay

LEMMA MidnightIInv == ASSUME IInv, Midnight, TypeOK' PROVE IInv'
<1>1. count[day + 1] = 0
  BY Sizes DEF IInv, TypeOK, LockTyped, DaysAhead, Midnight
<1>2. RunsPermitted'
  <2> SUFFICES ASSUME NEW a \in Attempts, attempt[a].pc \in Unmarked PROVE Permitted(a)'
    BY DEF RunsPermitted, Midnight
  <2>1. Permitted(a)
    BY DEF IInv, RunsPermitted
  <2>2. \A d \in Reach(a)' : d \in Reach(a) \/ d = day + 1
    <3>1. day \in Nat /\ attempt[a].since \in Nat /\ UNCHANGED attempt /\ day' = day + 1
      BY Sizes DEF Midnight, IInv, TypeOK, LockTyped, AttemptsTyped, AttemptRec
    <3>2. CASE At(a, "mark")
      BY <3>1, <3>2 DEF Reach, Dates, At
    <3>3. CASE ~At(a, "mark")
      BY <3>1, <3>3 DEF Reach, At
    <3> QED BY <3>2, <3>3
  <2>3. ASSUME DailyLimit > 0, NEW d, d = day + 1 PROVE Allowed(a, d)'
    BY <1>1, <2>3, Sizes DEF Allowed, Midnight, lockVars
  <2>4. \A d \in Reach(a) : Allowed(a, d) => Allowed(a, d)'
    BY DEF Allowed, ParentOf, Midnight, lockVars, jobVars
  <2> QED BY <2>1, <2>2, <2>3, <2>4 DEF Permitted, Midnight
<1>3. OneRunAtATime' /\ ParentsKnown' /\ OriginsCounted'
  BY DEF IInv, OneRunAtATime, ParentsKnown, OriginsCounted, Alive, ParentOf, Midnight, lockVars, jobVars
<1>4. DaysAhead'
  BY Sizes DEF IInv, TypeOK, LockTyped, DaysAhead, Midnight, lockVars
<1> QED BY <1>2, <1>3, <1>4 DEF IInv

LEMMA NextIInv == IInv /\ [Next]_vars => IInv'
<1> SUFFICES ASSUME IInv, [Next]_vars PROVE IInv'
  OBVIOUS
<1>a. TypeOK'
  BY NextTyped DEF IInv
<1>1. ASSUME NEW p \in Parents, NEW o \in {"manual", "scheduled"}, Submit(p, o)
      PROVE  IInv'
  BY <1>1, <1>a, SubmitIInv
<1>2. CASE UserAsks \/ UNCHANGED vars
  <2>1. UNCHANGED <<attempt, lock, count, lastOrigin, day, origin>>
    BY <1>2 DEF UserAsks, vars, jobVars, lockVars
  <2>2. StatusesStay
    BY <1>2 DEF StatusesStay, UserAsks, vars, jobVars, IInv, TypeOK, JobsTyped
  <2> QED BY <1>a, <2>1, <2>2, StillTame, LockKept, Frame DEF IInv
<1>3. ASSUME NEW w \in Workers,
             \/ InitializeSchedule(w) \/ ScheduledRefresh(w) \/ ClaimManual(w) \/ ManualEnds(w)
             \/ LoopGoesOn(w) \/ ClaimParent(w) \/ ClaimItem(w) \/ SlotFree(w) \/ ItemEnds(w)
             \/ StaleEnds(w) \/ ItemUnreported(w) \/ Recover(w) \/ Crash(w) \/ Stop(w)
      PROVE  IInv'
  BY <1>1, <1>3, <1>a, WorkerIInv, FaultIInv, StopIInv DEF ScheduledRefresh
<1>4. ASSUME NEW a \in Attempts,
             AttemptStep(a) \/ RenewalFails(a) \/ HeartbeatDies(a) \/ CommandFails(a)
      PROVE  IInv'
  BY <1>4, <1>a, AttemptIInv, FaultIInv
<1>5. CASE LockLapses \/ Midnight
  BY <1>5, <1>a, LockLapsesIInv, MidnightIInv
<1> QED BY <1>1, <1>2, <1>3, <1>4, <1>5 DEF Next

LEMMA Invariance == Spec => []IInv
  BY InitIInv, NextIInv, PTL DEF Spec

(* full_refresh_lock: no two executions of full refreshes are inside it at *)
(* once, whatever crashes, stops or fails.                                 *)
THEOREM OneRun == Spec => []OneRunAtATime
<1>1. IInv => OneRunAtATime
  BY DEF IInv
<1> QED BY <1>1, Invariance, PTL

(* Nothing else changes the day counters.                                  *)
LEMMA OnlyMarkCounts ==
  ASSUME [Next]_vars, count' # count
  PROVE  \E a \in Attempts : Mark(a)
<1>1. ~UNCHANGED lockVars /\ ~UNCHANGED vars
  BY DEF lockVars, vars
<1>2. \A p \in Parents, o \in {"manual", "scheduled"} : ~Submit(p, o)
  BY <1>1 DEF Submit
<1>3. ~UserAsks /\ ~LockLapses /\ ~Midnight
  BY <1>1 DEF UserAsks, LockLapses, Midnight
<1>4. ASSUME NEW w \in Workers
      PROVE  /\ ~InitializeSchedule(w) /\ ~ScheduledRefresh(w) /\ ~ClaimManual(w)
             /\ ~ManualEnds(w) /\ ~ClaimParent(w) /\ ~ClaimItem(w) /\ ~SlotFree(w)
             /\ ~ItemEnds(w) /\ ~StaleEnds(w) /\ ~Recover(w) /\ ~Crash(w) /\ ~Stop(w)
             /\ ~LoopGoesOn(w) /\ ~ItemUnreported(w)
  BY <1>1, <1>2 DEF InitializeSchedule, ScheduledRefresh, ClaimManual, ManualEnds, LoopGoesOn,
                    ClaimParent, ClaimItem, SlotFree, ItemEnds, StaleEnds, ItemUnreported,
                    Recover, Crash, Stop
<1>5. ASSUME NEW a \in Attempts, ~Mark(a)
      PROVE  ~AttemptStep(a) /\ ~RenewalFails(a) /\ ~HeartbeatDies(a) /\ ~CommandFails(a)
  BY <1>1, <1>5 DEF AttemptStep, Acquire, Skip, Plan, InitializeProgress, Enqueue, Wait, Total,
                    Stamp, LeaseLost, Release, FinishParent, TaskEnds, RenewalFails, HeartbeatDies,
                    CommandFails
<1> QED BY <1>1, <1>2, <1>3, <1>4, <1>5 DEF Next

(* A step that counts a run beyond the day's limit is one of a manual run  *)
(* that the settings let follow a scheduled one, or of one that asked for  *)
(* the lock with the keys of a day gone by.                                *)
LEMMA LimitStep == IInv /\ [Next]_vars => [\A d \in 0..MaxDay :
       count'[d] > count[d] /\ count[d] >= DailyLimit =>
         \/ /\ ManualAfterScheduled
            /\ lastOrigin[d] = "scheduled" /\ lastOrigin'[d] = "manual"
         \/ \E a \in Attempts : lock = a /\ attempt[a].late]_vars
<1> SUFFICES ASSUME IInv, [Next]_vars, NEW d \in 0..MaxDay,
                    count'[d] > count[d], count[d] >= DailyLimit
             PROVE  \/ /\ ManualAfterScheduled
                       /\ lastOrigin[d] = "scheduled" /\ lastOrigin'[d] = "manual"
                    \/ \E a \in Attempts : lock = a /\ attempt[a].late
  OBVIOUS
<1>1. \E a \in Attempts : Mark(a)
  <2>1. count' # count
    BY Sizes DEF IInv, TypeOK, LockTyped
  <2> QED BY <2>1, OnlyMarkCounts
<1>2. PICK a \in Attempts : Mark(a)
  BY <1>1
<1>3. lock = a /\ Permitted(a)
  BY <1>2 DEF Mark, At, Holding, Unmarked, IInv, OneRunAtATime, RunsPermitted
<1>4. CASE ~attempt[a].late
  <2> PICK today \in Dates(a) :
        /\ count' = [count EXCEPT ![today] = @ + 1]
        /\ lastOrigin' = [lastOrigin EXCEPT ![today] = origin[ParentOf(a)]]
    BY <1>2 DEF Mark
  <2>1. d = today /\ count[d] \in Nat
    BY Sizes DEF IInv, TypeOK, LockTyped
  <2>2. d \in Reach(a)
    BY <1>2, <2>1 DEF Reach, Mark
  <2>3. Allowed(a, d) /\ ~(count[d] < DailyLimit)
    BY <1>3, <1>4, <2>1, <2>2, Sizes DEF Permitted
  <2> QED BY <2>1, <2>3 DEF Allowed, IInv, TypeOK, LockTyped
<1> QED BY <1>3, <1>4

(* mark_full_refresh_done: the day's counter passes the limit only where   *)
(* the lock script makes an exception, or was run after the midnight of    *)
(* the day it asked about, whatever midnights, crashes and errors come     *)
(* between the lock and the count.                                         *)
THEOREM LimitKept == Spec => DayLimitKept
  BY Invariance, LimitStep, PTL DEF Spec, DayLimitKept

-----------------------------------------------------------------------------
(* A first run that is recorded as done has refreshed every group.  Until  *)
(* its second run the progress of an undisturbed parent counts exactly the *)
(* organizations of the groups whose items have ended: each item of it is  *)
(* queued once and, however often it is claimed, ends once.                *)

LEMMA OrganizationsFinite ==
  ASSUME NEW G \in SUBSET Group PROVE IsFiniteSet(Organizations(G))
<1> DEFINE members == [g \in G |-> {g} \X (1..Weight[g])]
           T == {{g} \X (1..Weight[g]) : g \in G}
<1>1. IsFiniteSet(G)
  <2>1. IsFiniteSet(Group)
    BY Sizes, FS_Interval DEF Group
  <2> QED BY <2>1, FS_Subset
<1>2. members \in Surjection(G, T)
  BY DEF Surjection
<1>3. IsFiniteSet(T)
  BY <1>1, <1>2, FS_Surjection
<1>4. ASSUME NEW g \in G PROVE IsFiniteSet({g} \X (1..Weight[g]))
  <2>1. Weight[g] \in Int
    BY Sizes DEF Group
  <2>2. IsFiniteSet({g})
    BY FS_Singleton
  <2>3. IsFiniteSet(1..Weight[g])
    BY <2>1, FS_Interval
  <2> QED BY <2>2, <2>3, FS_Product
<1> QED BY <1>3, <1>4, FS_UNION DEF Organizations

LEMMA OrganizationsAdded ==
  ASSUME NEW G \in SUBSET Group, NEW h \in Group, h \notin G
  PROVE  Cardinality(Organizations(G \cup {h})) = Cardinality(Organizations(G)) + Weight[h]
<1> DEFINE own == {h} \X (1..Weight[h])
<1>1. Weight[h] \in Nat
  BY Sizes DEF Group
<1>2. IsFiniteSet(own) /\ Cardinality(own) = Weight[h]
  <2>1. IsFiniteSet({h}) /\ Cardinality({h}) = 1
    BY FS_Singleton
  <2>2. 1 \in Int /\ Weight[h] \in Int
    BY <1>1
  <2>3. IsFiniteSet(1..Weight[h])
    BY <2>2, FS_Interval
  <2>4. Cardinality(1..Weight[h]) = Weight[h]
    <3>1. Cardinality(1..Weight[h]) = IF 1 > Weight[h] THEN 0 ELSE Weight[h] - 1 + 1
      BY <2>2, FS_Interval
    <3> QED BY <1>1, <3>1
  <2>5. IsFiniteSet(own)
    BY <2>1, <2>3, FS_Product
  <2>6. Cardinality(own) = Cardinality({h}) * Cardinality(1..Weight[h])
    BY <2>1, <2>3, FS_Product
  <2> QED BY <1>1, <2>1, <2>4, <2>5, <2>6
<1>3. Organizations(G \cup {h}) = Organizations(G) \cup own
  BY DEF Organizations
<1>4. Organizations(G) \cap own = {}
  BY DEF Organizations
<1>5. IsFiniteSet(Organizations(G)) /\ Cardinality(Organizations(G)) \in Nat
  BY OrganizationsFinite, FS_CardinalityType
<1> HIDE DEF own
<1>6. Cardinality(Organizations(G) \cup own) = Cardinality(Organizations(G)) + Cardinality(own) - Cardinality({})
  BY <1>2, <1>4, <1>5, FS_Union
<1>7. Cardinality({}) = 0
  BY FS_EmptySet
<1>8. Cardinality(Organizations(G) \cup own) = Cardinality(Organizations(G)) + Cardinality(own)
  BY <1>1, <1>2, <1>5, <1>6, <1>7
<1> QED BY <1>2, <1>3, <1>8

LEMMA OrganizationsApart ==
  ASSUME NEW G \in SUBSET Group, NEW H \in SUBSET Group, G \cap H = {}
  PROVE  /\ Cardinality(Organizations(G \cup H))
              = Cardinality(Organizations(G)) + Cardinality(Organizations(H))
         /\ Cardinality(Organizations(G)) \in Nat
<1>1. Organizations(G \cup H) = Organizations(G) \cup Organizations(H)
  BY DEF Organizations
<1>2. Organizations(G) \cap Organizations(H) = {}
  BY DEF Organizations
<1>3. /\ IsFiniteSet(Organizations(G)) /\ Cardinality(Organizations(G)) \in Nat
      /\ IsFiniteSet(Organizations(H)) /\ Cardinality(Organizations(H)) \in Nat
  BY OrganizationsFinite, FS_CardinalityType
<1>4. Cardinality(Organizations(G) \cup Organizations(H))
        = Cardinality(Organizations(G)) + Cardinality(Organizations(H)) - Cardinality({})
  BY <1>2, <1>3, FS_Union
<1>5. Cardinality({}) = 0
  BY FS_EmptySet
<1>6. Cardinality(Organizations(G) \cup Organizations(H))
        = Cardinality(Organizations(G)) + Cardinality(Organizations(H))
  BY <1>3, <1>4, <1>5
<1> QED BY <1>1, <1>3, <1>6

LEMMA AllCounted ==
  ASSUME NEW G \in SUBSET Group, Cardinality(Organizations(G)) >= SumTo(N)
  PROVE  G = Group
<1>1. IsFiniteSet(Organizations(Group)) /\ Organizations(G) \subseteq Organizations(Group)
  BY OrganizationsFinite DEF Organizations
<1>2. /\ Cardinality(Organizations(G)) \in Nat /\ Cardinality(Organizations(Group)) \in Nat
      /\ Cardinality(Organizations(G)) <= Cardinality(Organizations(Group))
  BY <1>1, FS_Subset, OrganizationsFinite, FS_CardinalityType
<1>3. Cardinality(Organizations(G)) = Cardinality(Organizations(Group))
  BY <1>2 DEF SumTo, Group
<1>4. Organizations(Group) = Organizations(G)
  BY <1>1, <1>3, FS_Subset
<1>5. ASSUME NEW g \in Group PROVE g \in G
  <2>1. <<g, 1>> \in Organizations(Group)
    <3>1. 1 \in 1..Weight[g]
      BY Sizes DEF Group
    <3> QED BY <3>1 DEF Organizations
  <2> QED BY <1>4, <2>1 DEF Organizations
<1> QED BY <1>5

LEMMA NoneCounted == ASSUME NEW G \in SUBSET Group, Cardinality(Organizations(G)) = 0 PROVE G = {}
<1>1. Organizations(G) = {}
  BY OrganizationsFinite, FS_EmptySet
<1>2. ASSUME NEW g \in G PROVE FALSE
  <2>1. <<g, 1>> \in Organizations(G)
    <3>1. 1 \in 1..Weight[g]
      BY Sizes DEF Group
    <3> QED BY <3>1 DEF Organizations
  <2> QED BY <1>1, <2>1
<1> QED BY <1>2

LEMMA EmptyCounted == Cardinality(Organizations({})) = 0
  BY FS_EmptySet DEF Organizations

(* An item that a worker has claimed, and nobody has recovered since.      *)
Holds(w, j) == j \in worker[w].fresh \/ (worker[w].valid /\ worker[w].held = j)

CarriedBy(w) ==
  /\ \A j \in worker[w].stale : status[j] # "none"
  /\ worker[w].loop = "slot" => status[worker[w].held] # "none"
  /\ worker[w].valid => worker[w].loop = "slot" /\ worker[w].held \notin worker[w].fresh

Carried == \A w \in Workers : CarriedBy(w)

ItemsRun == \A w \in Workers, j \in Items : Holds(w, j) =>
  /\ status[j] = "running"
  /\ \A v \in Workers : Holds(v, j) => v = w

(* The places of an attempt that has initialized the progress.             *)
Started == {"enqueue", "wait", "total", "mark", "stamp"}

Untouched == \A p \in Parents : course[p] = "none" =>
  /\ \A g \in Group : status[<<p, g>>] = "none"
  /\ \A a \in Attempts : attempt[a].pc \in Started => ParentOf(a) # p

Ahead == \A a \in Attempts : attempt[a].pc \in Started /\ course[ParentOf(a)] = "first" =>
  \A g \in Group : g >= attempt[a].next => status[<<ParentOf(a), g>>] = "none"

EndedAs(p, O) == {g \in Group : status[<<p, g>>] \in O}

Tally(p) ==
  /\ progress[p].processed = Cardinality(Organizations(EndedAs(p, Outcomes)))
  /\ \A o \in Outcomes : progress[p][o] = Cardinality(Organizations(EndedAs(p, {o})))

Tallied == \A p \in Parents : course[p] \in {"none", "first"} => Tally(p)

ProgressInv == Untouched /\ Ahead /\ Tallied /\ FirstRunIsClean

CInv == IInv /\ Carried /\ ItemsRun /\ ProgressInv

LEMMA InitCInv == Init => CInv
<1> SUFFICES ASSUME Init PROVE CInv
  OBVIOUS
<1>1. IInv
  BY InitIInv
<1>2. Carried /\ ItemsRun
  BY DEF Init, Idle, Carried, CarriedBy, ItemsRun, Holds
<1>3. \A j \in Items : status[j] = "none"
  BY Names DEF Init
<1>4. \A p \in Parents, g \in Group : status[<<p, g>>] = "none"
  BY <1>3 DEF Items
<1>5. \A a \in Attempts : attempt[a].pc = "unused"
  BY DEF Init, NoAttempt
<1>6. Untouched /\ Ahead /\ FirstRunIsClean
  BY <1>4, <1>5 DEF Untouched, Ahead, FirstRunIsClean, Started
<1>7. ASSUME NEW p \in Parents PROVE Tally(p)
  <2>1. \A O \in SUBSET Outcomes : EndedAs(p, O) = {}
    BY <1>4 DEF EndedAs, Outcomes
  <2>2. EndedAs(p, Outcomes) = {} /\ \A o \in Outcomes : EndedAs(p, {o}) = {}
    BY <2>1
  <2>3. progress[p].processed = 0 /\ \A o \in Outcomes : progress[p][o] = 0
    BY DEF Init, Outcomes
  <2> QED BY <2>2, <2>3, EmptyCounted DEF Tally
<1> QED BY <1>1, <1>2, <1>6, <1>7 DEF CInv, ProgressInv, Tallied

-----------------------------------------------------------------------------
(* Who holds an item.                                                      *)

LEMMA StillCarried ==
  ASSUME TypeOK, NEW v \in Workers, CarriedBy(v), worker'[v] = worker[v], StatusesStay
  PROVE  CarriedBy(v)'
<1>1. worker[v].stale \subseteq Jobs /\ (worker[v].loop = "slot" => worker[v].held \in Jobs)
  BY Names DEF TypeOK, WorkersTyped, WorkerRec
<1> QED BY <1>1 DEF CarriedBy, StatusesStay

(* Workers as they are; what was queued stays known, and what runs runs.   *)
LEMMA SameWorkers ==
  ASSUME TypeOK, Carried, ItemsRun, worker' = worker, StatusesStay,
         \A j \in Items : status[j] = "running" => status'[j] = "running"
  PROVE  Carried' /\ ItemsRun'
<1>1. Carried'
  BY StillCarried DEF Carried
<1>2. ItemsRun'
  BY DEF ItemsRun, Holds
<1> QED BY <1>1, <1>2

(* Nobody takes hold of an item.                                           *)
LEMMA NoNewHolds ==
  ASSUME ItemsRun,
         \A w \in Workers, j \in Items : Holds(w, j)' => Holds(w, j) /\ status'[j] = "running"
  PROVE  ItemsRun'
  BY DEF ItemsRun

LEMMA ClaimItemHeld ==
  ASSUME CInv, NEW w \in Workers, ClaimItem(w), TypeOK' PROVE Carried' /\ ItemsRun'
<1> PICK j \in Items :
      /\ status[j] = "queued"
      /\ status' = [status EXCEPT ![j] = "running"]
      /\ worker' = IF Tasks(w) < Concurrency THEN [worker EXCEPT ![w].fresh = @ \cup {j}]
                   ELSE [worker EXCEPT ![w].loop = "slot", ![w].held = j,
                                       ![w].valid = TRUE, ![w].seen = Tasks(w)]
  BY DEF ClaimItem
<1>1. worker[w].loop = "idle" /\ ~worker[w].valid
  BY DEF ClaimItem, MayClaimLow, CInv, Carried, CarriedBy
<1>2. /\ \A v \in Workers : ~Holds(v, j)
      /\ worker \in [Workers -> WorkerRec]
  BY DEF CInv, ItemsRun, IInv, TypeOK, WorkersTyped
<1>a. \A v \in Workers \ {w} : worker'[v] = worker[v]
  BY <1>2
<1>b. worker'[w].stale = worker[w].stale
  BY <1>2 DEF WorkerRec
<1>c. \/ /\ worker'[w].loop = "idle" /\ ~worker'[w].valid
         /\ worker'[w].fresh = worker[w].fresh \cup {j}
      \/ /\ worker'[w].loop = "slot" /\ worker'[w].held = j /\ worker'[w].valid
         /\ worker'[w].fresh = worker[w].fresh
  <2>1. CASE Tasks(w) < Concurrency
    BY <1>1, <1>2, <2>1 DEF WorkerRec
  <2>2. CASE ~(Tasks(w) < Concurrency)
    BY <1>2, <2>2 DEF WorkerRec
  <2> QED BY <2>1, <2>2
<1>3. status \in [Jobs -> Statuses] /\ j \in Jobs
  BY Names DEF CInv, IInv, TypeOK, JobsTyped
<1>4. \A i \in Jobs : status'[i] = IF i = j THEN "running" ELSE status[i]
  BY <1>3
<1>5. \A v \in Workers, i \in Items : Holds(v, i)' <=> Holds(v, i) \/ (v = w /\ i = j)
  BY <1>1, <1>a, <1>c DEF Holds
<1>6. ItemsRun'
  BY <1>2, <1>3, <1>4, <1>5, Names DEF CInv, ItemsRun
<1>7. StatusesStay
  BY <1>3, <1>4 DEF StatusesStay
<1>8. CarriedBy(w)'
  <2>1. \A i \in worker[w].stale : i \in Jobs /\ status[i] # "none"
    BY <1>2, Names DEF CInv, Carried, CarriedBy, WorkerRec
  <2>2. j \notin worker[w].fresh
    BY <1>2 DEF Holds
  <2> QED BY <1>b, <1>c, <1>3, <1>4, <2>1, <2>2 DEF CarriedBy
<1>9. Carried'
  <2>1. ASSUME NEW v \in Workers PROVE CarriedBy(v)'
    BY <1>7, <1>8, <1>a, StillCarried DEF CInv, IInv, Carried
  <2> QED BY <2>1 DEF Carried
<1> QED BY <1>6, <1>9

(* Nobody else's hands matter to what a worker carries.                    *)
LEMMA OneMoves ==
  ASSUME TypeOK, Carried, NEW w \in Workers, CarriedBy(w)', StatusesStay,
         \A v \in Workers \ {w} : worker'[v] = worker[v]
  PROVE  Carried'
<1>1. ASSUME NEW v \in Workers PROVE CarriedBy(v)'
  BY StillCarried DEF Carried
<1> QED BY <1>1 DEF Carried

LEMMA LoopHeld ==
  ASSUME CInv, NEW w \in Workers, ClaimManual(w) \/ ManualEnds(w) \/ LoopGoesOn(w) \/ SlotFree(w)
  PROVE  Carried' /\ ItemsRun'
<1>1. worker \in [Workers -> WorkerRec] /\ TypeOK /\ Carried
  BY DEF CInv, IInv, TypeOK, WorkersTyped
<1>2. /\ StatusesStay
      /\ \A j \in Items : status'[j] = status[j]
  <2>1. \A j \in Items : j # Manual
    BY NameAssumption DEF Items, Group
  <2>2. CASE ClaimManual(w) \/ ManualEnds(w)
    BY <1>1, <2>1, <2>2, Names, AnswersAssumption DEF TypeOK, JobsTyped, ClaimManual, ManualEnds,
       StatusesStay, Outcomes
  <2>3. CASE LoopGoesOn(w) \/ SlotFree(w)
    BY <2>3 DEF LoopGoesOn, SlotFree, jobVars, StatusesStay
  <2> QED BY <2>2, <2>3
<1>3. \A v \in Workers \ {w} : worker'[v] = worker[v]
  BY <1>1 DEF ClaimManual, ManualEnds, LoopGoesOn, SlotFree
<1>4. \A i \in worker[w].stale : i \in Jobs /\ status[i] # "none"
  BY <1>1, Names DEF Carried, CarriedBy, WorkerRec
<1>5. CASE ClaimManual(w) \/ ManualEnds(w) \/ LoopGoesOn(w)
  <2>1. /\ ~worker[w].valid /\ worker[w].loop # "slot"
    BY <1>1, <1>5 DEF ClaimManual, ManualEnds, LoopGoesOn, Carried, CarriedBy
  <2>2. /\ ~worker'[w].valid /\ worker'[w].loop # "slot"
        /\ worker'[w].fresh = worker[w].fresh /\ worker'[w].stale = worker[w].stale
    BY <1>1, <1>5, <2>1 DEF ClaimManual, ManualEnds, LoopGoesOn, WorkerRec
  <2>3. CarriedBy(w)'
    BY <1>4, <1>2, <2>2 DEF CarriedBy, StatusesStay
  <2>4. ItemsRun'
    BY <1>2, <1>3, <2>1, <2>2 DEF CInv, ItemsRun, Holds
  <2> QED BY <1>1, <1>2, <1>3, <2>3, <2>4, OneMoves
<1>6. CASE SlotFree(w)
  <2> DEFINE j == worker[w].held
  <2>1. /\ ~worker'[w].valid /\ worker'[w].loop # "slot"
        /\ worker'[w].fresh = IF worker[w].valid THEN worker[w].fresh \cup {j} ELSE worker[w].fresh
        /\ worker'[w].stale = IF worker[w].valid THEN worker[w].stale ELSE worker[w].stale \cup {j}
    BY <1>1, <1>6 DEF SlotFree, Idle
  <2>2. j \in Jobs /\ status[j] # "none"
    BY <1>1, <1>6, Names DEF SlotFree, Carried, CarriedBy, TypeOK, WorkersTyped
  <2>3. CarriedBy(w)'
    BY <1>4, <1>2, <2>1, <2>2 DEF CarriedBy, StatusesStay
  <2>4. \A v \in Workers, i \in Items : Holds(v, i)' <=> Holds(v, i)
    BY <1>3, <2>1 DEF Holds
  <2>5. ItemsRun'
    BY <1>2, <2>4 DEF CInv, ItemsRun
  <2> QED BY <1>1, <1>2, <1>3, <2>3, <2>5, OneMoves
<1> QED BY <1>5, <1>6

(* An item leaves the hands of its worker.                                 *)
LEMMA SpentHeld ==
  ASSUME CInv, NEW w \in Workers, NEW j \in worker[w].fresh, worker' = Spent(w, j),
         StatusesStay, \A i \in Items : i # j => status'[i] = status[i]
  PROVE  Carried' /\ ItemsRun'
<1>1. worker \in [Workers -> WorkerRec] /\ TypeOK /\ Carried
  BY DEF CInv, IInv, TypeOK, WorkersTyped
<1>2. j \in Items /\ j \in Jobs /\ status'[j] # "none"
  <2>1. j \in Items /\ j \in Jobs
    BY <1>1, Names DEF WorkerRec
  <2> QED BY <2>1 DEF CInv, ItemsRun, Holds, StatusesStay
<1>3. /\ \A v \in Workers \ {w} : worker'[v] = worker[v]
      /\ worker'[w].loop = worker[w].loop /\ worker'[w].held = worker[w].held
      /\ worker'[w].valid = worker[w].valid
      /\ worker'[w].stale = worker[w].stale \cup {j}
      /\ worker'[w].fresh = worker[w].fresh \ {j}
  BY <1>1 DEF WorkerRec, Spent
<1>4. \A i \in worker[w].stale : i \in Jobs
  BY <1>1, Names DEF WorkerRec
<1>5. worker[w].loop = "slot" => worker[w].held \in Jobs
  BY <1>1, Names DEF TypeOK, WorkersTyped
<1>6. CarriedBy(w)'
  BY <1>1, <1>2, <1>3, <1>4, <1>5 DEF Carried, CarriedBy, StatusesStay
<1>7. ASSUME NEW v \in Workers, NEW i \in Items, Holds(v, i)'
      PROVE  Holds(v, i) /\ status'[i] = "running"
  <2>1. Holds(v, i)
    BY <1>3, <1>7 DEF Holds
  <2>2. Holds(w, j) /\ (worker[w].valid => worker[w].held # j)
    BY <1>1 DEF Holds, Carried, CarriedBy
  <2>3. i # j
    <3>1. CASE v = w
      BY <1>3, <1>7, <2>2, <3>1 DEF Holds
    <3>2. CASE v # w
      BY <1>2, <2>1, <2>2, <3>2 DEF CInv, ItemsRun
    <3> QED BY <3>1, <3>2
  <2> QED BY <2>1, <2>3 DEF CInv, ItemsRun
<1>8. ItemsRun'
  BY <1>7, NoNewHolds DEF CInv
<1> QED BY <1>1, <1>3, <1>6, <1>8, OneMoves

LEMMA EndsHeld ==
  ASSUME CInv, NEW w \in Workers, ItemEnds(w) \/ StaleEnds(w) \/ ItemUnreported(w)
  PROVE  Carried' /\ ItemsRun'
<1>1. worker \in [Workers -> WorkerRec] /\ TypeOK /\ Carried
  BY DEF CInv, IInv, TypeOK, WorkersTyped
<1>2. CASE ItemEnds(w)
  <2> PICK j \in worker[w].fresh, o \in Answers :
        status' = [status EXCEPT ![j] = o] /\ worker' = Spent(w, j)
    BY <1>2 DEF ItemEnds
  <2>1. o # "none"
    BY AnswersAssumption DEF Outcomes
  <2>2. \A i \in Jobs : status'[i] = IF i = j THEN o ELSE status[i]
    BY <1>1 DEF TypeOK, JobsTyped
  <2>3. StatusesStay
    BY <2>1, <2>2 DEF StatusesStay
  <2>4. \A i \in Items : i # j => status'[i] = status[i]
    BY <2>2, Names
  <2> QED BY <2>3, <2>4, SpentHeld
<1>4. CASE ItemUnreported(w)
  <2> PICK j \in worker[w].fresh : worker' = Spent(w, j)
    BY <1>4 DEF ItemUnreported
  <2>1. status' = status
    BY <1>4 DEF ItemUnreported, jobVars
  <2> QED BY <2>1, SpentHeld DEF StatusesStay
<1>3. CASE StaleEnds(w)
  <2> PICK j \in worker[w].stale : worker' = [worker EXCEPT ![w].stale = @ \ {j}]
    BY <1>3 DEF StaleEnds
  <2>1. status' = status
    BY <1>3 DEF StaleEnds, jobVars
  <2>2. /\ \A v \in Workers \ {w} : worker'[v] = worker[v]
        /\ worker'[w].loop = worker[w].loop /\ worker'[w].held = worker[w].held
        /\ worker'[w].valid = worker[w].valid /\ worker'[w].fresh = worker[w].fresh
        /\ worker'[w].stale = worker[w].stale \ {j}
    BY <1>1 DEF WorkerRec
  <2>3. CarriedBy(w)'
    BY <1>1, <2>1, <2>2 DEF Carried, CarriedBy
  <2>4. ItemsRun'
    BY <2>1, <2>2 DEF CInv, ItemsRun, Holds
  <2> QED BY <1>1, <2>1, <2>2, <2>3, <2>4, OneMoves DEF StatusesStay
<1> QED BY <1>2, <1>3, <1>4

LEMMA RecoverHeld == ASSUME CInv, NEW w \in Workers, Recover(w) PROVE Carried' /\ ItemsRun'
<1>1. worker \in [Workers -> WorkerRec] /\ TypeOK /\ Carried
  BY DEF CInv, IInv, TypeOK, WorkersTyped
<1> PICK j \in Jobs :
      /\ Lapsed(j)
      /\ status' = [status EXCEPT ![j] = "queued"]
      /\ worker' = [v \in Workers |-> [worker[v] EXCEPT !.valid = @ /\ worker[v].held # j]]
  BY DEF Recover
<1>2. \A i \in Jobs : status'[i] = IF i = j THEN "queued" ELSE status[i]
  BY <1>1 DEF TypeOK, JobsTyped
<1>3. StatusesStay
  BY <1>2 DEF StatusesStay
<1>4. ASSUME NEW v \in Workers
      PROVE  /\ worker'[v].loop = worker[v].loop /\ worker'[v].held = worker[v].held
             /\ worker'[v].fresh = worker[v].fresh /\ worker'[v].stale = worker[v].stale
             /\ worker'[v].valid <=> worker[v].valid /\ worker[v].held # j
  BY <1>1 DEF WorkerRec
<1>5. ASSUME NEW v \in Workers PROVE CarriedBy(v)'
  <2>1. \A i \in worker[v].stale : i \in Jobs
    BY <1>1, Names DEF WorkerRec
  <2>2. worker[v].loop = "slot" => worker[v].held \in Jobs
    BY <1>1, Names DEF TypeOK, WorkersTyped
  <2>3. CarriedBy(v)
    BY <1>1 DEF Carried
  <2> QED BY <1>3, <1>4, <2>1, <2>2, <2>3 DEF CarriedBy, StatusesStay
<1>6. \A v \in Workers : j \notin worker[v].fresh
  BY DEF Lapsed, Beating
<1>7. ASSUME NEW v \in Workers, NEW i \in Items, Holds(v, i)'
      PROVE  Holds(v, i) /\ status'[i] = "running"
  <2>1. Holds(v, i) /\ i # j
    BY <1>4, <1>6, <1>7 DEF Holds
  <2> QED BY <1>2, <2>1, Names DEF CInv, ItemsRun
<1> QED BY <1>5, <1>7, NoNewHolds DEF CInv, Carried

LEMMA CrashHeld == ASSUME CInv, NEW w \in Workers, Crash(w) PROVE Carried' /\ ItemsRun'
<1>1. worker \in [Workers -> WorkerRec] /\ TypeOK /\ Carried
  BY DEF CInv, IInv, TypeOK, WorkersTyped
<1>2. /\ \A v \in Workers \ {w} : worker'[v] = worker[v]
      /\ worker'[w] = Idle /\ status' = status
  BY <1>1 DEF Crash, jobVars
<1>3. CarriedBy(w)'
  BY <1>2 DEF CarriedBy, Idle
<1>4. \A v \in Workers, i \in Items : Holds(v, i)' => Holds(v, i)
  BY <1>2 DEF Holds, Idle
<1>5. ItemsRun'
  BY <1>2, <1>4 DEF CInv, ItemsRun
<1> QED BY <1>1, <1>2, <1>3, <1>5, OneMoves DEF StatusesStay

LEMMA StopHeld == ASSUME CInv, NEW w \in Workers, Stop(w) PROVE Carried' /\ ItemsRun'
<1>1. worker \in [Workers -> WorkerRec] /\ TypeOK /\ Carried
  BY DEF CInv, IInv, TypeOK, WorkersTyped
<1>0. status' = [j \in Jobs |-> IF j \in Given(w) THEN "queued" ELSE status[j]]
  BY DEF Stop
<1>2. StatusesStay
  BY <1>0 DEF StatusesStay
<1>3. worker'[w] = Idle
  BY DEF Stop
<1>4. ASSUME NEW v \in Workers, v # w
      PROVE  /\ worker'[v].loop = worker[v].loop /\ worker'[v].held = worker[v].held
             /\ worker'[v].fresh = worker[v].fresh \ Given(w)
             /\ worker'[v].stale = worker[v].stale \cup (worker[v].fresh \cap Given(w))
             /\ worker'[v].valid <=> worker[v].valid /\ worker[v].held \notin Given(w)
  BY <1>1, <1>4 DEF Stop, WorkerRec
<1>5. ASSUME NEW v \in Workers PROVE CarriedBy(v)'
  <2>1. CASE v = w
    BY <1>3, <2>1 DEF CarriedBy, Idle
  <2>2. CASE v # w
    <3>1. /\ worker[v].stale \subseteq Jobs /\ worker[v].fresh \subseteq Jobs
      BY <1>1, Names DEF WorkerRec
    <3>2. worker[v].loop = "slot" => worker[v].held \in Jobs
      BY <1>1, Names DEF TypeOK, WorkersTyped
    <3>3. CarriedBy(v)
      BY <1>1 DEF Carried
    <3>4. ASSUME NEW i \in worker'[v].stale PROVE status'[i] # "none"
      <4>1. CASE i \in worker[v].stale
        BY <1>2, <3>1, <3>3, <4>1 DEF CarriedBy, StatusesStay
      <4>2. CASE i \in worker[v].fresh \cap Given(w)
        BY <1>0, <3>1, <4>2
      <4> QED BY <1>4, <2>2, <4>1, <4>2
    <3> QED BY <1>2, <1>4, <2>2, <3>2, <3>3, <3>4 DEF CarriedBy, StatusesStay
  <2> QED BY <2>1, <2>2
<1>6. ASSUME NEW v \in Workers, NEW i \in Items, Holds(v, i)'
      PROVE  Holds(v, i) /\ status'[i] = "running"
  <2>1. v # w
    BY <1>3, <1>6 DEF Holds, Idle
  <2>2. Holds(v, i) /\ i \notin Given(w)
    <3>1. CASE i \in worker'[v].fresh
      BY <1>4, <2>1, <3>1 DEF Holds
    <3>2. CASE worker'[v].valid /\ worker'[v].held = i
      BY <1>4, <2>1, <3>2 DEF Holds
    <3> QED BY <1>6, <3>1, <3>2 DEF Holds
  <2> QED BY <1>0, <2>2, Names DEF CInv, ItemsRun
<1> QED BY <1>5, <1>6, NoNewHolds DEF CInv, Carried

-----------------------------------------------------------------------------
(* The progress.                                                           *)

(* What an attempt may do without a word to the progress.                  *)
Calm(b) ==
  attempt'[b].pc \in Started =>
    /\ attempt[b].pc \in Started
    /\ attempt'[b].parent = attempt[b].parent /\ attempt'[b].next = attempt[b].next
    /\ \/ attempt'[b].pc \notin {"mark", "stamp"}
       \/ attempt[b].pc \in {"mark", "stamp"}
       \/ course[ParentOf(b)] = "first" => AllRefreshed(ParentOf(b))

(* An item that stays where it is, or goes between the queue and workers.  *)
Waits(j) == status'[j] = status[j] \/ {status[j], status'[j]} \subseteq {"queued", "running"}

(* Most steps leave the progress alone, and end no item and add none, or   *)
(* disturb the parent whose items they touch.                              *)
LEMMA QuietProgress ==
  ASSUME CInv, TypeOK', progress' = progress, \A b \in Attempts : Calm(b),
         \A p \in Parents : course'[p] \in {course[p], "disturbed"},
         \A p \in Parents, g \in Group : course'[p] # "disturbed" => Waits(<<p, g>>)
  PROVE  ProgressInv'
<1>1. ASSUME NEW p \in Parents, course'[p] # "disturbed"
      PROVE  /\ course[p] = course'[p]
             /\ \A g \in Group, O \in SUBSET Outcomes : status'[<<p, g>>] \in O <=> status[<<p, g>>] \in O
             /\ \A g \in Group : status'[<<p, g>>] = "none" <=> status[<<p, g>>] = "none"
  BY <1>1 DEF Waits, Outcomes
<1>2. \A b \in Attempts : /\ ParentOf(b) \in Parents
                          /\ attempt'[b].pc \in Started => ParentOf(b)' = ParentOf(b)
  BY DEF CInv, IInv, TypeOK, AttemptsTyped, AttemptRec, ParentOf, Calm
<1>3. Untouched'
  <2> SUFFICES ASSUME NEW p \in Parents, course'[p] = "none"
               PROVE  /\ \A g \in Group : status'[<<p, g>>] = "none"
                      /\ \A b \in Attempts : attempt'[b].pc \in Started => ParentOf(b)' # p
    BY DEF Untouched
  <2>1. course[p] = "none"
    BY <1>1
  <2> QED BY <1>1, <1>2, <2>1 DEF CInv, ProgressInv, Untouched, Calm
<1>4. Ahead'
  <2> SUFFICES ASSUME NEW b \in Attempts, attempt'[b].pc \in Started, course'[ParentOf(b)'] = "first",
                      NEW g \in Group, g >= attempt'[b].next
               PROVE  status'[<<ParentOf(b)', g>>] = "none"
    BY DEF Ahead
  <2>1. attempt[b].pc \in Started /\ attempt'[b].next = attempt[b].next
    BY DEF Calm
  <2>2. course[ParentOf(b)] = "first"
    BY <1>1, <1>2
  <2> QED BY <1>1, <1>2, <2>1, <2>2 DEF CInv, ProgressInv, Ahead
<1>5. Tallied'
  <2> SUFFICES ASSUME NEW p \in Parents, course'[p] \in {"none", "first"} PROVE Tally(p)'
    BY DEF Tallied
  <2>1. \A O \in SUBSET Outcomes : EndedAs(p, O)' = EndedAs(p, O)
    BY <1>1 DEF EndedAs
  <2>2. EndedAs(p, Outcomes)' = EndedAs(p, Outcomes)
    BY <2>1
  <2>3. \A o \in Outcomes : EndedAs(p, {o})' = EndedAs(p, {o})
    BY <2>1
  <2>4. Tally(p)
    BY <1>1 DEF CInv, ProgressInv, Tallied
  <2> QED BY <2>2, <2>3, <2>4 DEF Tally
<1>6. FirstRunIsClean'
  <2> SUFFICES ASSUME NEW b \in Attempts, attempt'[b].pc \in {"mark", "stamp"},
                      course'[ParentOf(b)'] = "first", NEW g \in Group
               PROVE  status'[<<ParentOf(b)', g>>] \in {"success", "skipped"}
    BY DEF FirstRunIsClean, AllRefreshed
  <2>1. ParentOf(b)' = ParentOf(b) /\ attempt'[b].pc \in Started
    BY <1>2 DEF Started
  <2>2. course[ParentOf(b)] = "first"
    BY <1>1, <1>2, <2>1
  <2>3. AllRefreshed(ParentOf(b))
    BY <2>1, <2>2 DEF Calm, CInv, ProgressInv, FirstRunIsClean
  <2>4. status[<<ParentOf(b), g>>] \in {"success", "skipped"}
    BY <2>3 DEF AllRefreshed
  <2>5. {"success", "skipped"} \in SUBSET Outcomes
    BY DEF Outcomes
  <2> QED BY <1>1, <1>2, <2>1, <2>4, <2>5
<1> QED BY <1>3, <1>4, <1>5, <1>6 DEF ProgressInv

LEMMA ItemEndsProgress == ASSUME CInv, NEW w \in Workers, ItemEnds(w), TypeOK' PROVE ProgressInv'
<1>1. TypeOK /\ ItemsRun /\ ProgressInv
  BY DEF CInv, IInv
<1> PICK j \in worker[w].fresh, o \in Answers :
      /\ status' = [status EXCEPT ![j] = o]
      /\ progress' = [progress EXCEPT ![j[1]] = Counted(progress[j[1]], o, Weight[j[2]])]
  BY DEF ItemEnds
<1>a. o \in Outcomes
  BY AnswersAssumption
<1>2. PICK p \in Parents, h \in Group : j = <<p, h>>
  BY <1>1 DEF TypeOK, WorkersTyped, WorkerRec, Items
<1>3. status[<<p, h>>] = "running"
  BY <1>1, <1>2 DEF ItemsRun, Holds, Items
<1>4. UNCHANGED <<attempt, course>>
  BY DEF ItemEnds
<1>5. \A q \in Parents, g \in Group :
        status'[<<q, g>>] = IF q = p /\ g = h THEN o ELSE status[<<q, g>>]
  BY <1>1, <1>2, Names DEF TypeOK, JobsTyped, Items
<1>6. \A a \in Attempts : ParentOf(a) \in Parents /\ ParentOf(a)' = ParentOf(a)
  BY <1>1, <1>4 DEF TypeOK, AttemptsTyped, AttemptRec, ParentOf
<1>7. Untouched'
  BY <1>1, <1>3, <1>4, <1>5, <1>6 DEF ProgressInv, Untouched
<1>8. Ahead'
  BY <1>1, <1>3, <1>4, <1>5, <1>6 DEF ProgressInv, Ahead
<1>9. FirstRunIsClean'
  BY <1>1, <1>3, <1>4, <1>5, <1>6 DEF ProgressInv, FirstRunIsClean, AllRefreshed
<1>10. ASSUME NEW q \in Parents, course[q] \in {"none", "first"} PROVE Tally(q)'
  <2>1. Tally(q)
    BY <1>1, <1>10 DEF ProgressInv, Tallied
  <2>2. CASE q # p
    <3>1. \A O : EndedAs(q, O)' = EndedAs(q, O)
      BY <1>5, <2>2 DEF EndedAs
    <3>2. progress'[q] = progress[q]
      BY <1>1, <1>2, <2>2 DEF TypeOK, ProgressTyped
    <3> QED BY <2>1, <3>1, <3>2 DEF Tally
  <2>3. CASE q = p
    <3> DEFINE r == progress[p]
    <3>1. r \in Counters /\ progress'[p] = Counted(r, o, Weight[h])
      BY <1>1, <1>2 DEF TypeOK, ProgressTyped
    <3>2. /\ progress'[p].processed = r.processed + Weight[h]
          /\ \A u \in Outcomes : progress'[p][u] = IF u = o THEN r[u] + Weight[h] ELSE r[u]
      BY <1>a, <3>1 DEF Counted, Counters, Outcomes
    <3>3. ASSUME NEW O \in SUBSET Outcomes
          PROVE  /\ h \notin EndedAs(p, O) /\ EndedAs(p, O) \in SUBSET Group
                 /\ EndedAs(p, O)' = IF o \in O THEN EndedAs(p, O) \cup {h} ELSE EndedAs(p, O)
      BY <1>3, <1>5 DEF EndedAs, Outcomes
    <3>4. ASSUME NEW O \in SUBSET Outcomes
          PROVE  Cardinality(Organizations(EndedAs(p, O)'))
                   = IF o \in O THEN Cardinality(Organizations(EndedAs(p, O))) + Weight[h]
                     ELSE Cardinality(Organizations(EndedAs(p, O)))
      BY <3>3, OrganizationsAdded
    <3>5. \A O : Organizations(EndedAs(p, O))' = Organizations(EndedAs(p, O)')
      BY DEF Organizations
    <3>6. progress'[p].processed = Cardinality(Organizations(EndedAs(p, Outcomes)'))
      <4>1. Outcomes \in SUBSET Outcomes /\ o \in Outcomes
        BY <1>a
      <4> QED BY <2>1, <2>3, <3>2, <3>4, <4>1 DEF Tally
    <3>7. \A u \in Outcomes : progress'[p][u] = Cardinality(Organizations(EndedAs(p, {u})'))
      BY <2>1, <2>3, <3>2, <3>4 DEF Tally
    <3> QED BY <2>3, <3>5, <3>6, <3>7 DEF Tally
  <2> QED BY <2>2, <2>3
<1> QED BY <1>4, <1>7, <1>8, <1>9, <1>10 DEF ProgressInv, Tallied

(* Whoever is inside the lock is alone there.                              *)
LEMMA AloneStarted ==
  ASSUME CInv, NEW a \in Attempts, attempt[a].pc \in Holding,
         NEW b \in Attempts, b # a PROVE attempt[b].pc \notin Started
  BY Alone DEF CInv, Started, Holding

LEMMA EnqueueProgress == ASSUME CInv, NEW a \in Attempts, Enqueue(a), TypeOK' PROVE ProgressInv'
<1> DEFINE p == ParentOf(a)
           h == attempt[a].next
<1>1. TypeOK /\ ProgressInv
  BY DEF CInv, IInv
<1>2. p \in Parents /\ h \in Group /\ attempt \in [Attempts -> AttemptRec]
  BY <1>1 DEF Enqueue, At, TypeOK, AttemptsTyped, AttemptRec, ParentOf, Enqueueing
<1>3. /\ attempt[a].pc = "enqueue" /\ attempt'[a].pc \in {"enqueue", "wait"}
      /\ attempt'[a].next = h + 1 /\ ParentOf(a)' = p
      /\ \A b \in Attempts \ {a} : attempt'[b] = attempt[b]
  BY <1>2 DEF Enqueue, At, AttemptRec, ParentOf
<1>4. \A b \in Attempts \ {a} : attempt'[b].pc \notin Started
  BY <1>3, AloneStarted DEF Holding
<1>5. progress' = progress /\ course' = course
  BY DEF Enqueue
<1>6. course[p] # "none"
  BY <1>1, <1>2, <1>3 DEF ProgressInv, Untouched, Started
<1>7. course[p] = "first" => status[<<p, h>>] = "none"
  BY <1>1, <1>2, <1>3 DEF ProgressInv, Ahead, Started, Group
<1>8. \A q \in Parents, g \in Group :
        /\ (q = p /\ g = h) \/ status'[<<q, g>>] = status[<<q, g>>]
        /\ status'[<<q, g>>] = status[<<q, g>>] \/ status'[<<q, g>>] = "queued"
  BY <1>1, <1>2, Names DEF Enqueue, TypeOK, JobsTyped, Items
<1>9. Untouched'
  BY <1>1, <1>3, <1>4, <1>5, <1>6, <1>8 DEF ProgressInv, Untouched
<1>10. Ahead'
  <2> SUFFICES ASSUME course[p] = "first", NEW g \in Group, g >= h + 1
               PROVE  status'[<<p, g>>] = "none"
    BY <1>3, <1>4, <1>5 DEF Ahead
  <2>1. g >= h /\ g # h
    BY <1>2 DEF Group
  <2> QED BY <1>1, <1>2, <1>3, <1>8, <2>1 DEF ProgressInv, Ahead, Started
<1>11. FirstRunIsClean'
  BY <1>3, <1>4 DEF FirstRunIsClean, Started
<1>12. ASSUME NEW q \in Parents, course[q] \in {"none", "first"} PROVE Tally(q)'
  <2>1. Tally(q)
    BY <1>1, <1>12 DEF ProgressInv, Tallied
  <2>3. \A O \in SUBSET Outcomes : EndedAs(q, O)' = EndedAs(q, O)
    <3>1. ASSUME NEW g \in Group, NEW O \in SUBSET Outcomes
          PROVE  status'[<<q, g>>] \in O <=> status[<<q, g>>] \in O
      <4>1. CASE q = p /\ g = h
        BY <1>6, <1>7, <1>8, <1>12, <4>1 DEF Outcomes
      <4>2. CASE ~(q = p /\ g = h)
        BY <1>8, <4>2
      <4> QED BY <4>1, <4>2
    <3> QED BY <3>1 DEF EndedAs
  <2>4. EndedAs(q, Outcomes)' = EndedAs(q, Outcomes)
    BY <2>3
  <2>5. \A o \in Outcomes : EndedAs(q, {o})' = EndedAs(q, {o})
    BY <2>3
  <2> QED BY <1>5, <2>1, <2>4, <2>5 DEF Tally
<1> QED BY <1>5, <1>9, <1>10, <1>11, <1>12 DEF ProgressInv, Tallied

LEMMA InitializeProgressInv ==
  ASSUME CInv, NEW a \in Attempts, InitializeProgress(a), TypeOK' PROVE ProgressInv'
<1> DEFINE p == ParentOf(a)
<1>1. TypeOK /\ ProgressInv
  BY DEF CInv, IInv
<1>2. p \in Parents /\ attempt \in [Attempts -> AttemptRec]
  BY <1>1 DEF TypeOK, AttemptsTyped, AttemptRec, ParentOf
<1>3. /\ attempt[a].pc = "init" /\ attempt'[a].pc = "enqueue" /\ ParentOf(a)' = p
      /\ \A b \in Attempts \ {a} : attempt'[b] = attempt[b]
  BY <1>2 DEF InitializeProgress, At, Goto, AttemptRec, ParentOf
<1>4. \A b \in Attempts \ {a} : attempt'[b].pc \notin Started
  BY <1>3, AloneStarted DEF Holding
<1>5. status' = status
  BY DEF InitializeProgress
<1>6. /\ \A q \in Parents \ {p} : course'[q] = course[q] /\ progress'[q] = progress[q]
      /\ course'[p] = Initialized(course[p])
      /\ progress'[p] = [progress[p] EXCEPT !.processed = 0]
  BY <1>1, <1>2 DEF InitializeProgress, TypeOK, ProgressTyped
<1>i. /\ course'[p] # "none"
      /\ course'[p] = "first" => course[p] = "none"
  BY <1>1, <1>2, <1>6 DEF Initialized, TypeOK, ProgressTyped
<1>7. Untouched'
  BY <1>1, <1>3, <1>4, <1>5, <1>6, <1>i DEF ProgressInv, Untouched
<1>8. Ahead'
  <2> SUFFICES ASSUME course'[p] = "first", NEW g \in Group PROVE status'[<<p, g>>] = "none"
    BY <1>3, <1>4 DEF Ahead
  <2> QED BY <1>1, <1>2, <1>5, <1>i DEF ProgressInv, Untouched
<1>9. FirstRunIsClean'
  BY <1>3, <1>4 DEF FirstRunIsClean, Started
<1>10. ASSUME NEW q \in Parents, course'[q] \in {"none", "first"} PROVE Tally(q)'
  <2>1. \A O : EndedAs(q, O)' = EndedAs(q, O)
    BY <1>5 DEF EndedAs
  <2>2. Tally(q)
    BY <1>1, <1>6, <1>i, <1>10 DEF ProgressInv, Tallied
  <2>3. CASE q # p
    BY <1>6, <2>1, <2>2, <2>3 DEF Tally
  <2>4. CASE q = p
    <3>1. EndedAs(p, Outcomes) = {}
      BY <1>1, <1>2, <1>i, <1>10, <2>4 DEF ProgressInv, Untouched, EndedAs, Outcomes
    <3>2. progress[p] \in Counters
      BY <1>1, <1>2 DEF TypeOK, ProgressTyped
    <3>3. progress'[p].processed = 0 /\ \A o \in Outcomes : progress'[p][o] = progress[p][o]
      BY <1>6, <3>2 DEF Counters, Outcomes
    <3> QED BY <2>1, <2>2, <2>4, <3>1, <3>3, EmptyCounted DEF Tally
  <2> QED BY <2>3, <2>4
<1> QED BY <1>7, <1>8, <1>9, <1>10 DEF ProgressInv, Tallied

(* A step of one attempt that leaves the started ones where they are.      *)
LEMMA OneCalm ==
  ASSUME TypeOK, NEW a \in Attempts, NEW r, attempt' = [attempt EXCEPT ![a] = r],
         r.pc \in Started =>
           /\ attempt[a].pc \in Started
           /\ r.parent = attempt[a].parent /\ r.next = attempt[a].next
           /\ \/ r.pc \notin {"mark", "stamp"}
              \/ attempt[a].pc \in {"mark", "stamp"}
              \/ course[ParentOf(a)] = "first" => AllRefreshed(ParentOf(a))
  PROVE  \A b \in Attempts : Calm(b)
<1>1. attempt'[a] = r /\ \A b \in Attempts \ {a} : attempt'[b] = attempt[b]
  BY DEF TypeOK, AttemptsTyped
<1>2. Calm(a)
  BY <1>1 DEF Calm
<1>3. ASSUME NEW b \in Attempts, b # a PROVE Calm(b)
  BY <1>1, <1>3 DEF Calm
<1> QED BY <1>2, <1>3

LEMMA GotoCalm ==
  ASSUME TypeOK, NEW a \in Attempts, NEW p, Goto(a, p),
         p \in Started => attempt[a].pc \in Started /\ p \notin {"mark", "stamp"}
  PROVE  \A b \in Attempts : Calm(b)
<1> DEFINE r == [attempt[a] EXCEPT !.pc = p]
<1>1. /\ attempt' = [attempt EXCEPT ![a] = r]
      /\ r.pc = p /\ r.parent = attempt[a].parent /\ r.next = attempt[a].next
  BY DEF Goto, TypeOK, AttemptsTyped, AttemptRec
<1> HIDE DEF r
<1> QED BY <1>1, OneCalm

LEMMA EndsCalm ==
  ASSUME TypeOK, NEW a \in Attempts, NEW p \in {"release", "finish"},
         NEW o \in Results, Ends(a, o, p)
  PROVE  \A b \in Attempts : Calm(b)
<1> PICK r \in AttemptRec : attempt' = [attempt EXCEPT ![a] = r] /\ r.pc = p
  BY Ended DEF TypeOK, Holding
<1> QED BY OneCalm DEF Started

LEMMA StillCalm == UNCHANGED attempt => \A b \in Attempts : Calm(b)
  BY DEF Calm

(* Nothing but attempts and the lock changes.                              *)
LEMMA OnlyAttempts ==
  ASSUME CInv, TypeOK', \A b \in Attempts : Calm(b), UNCHANGED <<worker, progress, course>>,
         \A j \in Items : status'[j] = status[j], StatusesStay
  PROVE  Carried' /\ ItemsRun' /\ ProgressInv'
<1>1. Carried' /\ ItemsRun'
  BY SameWorkers DEF CInv, IInv
<1>2. \A p \in Parents, g \in Group : Waits(<<p, g>>)
  BY DEF Waits, Items
<1> QED BY <1>1, <1>2, QuietProgress

(* The verdict: everything has been counted, and nothing as failed.        *)
LEMMA Verdict ==
  ASSUME CInv, NEW a \in Attempts, course[ParentOf(a)] = "first",
         progress[ParentOf(a)].processed >= SumTo(N), FailedCount(progress[ParentOf(a)]) = 0
  PROVE  AllRefreshed(ParentOf(a))
<1> DEFINE p == ParentOf(a)
           r == progress[p]
           S == EndedAs(p, {"success"})
           K == EndedAs(p, {"skipped"})
           F == EndedAs(p, {"failed"})
<1>1. p \in Parents
  BY DEF CInv, IInv, TypeOK, AttemptsTyped, AttemptRec, ParentOf
<1>2. Tally(p)
  BY <1>1 DEF CInv, ProgressInv, Tallied
<1>3. /\ r.processed = Cardinality(Organizations(EndedAs(p, Outcomes)))
      /\ r.success = Cardinality(Organizations(S))
      /\ r.skipped = Cardinality(Organizations(K))
  BY <1>2 DEF Tally, Outcomes
<1>4. EndedAs(p, Outcomes) = (S \cup K) \cup F
  BY DEF EndedAs, Outcomes
<1>5. /\ S \in SUBSET Group /\ K \in SUBSET Group /\ F \in SUBSET Group
      /\ S \cap K = {} /\ (S \cup K) \cap F = {}
  BY DEF EndedAs
<1> HIDE DEF S, K, F
<1>6. /\ Cardinality(Organizations((S \cup K) \cup F))
           = Cardinality(Organizations(S \cup K)) + Cardinality(Organizations(F))
      /\ Cardinality(Organizations(S \cup K))
           = Cardinality(Organizations(S)) + Cardinality(Organizations(K))
      /\ Cardinality(Organizations(S)) \in Nat /\ Cardinality(Organizations(K)) \in Nat
      /\ Cardinality(Organizations(F)) \in Nat
  <2>1. F \cap {} = {}
    OBVIOUS
  <2> QED BY <1>5, <2>1, OrganizationsApart
<1>7. Cardinality(Organizations(F)) = 0
  BY <1>3, <1>4, <1>6 DEF FailedCount
<1>8. F = {}
  BY <1>5, <1>7, NoneCounted
<1>9. (S \cup K) \cup F = Group
  BY <1>3, <1>4, <1>5, AllCounted
<1>10. \A g \in Group : g \in S \/ g \in K
  BY <1>8, <1>9
<1> QED BY <1>10 DEF S, K, EndedAs, AllRefreshed

LEMMA AttemptCInv ==
  ASSUME CInv, NEW a \in Attempts, AttemptStep(a), TypeOK'
  PROVE  Carried' /\ ItemsRun' /\ ProgressInv'
<1>1. TypeOK /\ Outgoing(a) \in Results /\ attempt[a] \in AttemptRec
  BY DEF CInv, IInv, TypeOK, AttemptsTyped, AttemptRec, Outgoing, Results
<1>2. CASE \/ Acquire(a) \/ Skip(a) \/ Plan(a) \/ Wait(a) \/ Total(a) \/ Mark(a) \/ Stamp(a)
           \/ LeaseLost(a) \/ Release(a) \/ TaskEnds(a)
  <2>1. \A b \in Attempts : Calm(b)
    <3>1. CASE Goto(a, "init") \/ Wait(a)
      BY <1>1, <3>1, GotoCalm DEF Wait, At, Started
    <3>2. CASE \/ Skip(a) \/ Stamp(a) \/ LeaseLost(a) \/ Release(a) \/ Ends(a, "failed", "release")
      BY <1>1, <3>2, EndsCalm DEF Skip, Stamp, LeaseLost, Release, Results, Outcomes
    <3>3. CASE Acquire(a)
      <4> PICK today \in Dates(a) :
            attempt' = [attempt EXCEPT ![a].pc = "plan", ![a].late = today # day, ![a].since = 0]
        BY <3>3 DEF Acquire
      <4> DEFINE r == [attempt[a] EXCEPT !.pc = "plan", !.late = today # day, !.since = 0]
      <4>1. attempt' = [attempt EXCEPT ![a] = r] /\ r.pc = "plan"
        BY <1>1 DEF TypeOK, AttemptsTyped, AttemptRec
      <4> HIDE DEF r
      <4> QED BY <1>1, <4>1, OneCalm DEF Started
    <3>4. CASE /\ Total(a) /\ FailedCount(progress[ParentOf(a)]) = 0
               /\ attempt' = [attempt EXCEPT ![a].pc = "mark", ![a].since = day]
      <4> DEFINE r == [attempt[a] EXCEPT !.pc = "mark", !.since = day]
      <4>1. /\ attempt' = [attempt EXCEPT ![a] = r]
            /\ r.parent = attempt[a].parent /\ r.next = attempt[a].next
        BY <1>1, <3>4 DEF TypeOK, AttemptsTyped, AttemptRec
      <4>2. course[ParentOf(a)] = "first" => AllRefreshed(ParentOf(a))
        BY <3>4, Verdict DEF Total
      <4>3. attempt[a].pc \in Started
        BY <3>4 DEF Total, At, Started
      <4> HIDE DEF r
      <4> QED BY <1>1, <4>1, <4>2, <4>3, OneCalm
    <3>5. CASE Mark(a)
      <4> DEFINE r == [attempt[a] EXCEPT !.pc = "stamp", !.late = FALSE, !.since = 0]
      <4>1. /\ attempt' = [attempt EXCEPT ![a] = r]
            /\ r.parent = attempt[a].parent /\ r.next = attempt[a].next
        BY <1>1, <3>5 DEF Mark, TypeOK, AttemptsTyped, AttemptRec
      <4>2. attempt[a].pc = "mark"
        BY <3>5 DEF Mark, At
      <4> HIDE DEF r
      <4> QED BY <1>1, <4>1, <4>2, OneCalm DEF Started
    <3>6. CASE TaskEnds(a)
      BY <1>1, <3>6, OneCalm DEF TaskEnds, Gone, NoAttempt, Started
    <3> QED BY <1>2, <3>1, <3>2, <3>3, <3>4, <3>5, <3>6 DEF Plan, Total
  <2>2. UNCHANGED <<status, worker, progress, course>>
    BY <1>2 DEF Acquire, Skip, Plan, Wait, Total, Mark, Stamp, LeaseLost, Release, TaskEnds, jobVars
  <2> QED BY <2>1, <2>2, OnlyAttempts DEF StatusesStay
<1>3. CASE FinishParent(a)
  <2>1. \A b \in Attempts : Calm(b)
    <3>1. Keeping(a, "metric").pc = "metric"
      BY <1>1, Kept DEF TypeOK
    <3> QED BY <1>1, <1>3, <3>1, OneCalm DEF FinishParent, Started
  <2>2. StatusesStay /\ \A j \in Items : status'[j] = status[j]
    <3>1. \A j \in Items : j # Whole(ParentOf(a))
      BY DEF Items, Whole, Group
    <3>2. ParentOf(a) \in Parents /\ attempt[a].result \in Results
      BY <1>1 DEF TypeOK, AttemptsTyped, AttemptRec, ParentOf
    <3> QED BY <1>1, <1>3, <3>1, <3>2, Names
            DEF FinishParent, StatusesStay, TypeOK, JobsTyped, Results, Outcomes
  <2> QED BY <1>3, <2>1, <2>2, OnlyAttempts DEF FinishParent
<1>4. CASE Enqueue(a)
  <2>1. ParentOf(a) \in Parents /\ attempt[a].next \in Group
    BY <1>1, <1>4 DEF Enqueue, At, TypeOK, AttemptsTyped, AttemptRec, ParentOf, Enqueueing
  <2>2. <<ParentOf(a), attempt[a].next>> \in Jobs
    BY <2>1, Names DEF Items
  <2>3. StatusesStay /\ \A j \in Items : status[j] = "running" => status'[j] = "running"
    BY <1>1, <1>4, <2>2, Names DEF Enqueue, Active, StatusesStay, TypeOK, JobsTyped
  <2>4. worker' = worker
    BY <1>4 DEF Enqueue
  <2> QED BY <1>1, <1>4, <2>3, <2>4, SameWorkers, EnqueueProgress DEF CInv
<1>5. CASE InitializeProgress(a)
  <2>1. UNCHANGED <<worker, status>>
    BY <1>5 DEF InitializeProgress
  <2> QED BY <1>1, <1>5, <2>1, SameWorkers, InitializeProgressInv DEF CInv, StatusesStay
<1> QED BY <1>2, <1>3, <1>4, <1>5 DEF AttemptStep

LEMMA FaultCInv ==
  ASSUME CInv, NEW a \in Attempts, RenewalFails(a) \/ HeartbeatDies(a) \/ CommandFails(a), TypeOK'
  PROVE  Carried' /\ ItemsRun' /\ ProgressInv'
<1>1. TypeOK /\ Outgoing(a) \in Results /\ attempt \in [Attempts -> AttemptRec]
  BY DEF CInv, IInv, TypeOK, AttemptsTyped, AttemptRec, Outgoing, Results
<1>2. \A b \in Attempts : Calm(b)
  <2>1. CASE RenewalFails(a) \/ HeartbeatDies(a)
    <3>1. /\ attempt'[a].pc = attempt[a].pc
          /\ attempt'[a].parent = attempt[a].parent /\ attempt'[a].next = attempt[a].next
          /\ \A b \in Attempts \ {a} : attempt'[b] = attempt[b]
      BY <1>1, <2>1 DEF RenewalFails, HeartbeatDies, AttemptRec
    <3>2. ASSUME NEW b \in Attempts PROVE Calm(b)
      BY <3>1 DEF Calm
    <3> QED BY <3>2
  <2>2. CASE CommandFails(a)
    <3>1. CASE \E o \in Results : Ends(a, o, "release") \/ Ends(a, o, "finish")
      BY <1>1, <3>1, EndsCalm
    <3>2. CASE attempt' = [attempt EXCEPT ![a] = Gone]
      BY <1>1, <3>2 DEF Calm, Gone, NoAttempt, Started
    <3> QED BY <1>1, <2>2, <3>1, <3>2 DEF CommandFails, Results
  <2> QED BY <2>1, <2>2
<1>3. UNCHANGED <<status, worker, progress, course>>
  BY DEF RenewalFails, HeartbeatDies, CommandFails, jobVars
<1> QED BY <1>2, <1>3, OnlyAttempts DEF StatusesStay

LEMMA RequestCInv ==
  ASSUME CInv, TypeOK',
         \/ \E p \in Parents : Submit(p, "manual")
         \/ UserAsks \/ LockLapses \/ Midnight
         \/ \E w \in Workers : InitializeSchedule(w) \/ ScheduledRefresh(w) \/ ClaimParent(w)
  PROVE  Carried' /\ ItemsRun' /\ ProgressInv'
<1>1. TypeOK /\ attempt \in [Attempts -> AttemptRec]
  BY DEF CInv, IInv, TypeOK, AttemptsTyped
<1>2. \A j \in Items : j # Manual /\ \A p \in Parents : j # Whole(p)
  BY NameAssumption DEF Items, Group, Whole
<1>3. CASE \E p \in Parents, o \in {"manual", "scheduled"} : Submit(p, o)
  <2>1. StatusesStay /\ \A j \in Items : status'[j] = status[j]
    BY <1>1, <1>2, <1>3, Names DEF Submit, StatusesStay, TypeOK, JobsTyped
  <2> QED BY <1>3, <2>1, StillCalm, OnlyAttempts DEF Submit
<1>4. CASE UserAsks
  <2>1. StatusesStay /\ \A j \in Items : status'[j] = status[j]
    BY <1>1, <1>2, <1>4, Names DEF UserAsks, StatusesStay, TypeOK, JobsTyped
  <2> QED BY <1>4, <2>1, StillCalm, OnlyAttempts DEF UserAsks
<1>5. CASE LockLapses \/ Midnight \/ \E w \in Workers : InitializeSchedule(w)
  <2>1. UNCHANGED <<status, worker, progress, course, attempt>>
    BY <1>5 DEF LockLapses, Midnight, InitializeSchedule, jobVars
  <2> QED BY <2>1, StillCalm, OnlyAttempts DEF StatusesStay
<1>6. CASE \E w \in Workers : ClaimParent(w)
  <2> PICK w \in Workers, p \in Parents, a \in Attempts :
        /\ status' = [status EXCEPT ![Whole(p)] = "running"]
        /\ attempt' = [attempt EXCEPT ![a] = [NoAttempt EXCEPT !.pc = "lock", !.parent = p,
                                                 !.on = w, !.since = day]]
        /\ UNCHANGED <<progress, worker, course>>
    BY <1>6 DEF ClaimParent
  <2>1. StatusesStay /\ \A j \in Items : status'[j] = status[j]
    BY <1>1, <1>2, Names DEF StatusesStay, TypeOK, JobsTyped
  <2>2. attempt'[a].pc = "lock" /\ \A b \in Attempts \ {a} : attempt'[b] = attempt[b]
    BY <1>1 DEF NoAttempt
  <2>3. ASSUME NEW b \in Attempts PROVE Calm(b)
    BY <2>2 DEF Calm, Started
  <2> QED BY <2>1, <2>3, OnlyAttempts
<1> QED BY <1>3, <1>4, <1>5, <1>6 DEF ScheduledRefresh

LEMMA WorkerCInv ==
  ASSUME CInv, NEW w \in Workers, TypeOK',
         ClaimManual(w) \/ ManualEnds(w) \/ LoopGoesOn(w) \/ ClaimItem(w) \/ SlotFree(w)
           \/ StaleEnds(w) \/ ItemUnreported(w) \/ Recover(w) \/ Crash(w)
  PROVE  Carried' /\ ItemsRun' /\ ProgressInv'
<1>1. TypeOK /\ attempt \in [Attempts -> AttemptRec]
  BY DEF CInv, IInv, TypeOK, AttemptsTyped
<1>2. Carried' /\ ItemsRun'
  BY LoopHeld, ClaimItemHeld, EndsHeld, RecoverHeld, CrashHeld
<1>3. progress' = progress /\ course' = course
  BY DEF ClaimManual, ManualEnds, LoopGoesOn, ClaimItem, SlotFree, StaleEnds, ItemUnreported,
         Recover, Crash, jobVars
<1>4. \A b \in Attempts : Calm(b)
  <2>1. CASE Crash(w)
    <3>1. \A b \in Attempts : attempt'[b] = attempt[b] \/ attempt'[b] = Gone
      BY <2>1 DEF Crash
    <3> QED BY <3>1 DEF Calm, Gone, NoAttempt, Started
  <2>2. CASE ~Crash(w)
    BY <2>2, StillCalm DEF ClaimManual, ManualEnds, LoopGoesOn, ClaimItem, SlotFree, StaleEnds,
                                   ItemUnreported, Recover
  <2> QED BY <2>1, <2>2
<1>5. \A j \in Items : Waits(j)
  <2>1. \A j \in Items : j \in Jobs /\ j # Manual
    BY Names, NameAssumption DEF Items, Group
  <2>2. CASE \/ ClaimManual(w) \/ ManualEnds(w) \/ LoopGoesOn(w) \/ SlotFree(w) \/ StaleEnds(w)
             \/ ItemUnreported(w) \/ Crash(w)
    BY <1>1, <2>1, <2>2 DEF ClaimManual, ManualEnds, LoopGoesOn, SlotFree, StaleEnds, ItemUnreported,
                            Crash, jobVars, Waits, TypeOK, JobsTyped
  <2>3. CASE ClaimItem(w) \/ Recover(w)
    BY <1>1, <2>1, <2>3 DEF ClaimItem, Recover, Lapsed, Waits, TypeOK, JobsTyped
  <2> QED BY <2>2, <2>3
<1>6. \A p \in Parents, g \in Group : Waits(<<p, g>>)
  BY <1>5 DEF Items
<1> QED BY <1>2, <1>3, <1>4, <1>6, QuietProgress

LEMMA StopCInv ==
  ASSUME CInv, NEW w \in Workers, TypeOK', Stop(w)
  PROVE  Carried' /\ ItemsRun' /\ ProgressInv'
<1>1. TypeOK /\ Carried /\ ItemsRun /\ worker[w] \in WorkerRec /\ status \in [Jobs -> Statuses]
  BY DEF CInv, IInv, TypeOK, WorkersTyped, JobsTyped
<1>2. /\ status' = [j \in Jobs |-> IF j \in Given(w) THEN "queued" ELSE status[j]]
      /\ course' = [p \in Parents |->
           IF \E g \in Group : <<p, g>> \in Given(w) /\ status[<<p, g>>] \in Outcomes
           THEN "disturbed" ELSE course[p]]
      /\ attempt' = [a \in Attempts |-> IF a \in Mine(w) THEN Gone ELSE attempt[a]]
      /\ progress' = progress
  BY DEF Stop
<1>3. ASSUME NEW j \in Items, j \in Given(w) PROVE status[j] # "none"
  <2>1. j # Manual /\ \A a \in Attempts : j # Whole(ParentOf(a))
    BY NameAssumption DEF Items, Group, Whole
  <2>2. j \in worker[w].fresh \/ j \in worker[w].stale
    BY <1>3, <2>1 DEF Given, Mine
  <2> QED BY <1>1, <2>2 DEF Carried, CarriedBy, ItemsRun, Holds
<1>4. \A p \in Parents : course'[p] \in {course[p], "disturbed"}
  BY <1>2
<1>5. ASSUME NEW p \in Parents, NEW g \in Group, course'[p] # "disturbed" PROVE Waits(<<p, g>>)
  <2>1. <<p, g>> \in Items /\ <<p, g>> \in Jobs
    BY Names DEF Items
  <2>2. CASE <<p, g>> \notin Given(w)
    BY <1>2, <2>1, <2>2 DEF Waits
  <2>3. CASE <<p, g>> \in Given(w)
    <3>1. status[<<p, g>>] \notin Outcomes
      BY <1>2, <1>5, <2>3
    <3>2. status[<<p, g>>] \in {"queued", "running"}
      BY <1>1, <1>3, <2>1, <2>3, <3>1 DEF Statuses
    <3>3. status'[<<p, g>>] = "queued"
      BY <1>2, <2>1, <2>3
    <3> QED BY <3>2, <3>3 DEF Waits
  <2> QED BY <2>2, <2>3
<1>6. ASSUME NEW b \in Attempts PROVE Calm(b)
  BY <1>2 DEF Calm, Gone, NoAttempt, Started
<1>7. ProgressInv'
  BY <1>2, <1>4, <1>5, <1>6, QuietProgress
<1> QED BY <1>7, StopHeld

LEMMA NextCInv == CInv /\ [Next]_vars => CInv'
<1> SUFFICES ASSUME CInv, [Next]_vars PROVE CInv'
  OBVIOUS
<1>1. IInv' /\ TypeOK'
  BY NextIInv DEF CInv, IInv
<1>2. CASE \/ \E p \in Parents : Submit(p, "manual")
           \/ UserAsks \/ LockLapses \/ Midnight
           \/ \E w \in Workers : InitializeSchedule(w) \/ ScheduledRefresh(w) \/ ClaimParent(w)
  BY <1>1, <1>2, RequestCInv DEF CInv
<1>3. ASSUME NEW w \in Workers,
             ClaimManual(w) \/ ManualEnds(w) \/ LoopGoesOn(w) \/ ClaimItem(w) \/ SlotFree(w)
               \/ StaleEnds(w) \/ ItemUnreported(w) \/ Recover(w) \/ Crash(w)
      PROVE  CInv'
  BY <1>1, <1>3, WorkerCInv DEF CInv
<1>4. ASSUME NEW w \in Workers, ItemEnds(w) PROVE CInv'
  BY <1>1, <1>4, EndsHeld, ItemEndsProgress DEF CInv
<1>5. ASSUME NEW w \in Workers, Stop(w) PROVE CInv'
  BY <1>1, <1>5, StopCInv DEF CInv
<1>6. ASSUME NEW a \in Attempts, AttemptStep(a) PROVE CInv'
  BY <1>1, <1>6, AttemptCInv DEF CInv
<1>7. ASSUME NEW a \in Attempts, RenewalFails(a) \/ HeartbeatDies(a) \/ CommandFails(a) PROVE CInv'
  BY <1>1, <1>7, FaultCInv DEF CInv
<1>8. CASE UNCHANGED vars
  <2>1. UNCHANGED <<status, worker, progress, course, attempt>>
    BY <1>8 DEF vars, jobVars
  <2> QED BY <1>1, <2>1, StillCalm, OnlyAttempts DEF CInv, StatusesStay
<1> QED BY <1>2, <1>3, <1>4, <1>5, <1>6, <1>7, <1>8 DEF Next

(* The record of a completed run is clean, for a parent whose progress was *)
(* initialized once and of whose ended items none was given back.          *)
THEOREM FirstRunClean == Spec => []FirstRunIsClean
<1>1. CInv => FirstRunIsClean
  BY DEF CInv, ProgressInv
<1> QED BY <1>1, InitCInv, NextCInv, PTL DEF Spec
=============================================================================
