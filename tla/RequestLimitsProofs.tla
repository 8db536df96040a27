------------------------- MODULE RequestLimitsProofs ------------------------
(***************************************************************************)
(* Proofs about RequestLimits, for any callers, limits and bounds.         *)
(***************************************************************************)
EXTENDS RequestLimits, FiniteSetTheorems, TLAPS

LEMMA Sizes ==
  /\ GlobalRPS \in Nat /\ BulkRPS \in Nat /\ DailyLimit \in Nat /\ Reserve \in Nat
  /\ Window \in Nat /\ Gap \in Nat /\ DayLength \in Nat \ {0}
  /\ Retries \in Nat /\ MaxTime \in Nat /\ MaxCalls \in Nat /\ MaxFaults \in Nat
  /\ Reserve < DailyLimit
  BY LimitAssumption

LEMMA Times == 0 \in Moments /\ Day(0) \in Days /\ \A t \in Moments : Day(t) \in Days
  BY Sizes DEF Moments, Days

LEMMA AnotherTyped ==
  ASSUME NEW S, NEW f \in [S -> Nat], NEW k \in S
  PROVE  /\ Another(f, k) \in [S -> Nat]
         /\ Another(f, k)[k] = f[k] + 1
         /\ \A x \in S : x # k => Another(f, k)[x] = f[x]
  BY DEF Another

-----------------------------------------------------------------------------
(* A new member has a name that is free, so it adds one to the set.         *)

LEMMA FreshIs ==
  ASSUME NEW marks, IsFiniteSet(marks), NEW score
  PROVE  Fresh(marks, score) \in {score} \X Nat /\ Fresh(marks, score) \notin marks
<1> DEFINE n == Cardinality(marks)
           f == [i \in 1 .. n + 1 |-> <<score, i>>]
<1>1. n \in Nat
  BY FS_CardinalityType
<1>2. \E m \in {score} \X (1 .. n + 1) : m \notin marks
  <2> SUFFICES ASSUME \A m \in {score} \X (1 .. n + 1) : m \in marks PROVE FALSE
    OBVIOUS
  <2>1. f \in [1 .. n + 1 -> marks]
    OBVIOUS
  <2>2. IsFiniteSet(1 .. n + 1) /\ Cardinality(1 .. n + 1) = n + 1
    <3>1. 1 \in Int /\ n + 1 \in Int /\ ~(1 > n + 1) /\ (n + 1) - 1 + 1 = n + 1
      BY <1>1
    <3> HIDE DEF n
    <3> QED BY <3>1, FS_Interval
  <2>3. Cardinality(marks) < Cardinality(1 .. n + 1)
    BY <1>1, <2>2
  <2>4. PICK x, y \in 1 .. n + 1 : x # y /\ f[x] = f[y]
    <3>1. IsFiniteSet(marks)
      OBVIOUS
    <3> HIDE DEF n, f
    <3> QED BY <2>1, <2>2, <2>3, <3>1, FS_PigeonHole
  <2> QED BY <2>4
<1> QED BY <1>1, <1>2 DEF Fresh

LEMMA WithIs ==
  ASSUME NEW marks \in SUBSET Marks, IsFiniteSet(marks), NEW score \in Moments
  PROVE  /\ With(marks, score) \in SUBSET Marks
         /\ IsFiniteSet(With(marks, score))
         /\ Cardinality(With(marks, score)) = Cardinality(marks) + 1
         /\ \E m \in Marks : m[1] = score /\ m \notin marks /\ With(marks, score) = marks \cup {m}
<1>1. PICK m \in {score} \X Nat : m = Fresh(marks, score) /\ m \notin marks
  BY FreshIs
<1>2. With(marks, score) = marks \cup {m} /\ m \in Marks /\ m[1] = score
  BY <1>1 DEF With, Marks
<1>3. IsFiniteSet(marks \cup {m}) /\ Cardinality(marks \cup {m}) = Cardinality(marks) + 1
  BY <1>1, FS_AddElement
<1>4. \E x \in Marks : x[1] = score /\ x \notin marks /\ With(marks, score) = marks \cup {x}
  BY <1>1, <1>2
<1>5. With(marks, score) \in SUBSET Marks
  BY <1>2
<1> QED BY <1>2, <1>3, <1>4, <1>5

-----------------------------------------------------------------------------
(* The record of one caller.                                               *)

Fits(c, r) ==
  /\ r \in CallerRec
  /\ r.stamp # None => r.at \in Windows

LEMMA AtRestTyped == AtRest \in CallerRec
  BY Sizes, Times DEF AtRest, CallerRec, Points

(* A step that changes the record of one caller, and the lock only with it. *)
LEMMA CallerReplaced ==
  ASSUME CallersTyped, NEW c \in Callers, NEW r, Fits(c, r),
         caller' = [caller EXCEPT ![c] = r],
         \/ /\ r.at # "asleep"
            /\ holder' = IF holder = c THEN Nobody ELSE holder
         \/ /\ r.at = "asleep"
            /\ holder = Nobody /\ holder' = c
  PROVE  CallersTyped'
  BY CallerAssumption DEF CallersTyped, Fits, Waiting, At

(* A step of a caller that does not hold the lock and does not take it.    *)
LEMMA CallerMoves ==
  ASSUME CallersTyped, NEW c \in Callers, NEW r, Fits(c, r),
         caller' = [caller EXCEPT ![c] = r], r.at # "asleep", caller[c].at # "asleep",
         holder' = holder
  PROVE  CallersTyped'
<1>1. holder # c
  BY DEF CallersTyped, At
<1> QED BY <1>1, CallerReplaced

LEMMA Moves ==
  ASSUME CallersTyped, NEW c \in Callers
  PROVE  /\ \A p \in Points : Goto(c, p) => caller' = [caller EXCEPT ![c] = [caller[c] EXCEPT !.at = p]]
         /\ \A p \in Points : p \in Windows \/ caller[c].stamp = None
              => Fits(c, [caller[c] EXCEPT !.at = p])
         /\ Fits(c, Over(c)) /\ Over(c).at = "idle" /\ Over(c).stamp = None
<1>1. caller[c] \in CallerRec
  BY DEF CallersTyped
<1>2. \A p \in Points : Goto(c, p) => caller' = [caller EXCEPT ![c] = [caller[c] EXCEPT !.at = p]]
  BY <1>1 DEF Goto, CallersTyped, CallerRec
<1>3. \A p \in Points : p \in Windows \/ caller[c].stamp = None
              => Fits(c, [caller[c] EXCEPT !.at = p])
  BY <1>1 DEF Fits, CallerRec
<1>4. Fits(c, Over(c)) /\ Over(c).at = "idle" /\ Over(c).stamp = None
  BY <1>1, AtRestTyped DEF Over, Fits, CallerRec, AtRest
<1> QED BY <1>2, <1>3, <1>4

-----------------------------------------------------------------------------
(* Each step keeps the types.                                              *)

LEMMA LimitersUnchanged == ASSUME LimitersTyped, UNCHANGED limiterVars PROVE LimitersTyped'
  BY DEF LimitersTyped, limiterVars

LEMMA BudgetUnchanged ==
  ASSUME BudgetTyped, UNCHANGED budgetVars, sent' = sent PROVE BudgetTyped'
  BY DEF BudgetTyped, budgetVars

LEMMA WorldUnchanged ==
  ASSUME WorldTyped, now' = now, redis' = redis, UNCHANGED lockVars, faults' = faults
  PROVE  WorldTyped'
  BY DEF WorldTyped, lockVars

LEMMA PrunedTyped ==
  ASSUME LimitersTyped, NEW k \in Windows, NEW time \in Moments
  PROVE  Pruned(k, time) \in SUBSET Marks /\ IsFiniteSet(Pruned(k, time))
<1>1. Pruned(k, time) \subseteq window[k] /\ window[k] \in SUBSET Marks /\ IsFiniteSet(window[k])
  BY DEF LimitersTyped, Pruned
<1> QED BY <1>1, FS_Subset

LEMMA BeginTyped ==
  ASSUME TypeOK, NEW c \in Callers, Begin(c) \/ Check(c) \/ ReadClock(c)
  PROVE  TypeOK'
<1> USE DEF TypeOK
<1>1. LimitersTyped' /\ BudgetTyped' /\ WorldTyped'
  BY LimitersUnchanged, BudgetUnchanged, WorldUnchanged DEF Begin, Check, ReadClock
<1>2. caller[c] \in CallerRec /\ (caller[c].stamp # None => caller[c].at \in Windows)
  BY DEF CallersTyped, Waiting
<1>3. ASSUME Begin(c) PROVE CallersTyped'
  <2> DEFINE n == IF redis THEN Retries + 1 ELSE 2
             r == [caller[c] EXCEPT !.at = "check", !.calls = @ + 1, !.tries = n]
  <2>1. n \in 0..(Retries + 2)
    BY Sizes
  <2>2. caller[c].calls + 1 \in 0..MaxCalls /\ caller[c].stamp = None /\ caller[c].at = "idle"
    BY <1>2, <1>3, Sizes DEF Begin, At, CallerRec, Windows
  <2>3. r \in CallerRec /\ r.stamp = None /\ r.at = "check"
    BY <1>2, <2>1, <2>2 DEF CallerRec, Points
  <2>4. caller' = [caller EXCEPT ![c] = r]
    BY <1>3, <1>2 DEF Begin, CallersTyped, CallerRec
  <2> QED BY <1>3, <2>2, <2>3, <2>4, CallerMoves DEF Begin, lockVars, Fits
<1>4. ASSUME Check(c) PROVE CallersTyped'
  <2>1. caller[c].stamp = None /\ caller[c].at = "check"
    BY <1>2, <1>4 DEF Check, At, Windows
  <2>2. \/ \E p \in {"bulk", "global", "lock"} : Goto(c, p)
        \/ Return(c)
    BY <1>4 DEF Check
  <2>3. holder' = holder
    BY <1>4 DEF Check, lockVars
  <2>4. CASE Return(c)
    BY <2>1, <2>3, <2>4, Moves, CallerMoves DEF Return
  <2>5. ASSUME NEW p \in {"bulk", "global", "lock"}, Goto(c, p) PROVE CallersTyped'
    <3> DEFINE r == [caller[c] EXCEPT !.at = p]
    <3>1. Fits(c, r) /\ caller' = [caller EXCEPT ![c] = r]
      BY <2>1, <2>5, Moves DEF Points
    <3>2. r.at = p
      BY <1>2 DEF CallerRec
    <3> QED BY <2>1, <2>3, <3>1, <3>2, CallerMoves
  <2> QED BY <2>2, <2>4, <2>5
<1>5. ASSUME ReadClock(c) PROVE CallersTyped'
  <2> DEFINE r == [caller[c] EXCEPT !.stamp = now]
  <2>1. r \in CallerRec /\ r.at = caller[c].at /\ r.at \in Windows
    BY <1>2, <1>5 DEF ReadClock, CallerRec, WorldTyped
  <2>2. caller' = [caller EXCEPT ![c] = r]
    BY <1>2, <1>5 DEF ReadClock, CallersTyped, CallerRec
  <2> QED BY <1>5, <2>1, <2>2, CallerMoves DEF ReadClock, lockVars, Fits, Windows
<1> QED BY <1>1, <1>3, <1>4, <1>5

LEMMA ScriptTyped ==
  ASSUME TypeOK, NEW c \in Callers, RunScript(c)
  PROVE  TypeOK'
<1> USE DEF TypeOK
<1> DEFINE k == caller[c].at
           time == caller[c].stamp
<1>1. BudgetTyped' /\ WorldTyped'
  BY BudgetUnchanged, WorldUnchanged DEF RunScript
<1>2. caller[c] \in CallerRec /\ k \in Windows /\ time \in Moments /\ now \in Moments
  BY DEF CallersTyped, RunScript, CallerRec, WorldTyped
<1>3. Pruned(k, time) \in SUBSET Marks /\ IsFiniteSet(Pruned(k, time))
      /\ With(Pruned(k, time), time) \in SUBSET Marks
      /\ IsFiniteSet(With(Pruned(k, time), time))
  BY <1>2, PrunedTyped, WithIs
<1>4. LimitersTyped'
  <2>1. CASE Granted(c, k, time)
    <3>1. granted[k] \in SUBSET Marks /\ IsFiniteSet(granted[k])
      BY <1>2 DEF LimitersTyped, Limiters
    <3>2. With(granted[k], now) \in SUBSET Marks /\ IsFiniteSet(With(granted[k], now))
      BY <1>2, <3>1, WithIs
    <3> QED BY <1>2, <1>3, <2>1, <3>2 DEF Granted, LimitersTyped
  <2>2. CASE Full(c, k, time)
    BY <1>2, <1>3, <2>2 DEF Full, LimitersTyped
  <2> QED BY <2>1, <2>2 DEF RunScript
<1>5. CallersTyped'
  <2> DEFINE p == IF k = "bulk" THEN "global" ELSE "day"
             given == [caller[c] EXCEPT !.at = p, !.stamp = None]
             full == [caller[c] EXCEPT !.stamp = None]
  <2>1. /\ given \in CallerRec /\ given.stamp = None /\ given.at = p
        /\ full \in CallerRec /\ full.stamp = None /\ full.at = k
    BY <1>2 DEF CallerRec, Points
  <2>2. Fits(c, given) /\ Fits(c, full) /\ given.at # "asleep" /\ full.at # "asleep"
    BY <1>2, <2>1 DEF Fits, Windows
  <2>3. caller' = [caller EXCEPT ![c] = given] \/ caller' = [caller EXCEPT ![c] = full]
    BY <1>2 DEF RunScript, Granted, Full, CallersTyped, CallerRec
  <2> QED BY <1>2, <2>2, <2>3, CallerMoves DEF RunScript, lockVars, Windows
<1> QED BY <1>1, <1>4, <1>5

LEMMA ReturnTyped ==
  ASSUME TypeOK, NEW c \in Callers, RedisGone(c) \/ LockTimesOut(c) \/ Cancelled(c)
  PROVE  TypeOK'
<1> USE DEF TypeOK
<1>1. LimitersTyped' /\ BudgetTyped'
  BY LimitersUnchanged, BudgetUnchanged DEF RedisGone, LockTimesOut, Cancelled
<1>2. WorldTyped'
  BY Sizes, Times DEF RedisGone, LockTimesOut, Cancelled, WorldTyped, lockVars
<1>3. CallersTyped'
  <2>1. Fits(c, Over(c)) /\ Over(c).at # "asleep" /\ caller' = [caller EXCEPT ![c] = Over(c)]
    BY Moves DEF RedisGone, LockTimesOut, Cancelled, Return
  <2>2. holder' = IF holder = c THEN Nobody ELSE holder
    BY CallerAssumption DEF RedisGone, LockTimesOut, Cancelled, lockVars, At, CallersTyped, Windows
  <2> QED BY <2>1, <2>2, CallerReplaced
<1> QED BY <1>1, <1>2, <1>3

LEMMA LockTyped ==
  ASSUME TypeOK, NEW c \in Callers, TakeLock(c) \/ Awake(c)
  PROVE  TypeOK'
<1> USE DEF TypeOK
<1>1. BudgetTyped'
  BY BudgetUnchanged DEF TakeLock, Awake
<1>2. WorldTyped'
  BY Times DEF TakeLock, Awake, WorldTyped
<1>3. LimitersTyped'
  <2>1. With(granted["fallback"], now) \in SUBSET Marks /\ IsFiniteSet(With(granted["fallback"], now))
    BY WithIs DEF LimitersTyped, Limiters, WorldTyped
  <2>2. CASE Awake(c)
    BY <2>1, <2>2 DEF Awake, LimitersTyped
  <2> QED BY <2>2, LimitersUnchanged DEF TakeLock
<1>4. CallersTyped'
  <2>1. caller[c].stamp = None /\ \A p \in {"asleep", "day"} : Fits(c, [caller[c] EXCEPT !.at = p])
    BY Moves DEF TakeLock, Awake, At, CallersTyped, Waiting, Windows, Points
  <2>2. \A p \in {"asleep", "day"} : [caller[c] EXCEPT !.at = p].at = p
    BY DEF CallersTyped, CallerRec
  <2>3. CASE TakeLock(c)
    <3>1. caller' = [caller EXCEPT ![c] = [caller[c] EXCEPT !.at = "asleep"]]
      BY <2>3, Moves DEF TakeLock, Points
    <3>2. holder = Nobody /\ holder' = c
      BY <2>3 DEF TakeLock
    <3> QED BY <2>1, <2>2, <3>1, <3>2, CallerReplaced
  <2>4. CASE Awake(c)
    <3>1. caller' = [caller EXCEPT ![c] = [caller[c] EXCEPT !.at = "day"]]
      BY <2>4, Moves DEF Awake, Points
    <3>2. holder = c /\ holder' = Nobody
      BY <2>4 DEF Awake, CallersTyped, At
    <3> QED BY <2>1, <2>2, <3>1, <3>2, CallerReplaced
  <2> QED BY <2>3, <2>4
<1> QED BY <1>1, <1>2, <1>3, <1>4

LEMMA CountedTyped ==
  ASSUME TypeOK, NEW c \in Callers, Counted(c)
  PROVE  used' \in [Days -> Nat] /\ bulkUsed' \in [Days -> Nat]
<1>1. caller[c].today \in Days
  BY DEF TypeOK, CallersTyped, CallerRec
<1> QED BY <1>1, AnotherTyped DEF Counted, TypeOK, BudgetTyped

LEMMA ReserveTyped ==
  ASSUME TypeOK, NEW c \in Callers,
         ReadDay(c) \/ Reserved(c) \/ BudgetSpent(c) \/ DatabaseFails(c) \/ Send(c)
  PROVE  TypeOK'
<1> USE DEF TypeOK
<1>1. LimitersTyped'
  BY LimitersUnchanged DEF ReadDay, Reserved, BudgetSpent, DatabaseFails, Send
<1>2. WorldTyped'
  BY Sizes DEF ReadDay, Reserved, BudgetSpent, DatabaseFails, Send, WorldTyped, lockVars
<1>3. /\ caller[c] \in CallerRec /\ caller[c].today \in Days
      /\ caller[c].at \in {"day", "insert", "send"} /\ caller[c].stamp = None
  BY DEF CallersTyped, CallerRec, Waiting, At, Windows, ReadDay, Reserved, BudgetSpent, DatabaseFails, Send
<1>4. BudgetTyped'
  <2>1. CASE ReadDay(c)
    BY <2>1, BudgetUnchanged DEF ReadDay
  <2>2. CASE Reserved(c)
    BY <2>2, CountedTyped DEF Reserved, BudgetTyped
  <2>3. CASE BudgetSpent(c)
    BY <2>3, <1>3 DEF BudgetSpent, BudgetTyped
  <2>4. CASE DatabaseFails(c)
    BY <2>4, CountedTyped DEF DatabaseFails, BudgetTyped
  <2>5. CASE Send(c)
    BY <2>5, <1>3, AnotherTyped DEF Send, BudgetTyped, budgetVars
  <2> QED BY <2>1, <2>2, <2>3, <2>4, <2>5
<1>5. CallersTyped'
  <2>1. holder' = holder
    BY DEF ReadDay, Reserved, BudgetSpent, DatabaseFails, Send, lockVars
  <2>2. CASE Return(c)
    BY <2>1, <2>2, <1>3, Moves, CallerMoves DEF Return
  <2>3. CASE ReadDay(c)
    <3> DEFINE r == [caller[c] EXCEPT !.at = "insert", !.today = Day(now)]
    <3>1. Day(now) \in Days
      BY Times DEF WorldTyped
    <3>2. r \in CallerRec /\ r.stamp = None /\ r.at = "insert"
      BY <1>3, <3>1 DEF CallerRec, Points
    <3>3. caller' = [caller EXCEPT ![c] = r]
      BY <1>3, <2>3 DEF ReadDay, CallersTyped, CallerRec
    <3> QED BY <1>3, <2>1, <3>2, <3>3, CallerMoves DEF Fits
  <2>4. CASE Goto(c, "send")
    <3> DEFINE r == [caller[c] EXCEPT !.at = "send"]
    <3>1. Fits(c, r) /\ caller' = [caller EXCEPT ![c] = r]
      BY <1>3, <2>4, Moves DEF Points
    <3>2. r.at = "send"
      BY <1>3 DEF CallerRec
    <3> QED BY <1>3, <2>1, <3>1, <3>2, CallerMoves
  <2>5. CASE Send(c) /\ ~Return(c)
    <3> DEFINE r == [caller[c] EXCEPT !.at = "check", !.tries = @ - 1]
    <3>1. caller[c].tries > 1 /\ caller' = [caller EXCEPT ![c] = r]
      BY <1>3, <2>5 DEF Send, NextAttempt, CallersTyped, CallerRec
    <3>2. caller[c].tries \in 0..(Retries + 2)
      BY <1>3 DEF CallerRec
    <3>3. caller[c].tries - 1 \in 0..(Retries + 2)
      BY <3>1, <3>2, Sizes
    <3>4. r \in CallerRec /\ r.stamp = None /\ r.at = "check"
      BY <1>3, <3>3 DEF CallerRec, Points
    <3> QED BY <1>3, <2>1, <3>1, <3>4, CallerMoves DEF Fits
  <2> QED BY <2>2, <2>3, <2>4, <2>5 DEF Reserved, BudgetSpent, DatabaseFails
<1> QED BY <1>1, <1>2, <1>4, <1>5

LEMMA CallersUnchanged == ASSUME CallersTyped, caller' = caller, holder' = holder PROVE CallersTyped'
  BY DEF CallersTyped, Waiting, At

LEMMA WorldMoves ==
  ASSUME TypeOK, Tick \/ RedisDown \/ RedisUp
  PROVE  TypeOK'
<1> USE DEF TypeOK
<1>1. BudgetTyped'
  BY BudgetUnchanged DEF Tick, RedisDown, RedisUp
<1>2. CallersTyped'
  BY CallersUnchanged DEF Tick, RedisDown, RedisUp, lockVars
<1>3. WorldTyped'
  <2>1. CASE Tick
    BY <2>1, Sizes DEF Tick, WorldTyped, lockVars, Moments
  <2>2. CASE RedisDown
    <3>1. redis' \in BOOLEAN
      BY <2>2, Zenon DEF RedisDown
    <3>2. faults' \in 0..MaxFaults
      BY <2>2, Sizes DEF RedisDown, WorldTyped
    <3>3. now' \in Moments /\ since' \in Moments
      BY <2>2 DEF RedisDown, WorldTyped, lockVars
    <3> QED BY <3>1, <3>2, <3>3 DEF WorldTyped
  <2>3. CASE RedisUp
    BY <2>3 DEF RedisUp, WorldTyped, lockVars
  <2> QED BY <2>1, <2>2, <2>3
<1>4. LimitersTyped'
  <2>1. CASE Tick
    <3>1. \A marks \in SUBSET Marks : Recent(marks, now') \subseteq marks
      BY DEF Recent
    <3>2. \A marks \in SUBSET Marks : IsFiniteSet(marks) => IsFiniteSet(Recent(marks, now'))
      BY <3>1, FS_Subset
    <3>3. \A k \in Limiters : granted[k] \in SUBSET Marks /\ IsFiniteSet(granted[k])
      BY DEF LimitersTyped
    <3>4. granted' = [k \in Limiters |-> Recent(granted[k], now')] /\ window' = window
      BY <2>1 DEF Tick, LimitersTyped
    <3>5. \A k \in Limiters : granted'[k] \in SUBSET Marks /\ IsFiniteSet(granted'[k])
      BY <3>1, <3>2, <3>3, <3>4
    <3> QED BY <3>4, <3>5 DEF LimitersTyped
  <2> QED BY <2>1, LimitersUnchanged DEF RedisDown, RedisUp
<1> QED BY <1>1, <1>2, <1>3, <1>4

LEMMA InitTyped == Init => TypeOK
<1> SUFFICES ASSUME Init PROVE TypeOK
  OBVIOUS
<1>1. NothingOn \in [Days -> Nat]
  BY DEF NothingOn
<1>2. LimitersTyped /\ BudgetTyped
  BY <1>1, FS_EmptySet DEF Init, LimitersTyped, BudgetTyped
<1>3. AtRest.stamp = None /\ AtRest.at = "idle"
  BY DEF AtRest
<1>4. CallersTyped
  BY <1>3, AtRestTyped, CallerAssumption DEF Init, CallersTyped, Waiting, At
<1>5. WorldTyped
  BY Sizes, Times DEF Init, WorldTyped
<1> QED BY <1>2, <1>4, <1>5 DEF TypeOK

LEMMA StepTyped == TypeOK /\ [Next]_vars => TypeOK'
<1> SUFFICES ASSUME TypeOK, [Next]_vars PROVE TypeOK'
  OBVIOUS
<1>1. ASSUME NEW c \in Callers, Attempt(c) PROVE TypeOK'
  BY <1>1, BeginTyped, ScriptTyped, ReturnTyped, LockTyped, ReserveTyped DEF Attempt
<1>2. CASE Tick \/ RedisDown \/ RedisUp
  BY <1>2, WorldMoves
<1>3. CASE UNCHANGED vars
  <2>1. LimitersTyped' /\ BudgetTyped'
    BY <1>3, LimitersUnchanged, BudgetUnchanged DEF TypeOK, vars
  <2>2. CallersTyped' /\ WorldTyped'
    BY <1>3, CallersUnchanged, WorldUnchanged DEF TypeOK, vars, lockVars
  <2> QED BY <2>1, <2>2 DEF TypeOK
<1> QED BY <1>1, <1>2, <1>3 DEF Next

(* A caller keeps the time it has read only until the script runs, and the *)
(* fallback lock is held by exactly the caller that sleeps, for any        *)
(* callers, limits and bounds.                                             *)
THEOREM TypeCorrect == Spec => []TypeOK
BY InitTyped, StepTyped, PTL DEF Spec

-----------------------------------------------------------------------------
(* The budget.  The two limits of the statement keep the parts of used     *)
(* apart; a reservation that has been counted is either sent or still in   *)
(* the hands of its caller.                                                *)

LimitsHold ==
  \A d \in Days :
    /\ used[d] <= DailyLimit /\ bulkUsed[d] <= used[d]
    /\ bulkUsed[d] <= DailyLimit - Reserve
    /\ d \in refused => used[d] = DailyLimit

Booked == \A d \in Days : sent[d] + Cardinality(Unspent(d)) <= used[d]

LEMMA CountedHolds ==
  ASSUME TypeOK, LimitsHold, NEW c \in Callers, Counted(c), refused' = refused
  PROVE  LimitsHold'
<1> DEFINE e == caller[c].today
<1>1. e \in Days
  BY DEF TypeOK, CallersTyped, CallerRec
<1>2. \A d \in Days : used[d] \in Nat /\ bulkUsed[d] \in Nat
  BY DEF TypeOK, BudgetTyped
<1>3. \A d \in Days : used'[d] = IF d = e THEN used[d] + 1 ELSE used[d]
  BY <1>1, AnotherTyped DEF Counted, TypeOK, BudgetTyped
<1>4. \A d \in Days : bulkUsed'[d] = IF d = e /\ c \in Bulk THEN bulkUsed[d] + 1 ELSE bulkUsed[d]
  BY <1>1, AnotherTyped DEF Counted, TypeOK, BudgetTyped
<1>5. used[e] < DailyLimit - (IF c \in Bulk THEN Reserve ELSE 0)
  BY DEF Counted, RequestLimit
<1> QED BY <1>1, <1>2, <1>3, <1>4, <1>5, Sizes DEF LimitsHold

LEMMA StepLimits == TypeOK /\ LimitsHold /\ [Next]_vars => LimitsHold'
<1> SUFFICES ASSUME TypeOK, LimitsHold, [Next]_vars PROVE LimitsHold'
  OBVIOUS
<1>1. ASSUME UNCHANGED budgetVars PROVE LimitsHold'
  BY <1>1 DEF LimitsHold, budgetVars
<1>2. ASSUME NEW c \in Callers, Reserved(c) \/ DatabaseFails(c) PROVE LimitsHold'
  <2>1. CASE Counted(c)
    BY <1>2, <2>1, CountedHolds DEF Reserved, DatabaseFails
  <2>2. CASE ~Counted(c)
    BY <1>1, <1>2, <2>2 DEF Reserved, DatabaseFails, budgetVars
  <2> QED BY <2>1, <2>2
<1>3. ASSUME NEW c \in Callers, BudgetSpent(c) PROVE LimitsHold'
  <2>1. used' = used /\ bulkUsed' = bulkUsed
    BY <1>3 DEF BudgetSpent
  <2>2. caller[c].today \in Days /\ used[caller[c].today] \in Nat
    BY DEF TypeOK, CallersTyped, CallerRec, BudgetTyped
  <2>3. c \notin Bulk => used[caller[c].today] = DailyLimit
    BY <1>3, <2>2, Sizes DEF BudgetSpent, RequestLimit, LimitsHold
  <2>4. \A d \in refused' : d \in refused \/ (d = caller[c].today /\ c \notin Bulk)
    <3>1. refused' = IF c \in Bulk THEN refused ELSE refused \cup {caller[c].today}
      BY <1>3 DEF BudgetSpent
    <3> QED BY <3>1
  <2> QED BY <2>1, <2>2, <2>3, <2>4 DEF LimitsHold
<1>4. CASE UNCHANGED vars
  BY <1>1, <1>4 DEF vars
<1>5. CASE Tick \/ RedisDown \/ RedisUp
  BY <1>1, <1>5 DEF Tick, RedisDown, RedisUp
<1>6. ASSUME NEW c \in Callers, Attempt(c) PROVE LimitsHold'
  BY <1>1, <1>2, <1>3, <1>6 DEF Attempt, Begin, Check, ReadClock, RunScript, RedisGone,
     TakeLock, LockTimesOut, Awake, ReadDay, Send, Cancelled
<1> QED BY <1>4, <1>5, <1>6 DEF Next

(* If a user was refused for the day's budget, users have had at least the *)
(* reserve on that day: no number of bulk requests, failures or callers    *)
(* that carry yesterday's date takes it from them.                         *)
THEOREM ReserveKept == Spec => []ReserveForUsers
<1>1. Init => LimitsHold
  BY Sizes DEF Init, LimitsHold, NothingOn
<1>2. TypeOK /\ LimitsHold => ReserveForUsers
  <2> SUFFICES ASSUME TypeOK, LimitsHold, NEW d \in refused PROVE used[d] - bulkUsed[d] >= Reserve
    BY DEF ReserveForUsers
  <2>1. d \in Days /\ used[d] \in Nat /\ bulkUsed[d] \in Nat
    BY DEF TypeOK, BudgetTyped
  <2> QED BY <2>1, Sizes DEF LimitsHold
<1> QED BY <1>1, <1>2, InitTyped, StepTyped, StepLimits, PTL DEF Spec

LEMMA UnspentFinite ==
  \A d : /\ IsFiniteSet(Unspent(d)) /\ IsFiniteSet(Unspent(d)')
         /\ Cardinality(Unspent(d)) \in Nat /\ Cardinality(Unspent(d)') \in Nat
<1>1. \A d : Unspent(d) \subseteq Callers /\ Unspent(d)' \subseteq Callers
  BY DEF Unspent
<1>2. \A d : IsFiniteSet(Unspent(d)) /\ IsFiniteSet(Unspent(d)')
  BY <1>1, CallerAssumption, FS_Subset
<1> QED BY <1>2, FS_CardinalityType

(* A step that lets nobody into the last stretch.                          *)
LEMMA NoneBooked ==
  ASSUME TypeOK, Booked, sent' = sent,
         \A d \in Days : used'[d] >= used[d] /\ used'[d] \in Nat,
         \A d \in Days : Unspent(d)' \subseteq Unspent(d)
  PROVE  Booked'
<1>1. \A d \in Days : Cardinality(Unspent(d)') <= Cardinality(Unspent(d))
  BY UnspentFinite, FS_Subset
<1>2. \A d \in Days : sent[d] \in Nat /\ used[d] \in Nat
  BY DEF TypeOK, BudgetTyped
<1>3. SUFFICES ASSUME NEW d \in Days PROVE sent[d] + Cardinality(Unspent(d)') <= used'[d]
  BY DEF Booked
<1>4. sent[d] + Cardinality(Unspent(d)) <= used[d]
  BY DEF Booked
<1> QED BY <1>1, <1>2, <1>4, UnspentFinite

(* Whoever is not at the end after its step is in no set of Unspent.       *)
LEMMA LeavesUnspent ==
  ASSUME TypeOK, NEW c \in Callers, NEW r, caller' = [caller EXCEPT ![c] = r], r.at # "send"
  PROVE  \A d \in Days : Unspent(d)' = Unspent(d) \ {c}
  BY DEF TypeOK, CallersTyped, Unspent, At

LEMMA ReservedBooked ==
  ASSUME TypeOK, Booked, NEW c \in Callers, Reserved(c)
  PROVE  Booked'
<1>0. caller[c].today \in Days /\ caller[c] \in CallerRec /\ caller[c].at = "insert"
  BY DEF TypeOK, CallersTyped, CallerRec, Reserved, At
<1>e. PICK e \in Days : e = caller[c].today
  BY <1>0
<1>1. caller[c].today = e /\ caller[c] \in CallerRec /\ caller[c].at = "insert"
  BY <1>0, <1>e
<1>2. \A d \in Days : sent[d] \in Nat /\ used[d] \in Nat /\ used'[d] = IF d = e THEN used[d] + 1 ELSE used[d]
  BY <1>1, AnotherTyped DEF Reserved, Counted, TypeOK, BudgetTyped
<1>3. c \notin Unspent(e) /\ Unspent(e)' = Unspent(e) \cup {c}
  BY <1>1 DEF Reserved, Goto, Unspent, At, TypeOK, CallersTyped, CallerRec
<1>4. \A d \in Days \ {e} : Unspent(d)' = Unspent(d)
  BY <1>1 DEF Reserved, Goto, Unspent, At, TypeOK, CallersTyped, CallerRec
<1>5. Cardinality(Unspent(e)') = Cardinality(Unspent(e)) + 1
  BY <1>3, UnspentFinite, FS_AddElement
<1>6. sent' = sent
  BY DEF Reserved
<1>7. SUFFICES ASSUME NEW d \in Days PROVE sent[d] + Cardinality(Unspent(d)') <= used'[d]
  BY <1>6 DEF Booked
<1>8. sent[d] + Cardinality(Unspent(d)) <= used[d]
  BY DEF Booked
<1>9. CASE d = e
  BY <1>1, <1>2, <1>5, <1>8, <1>9, UnspentFinite
<1>10. CASE d # e
  BY <1>2, <1>4, <1>8, <1>10
<1> QED BY <1>9, <1>10

LEMMA SendBooked ==
  ASSUME TypeOK, Booked, NEW c \in Callers, Send(c)
  PROVE  Booked'
<1>0. caller[c].today \in Days /\ caller[c] \in CallerRec /\ At(c, "send")
  BY DEF TypeOK, CallersTyped, CallerRec, Send
<1>e. PICK e \in Days : e = caller[c].today
  BY <1>0
<1>1. caller[c].today = e /\ caller[c] \in CallerRec /\ c \in Unspent(e)
  BY <1>0, <1>e DEF Unspent
<1>2. \A d \in Days : /\ sent[d] \in Nat /\ used[d] \in Nat /\ used'[d] = used[d]
                      /\ sent'[d] = IF d = e THEN sent[d] + 1 ELSE sent[d]
  <2>1. used' = used /\ sent' = Another(sent, e)
    BY <1>1 DEF Send, budgetVars
  <2>2. sent \in [Days -> Nat] /\ used \in [Days -> Nat]
    BY DEF TypeOK, BudgetTyped
  <2> QED BY <2>1, <2>2, AnotherTyped
<1>3. \A d \in Days : Unspent(d)' = Unspent(d) \ {c}
  <2> DEFINE r == [caller[c] EXCEPT !.at = "check", !.tries = @ - 1]
  <2>1. CASE Return(c)
    BY <2>1, Moves, LeavesUnspent DEF TypeOK, Return
  <2>2. CASE ~Return(c)
    <3>1. caller' = [caller EXCEPT ![c] = r] /\ r.at = "check"
      BY <1>1, <2>2 DEF Send, NextAttempt, TypeOK, CallersTyped, CallerRec
    <3> QED BY <3>1, LeavesUnspent
  <2> QED BY <2>1, <2>2
<1>4. Cardinality(Unspent(e)') = Cardinality(Unspent(e)) - 1
  <2>1. Unspent(e)' = Unspent(e) \ {c}
    BY <1>3
  <2>2. IsFiniteSet(Unspent(e)) /\ c \in Unspent(e)
    BY <1>1, UnspentFinite
  <2> QED BY <2>1, <2>2, FS_RemoveElement
<1>5. \A d \in Days \ {e} : Unspent(d)' = Unspent(d)
  <2>1. \A d \in Days \ {e} : c \notin Unspent(d)
    BY <1>1 DEF Unspent
  <2> QED BY <1>3, <2>1
<1>6. SUFFICES ASSUME NEW d \in Days PROVE sent'[d] + Cardinality(Unspent(d)') <= used'[d]
  BY DEF Booked
<1>7. sent[d] + Cardinality(Unspent(d)) <= used[d]
  BY DEF Booked
<1>8. CASE d = e
  BY <1>1, <1>2, <1>4, <1>7, <1>8, UnspentFinite
<1>9. CASE d # e
  BY <1>2, <1>5, <1>7, <1>9
<1> QED BY <1>8, <1>9

(* The other steps of a caller do not lead to the last stretch.            *)
LEMMA OtherBooked ==
  ASSUME TypeOK, Booked, NEW c \in Callers, Attempt(c), ~Reserved(c), ~Send(c)
  PROVE  Booked'
<1>1. caller[c] \in CallerRec /\ caller \in [Callers -> CallerRec]
  BY DEF TypeOK, CallersTyped
<1>2. sent' = sent
  BY DEF Attempt, Begin, Check, ReadClock, RunScript, RedisGone, TakeLock, LockTimesOut, Awake,
     ReadDay, BudgetSpent, DatabaseFails, Cancelled
<1>3. \A d \in Days : used'[d] >= used[d] /\ used'[d] \in Nat
  <2>1. \A d \in Days : used[d] \in Nat
    BY DEF TypeOK, BudgetTyped
  <2>2. CASE used' = used
    BY <2>1, <2>2
  <2>3. CASE Counted(c)
    <3>1. caller[c].today \in Days
      BY <1>1 DEF CallerRec
    <3>2. \A d \in Days : used'[d] = IF d = caller[c].today THEN used[d] + 1 ELSE used[d]
      BY <2>3, <3>1, AnotherTyped DEF Counted, TypeOK, BudgetTyped
    <3> QED BY <2>1, <3>2
  <2> QED BY <2>2, <2>3 DEF Attempt, Begin, Check, ReadClock, RunScript, RedisGone, TakeLock,
             LockTimesOut, Awake, ReadDay, BudgetSpent, DatabaseFails, Cancelled, budgetVars
<1>4. \A d \in Days : Unspent(d)' \subseteq Unspent(d)
  <2>1. SUFFICES \A x \in Callers : caller'[x] = caller[x] \/ caller'[x].at # "send"
    BY DEF Unspent, At
  <2>2. CASE Return(c)
    BY <2>2, Moves DEF Return, TypeOK, CallersTyped
  <2>3. CASE \E p \in Points \ {"send"} : Goto(c, p)
    BY <1>1, <2>3 DEF Goto, CallerRec
  <2>4. CASE Begin(c) \/ ReadClock(c) \/ RunScript(c) \/ ReadDay(c)
    BY <1>1, <2>4 DEF Begin, ReadClock, RunScript, Granted, Full, ReadDay, CallerRec, Windows
  <2> QED BY <2>2, <2>3, <2>4 DEF Attempt, Check, RedisGone, TakeLock, LockTimesOut, Awake,
             BudgetSpent, DatabaseFails, Cancelled, Points
<1> QED BY <1>2, <1>3, <1>4, NoneBooked

LEMMA StepBooked == TypeOK /\ Booked /\ [Next]_vars => Booked'
<1> SUFFICES ASSUME TypeOK, Booked, [Next]_vars PROVE Booked'
  OBVIOUS
<1>1. ASSUME NEW c \in Callers, Attempt(c) PROVE Booked'
  BY <1>1, ReservedBooked, SendBooked, OtherBooked
<1>2. ASSUME caller' = caller, sent' = sent, used' = used PROVE Booked'
  BY <1>2, NoneBooked DEF Unspent, At, TypeOK, BudgetTyped
<1>3. CASE Tick \/ RedisDown \/ RedisUp \/ UNCHANGED vars
  BY <1>2, <1>3 DEF Tick, RedisDown, RedisUp, vars, budgetVars
<1> QED BY <1>1, <1>3 DEF Next

(* Every request sent, also a repeated one, has a reservation of its own,  *)
(* and no day counts more of them than its limit.                          *)
THEOREM BudgetKept == Spec => []SentWithinBudget
<1>1. Init => Booked
  <2> SUFFICES ASSUME Init, NEW d \in Days PROVE sent[d] + Cardinality(Unspent(d)) <= used[d]
    BY DEF Booked
  <2>1. sent[d] = 0 /\ used[d] = 0
    BY DEF Init, NothingOn
  <2>2. Unspent(d) = {}
    BY DEF Init, Unspent, At, AtRest
  <2> QED BY <2>1, <2>2, FS_EmptySet
<1>2. Init => LimitsHold
  BY Sizes DEF Init, LimitsHold, NothingOn
<1>3. Booked /\ LimitsHold => SentWithinBudget
  BY DEF Booked, LimitsHold, SentWithinBudget
<1> QED BY <1>1, <1>2, <1>3, InitTyped, StepTyped, StepLimits, StepBooked, PTL DEF Spec

-----------------------------------------------------------------------------
(* The rates.  A slot is given to a caller that has read the clock at most *)
(* Delay ago.  As long as a stretch that starts at t may still get a slot, *)
(* the window has a member for every slot given since t: its score is t -  *)
(* Delay or later, and no script drops it before the stretch is over.      *)

From(marks, t) == {m \in marks : m[1] >= t}

ClocksHold == \A c \in Callers : Waiting(c) => caller[c].stamp <= now /\ now - caller[c].stamp <= Delay
PastGranted == \A k \in Limiters : \A m \in granted[k] : m[1] <= now
Covered ==
  \A k \in Windows : \A t \in Moments : t > now - Window + Delay =>
    Cardinality(From(granted[k], t)) <= Cardinality(From(window[k], t - Delay))
LockApart == holder # Nobody => since <= now /\ \A m \in granted["fallback"] : m[1] <= since

RInv == ClocksHold /\ PastGranted /\ Covered /\ LockApart /\ RateKept

LEMMA RateSizes == Window \in Nat /\ Gap \in Nat \ {0} /\ Delay \in Nat /\ MaxTime \in Nat /\ Delay < Window
                   /\ \A k \in Windows : Slots(k) \in Nat \ {0}
  BY LimitAssumption DEF Slots

LEMMA MarkTimes == \A m \in Marks : m[1] \in Int
  BY RateSizes DEF Marks, Moments

LEMMA PartFinite ==
  ASSUME NEW marks, IsFiniteSet(marks), NEW part \in SUBSET marks
  PROVE  IsFiniteSet(part) /\ Cardinality(part) \in Nat /\ Cardinality(part) <= Cardinality(marks)
  BY FS_Subset, FS_CardinalityType

(* What a new member does to the part of the set that is counted.          *)
LEMMA FromWith ==
  ASSUME NEW marks \in SUBSET Marks, IsFiniteSet(marks), NEW score \in Moments, NEW t \in Int
  PROVE  /\ Cardinality(From(marks, t)) \in Nat
         /\ Cardinality(From(With(marks, score), t)) =
              IF score >= t THEN Cardinality(From(marks, t)) + 1 ELSE Cardinality(From(marks, t))
<1>1. PICK m \in Marks : m[1] = score /\ m \notin marks /\ With(marks, score) = marks \cup {m}
  BY WithIs
<1>2. IsFiniteSet(From(marks, t)) /\ Cardinality(From(marks, t)) \in Nat
  BY PartFinite DEF From
<1>3. CASE score >= t
  <2>1. From(With(marks, score), t) = From(marks, t) \cup {m} /\ m \notin From(marks, t)
    BY <1>1, <1>3 DEF From
  <2> QED BY <1>2, <1>3, <2>1, FS_AddElement
<1>4. CASE ~(score >= t)
  <2>1. From(With(marks, score), t) = From(marks, t)
    BY <1>1, <1>4 DEF From
  <2> QED BY <1>2, <1>4, <2>1
<1> QED BY <1>3, <1>4

LEMMA DuringWith ==
  ASSUME NEW marks \in SUBSET Marks, IsFiniteSet(marks), NEW score \in Moments,
         NEW t \in Int, NEW length \in Int
  PROVE  /\ Cardinality(During(marks, t, length)) \in Nat
         /\ Cardinality(During(With(marks, score), t, length)) =
              IF score \in t .. (t + length - 1) THEN Cardinality(During(marks, t, length)) + 1
                                                 ELSE Cardinality(During(marks, t, length))
<1>1. PICK m \in Marks : m[1] = score /\ m \notin marks /\ With(marks, score) = marks \cup {m}
  BY WithIs
<1>2. IsFiniteSet(During(marks, t, length)) /\ Cardinality(During(marks, t, length)) \in Nat
  BY PartFinite DEF During
<1>3. CASE score \in t .. (t + length - 1)
  <2>1. /\ During(With(marks, score), t, length) = During(marks, t, length) \cup {m}
        /\ m \notin During(marks, t, length)
    BY <1>1, <1>3 DEF During
  <2> QED BY <1>2, <1>3, <2>1, FS_AddElement
<1>4. CASE score \notin t .. (t + length - 1)
  <2>1. During(With(marks, score), t, length) = During(marks, t, length)
    BY <1>1, <1>4 DEF During
  <2> QED BY <1>2, <1>4, <2>1
<1> QED BY <1>3, <1>4

(* A script drops nothing that a stretch still relies on.                  *)
LEMMA PrunedCovers ==
  ASSUME TypeOK, NEW k \in Windows, NEW time \in Moments, NEW t \in Moments,
         time <= now, t > now - Window + Delay
  PROVE  From(Pruned(k, time), t - Delay) = From(window[k], t - Delay)
<1>1. now \in Moments /\ window[k] \in SUBSET Marks
  BY DEF TypeOK, WorldTyped, LimitersTyped
<1>2. \A m \in window[k] : m[1] >= t - Delay => ~Lapsed(m[1], time)
  BY <1>1, MarkTimes, RateSizes DEF Lapsed, Moments
<1> QED BY <1>2 DEF From, Pruned

(* A caller reads the clock, keeps what it has read, or forgets it.        *)
LEMMA Stamps ==
  ASSUME TypeOK, NEW c \in Callers, Attempt(c)
  PROVE  /\ now' = now
         /\ \A x \in Callers : caller'[x].stamp \in {None, caller[x].stamp, now}
<1>1. caller \in [Callers -> CallerRec] /\ caller[c] \in CallerRec
  BY DEF TypeOK, CallersTyped
<1>2. now' = now
  BY DEF Attempt, Begin, Check, ReadClock, RunScript, RedisGone, TakeLock, LockTimesOut, Awake,
     ReadDay, Reserved, BudgetSpent, DatabaseFails, Send, Cancelled
<1>3. CASE Return(c)
  BY <1>1, <1>2, <1>3, Moves DEF Return, TypeOK
<1>4. ASSUME NEW p \in Points, Goto(c, p) PROVE \A x \in Callers : caller'[x].stamp = caller[x].stamp
  BY <1>1, <1>4 DEF Goto, CallerRec
<1>5. CASE \E p \in Points : Goto(c, p)
  BY <1>2, <1>4, <1>5
<1>6. CASE Begin(c) \/ ReadClock(c) \/ RunScript(c) \/ ReadDay(c) \/ Send(c)
  <2>1. \/ Return(c)
        \/ \A x \in Callers : caller'[x].stamp \in {None, caller[x].stamp, now}
    BY <1>1, <1>6 DEF Begin, ReadClock, RunScript, Granted, Full, ReadDay, Send, NextAttempt, CallerRec
  <2> QED BY <1>2, <1>3, <2>1
<1>7. CASE Check(c) \/ RedisGone(c) \/ TakeLock(c) \/ LockTimesOut(c) \/ Awake(c) \/ Reserved(c)
           \/ BudgetSpent(c) \/ DatabaseFails(c) \/ Cancelled(c)
  <2>1. Return(c) \/ \E p \in {"bulk", "global", "lock", "asleep", "day", "send"} : Goto(c, p)
    BY <1>7 DEF Check, RedisGone, TakeLock, LockTimesOut, Awake, Reserved, BudgetSpent,
       DatabaseFails, Cancelled
  <2> QED BY <1>3, <1>5, <2>1 DEF Points
<1> QED BY <1>6, <1>7 DEF Attempt

LEMMA AttemptClocks == ASSUME TypeOK, ClocksHold, NEW c \in Callers, Attempt(c) PROVE ClocksHold'
<1> SUFFICES ASSUME NEW x \in Callers, caller'[x].stamp # None
             PROVE  caller'[x].stamp <= now /\ now - caller'[x].stamp <= Delay
  BY Stamps DEF ClocksHold, Waiting
<1>1. now \in Int /\ 0 <= Delay
  BY RateSizes DEF TypeOK, WorldTyped, Moments
<1>2. CASE caller'[x].stamp = now
  BY <1>1, <1>2
<1>3. CASE caller'[x].stamp = caller[x].stamp
  BY <1>3 DEF ClocksHold, Waiting
<1> QED BY <1>2, <1>3, Stamps

(* The script gives a slot, or has none to give.                           *)
LEMMA ScriptRates ==
  ASSUME TypeOK, RInv, NEW c \in Callers, RunScript(c)
  PROVE  PastGranted' /\ Covered' /\ LockApart' /\ RateKept'
<1> DEFINE k == caller[c].at
           time == caller[c].stamp
<1>1. /\ k \in Windows /\ time \in Moments /\ now \in Moments /\ time <= now /\ now - time <= Delay
      /\ now' = now
  BY DEF RInv, ClocksHold, Waiting, TypeOK, CallersTyped, RunScript, CallerRec, WorldTyped
<1>2. /\ window \in [Windows -> SUBSET Marks] /\ granted \in [Limiters -> SUBSET Marks]
      /\ k \in Limiters /\ "fallback" \in Limiters /\ k # "fallback" /\ Windows \subseteq Limiters
      /\ IsFiniteSet(window[k]) /\ IsFiniteSet(granted[k])
  BY <1>1 DEF TypeOK, LimitersTyped, Limiters, Windows
<1>3. Pruned(k, time) \in SUBSET Marks /\ IsFiniteSet(Pruned(k, time))
  BY <1>1, PrunedTyped DEF TypeOK
<1>4. holder' = holder /\ since' = since
  BY DEF RunScript, lockVars
<1>5. PICK w \in Windows : w = k
  BY <1>1
<1>6. PICK s \in Moments : s = time
  BY <1>1
<1>7. CASE Full(c, k, time)
  <2>1. window' = [window EXCEPT ![w] = Pruned(w, s)] /\ granted' = granted
    BY <1>5, <1>6, <1>7 DEF Full
  <2>2. Covered'
    <3> SUFFICES ASSUME NEW l \in Windows, NEW t \in Moments, t > now - Window + Delay
                 PROVE  Cardinality(From(granted[l], t)) <= Cardinality(From(window'[l], t - Delay))
      BY <1>1, <2>1 DEF Covered
    <3>1. Cardinality(From(granted[l], t)) <= Cardinality(From(window[l], t - Delay))
      BY DEF RInv, Covered
    <3>2. l = w => From(window'[l], t - Delay) = From(window[l], t - Delay)
      BY <1>1, <1>2, <1>5, <1>6, <2>1, PrunedCovers
    <3>3. l # w => window'[l] = window[l]
      BY <1>2, <2>1
    <3> QED BY <3>1, <3>2, <3>3
  <2> QED BY <1>1, <1>4, <2>1, <2>2 DEF RInv, PastGranted, LockApart, RateKept
<1>8. CASE Granted(c, k, time)
  <2>1. /\ Cardinality(Pruned(w, s)) < Slots(w)
        /\ window' = [window EXCEPT ![w] = With(Pruned(w, s), s)]
        /\ granted' = [granted EXCEPT ![w] = With(granted[w], now)]
    BY <1>5, <1>6, <1>8 DEF Granted
  <2>2. PICK m \in Marks : m[1] = now /\ With(granted[w], now) = granted[w] \cup {m}
    BY <1>1, <1>2, <1>5, WithIs
  <2>3. PastGranted'
    <3> SUFFICES ASSUME NEW l \in Limiters, NEW g \in granted'[l] PROVE g[1] <= now
      BY <1>1 DEF PastGranted
    <3>1. g \in granted[l] \/ g = m
      BY <1>2, <2>1, <2>2
    <3>2. now \in Int
      BY <1>1 DEF Moments
    <3> QED BY <2>2, <3>1, <3>2 DEF RInv, PastGranted
  <2>4. LockApart'
    <3>1. granted'["fallback"] = granted["fallback"]
      BY <1>2, <1>5, <2>1
    <3> QED BY <1>1, <1>4, <3>1 DEF RInv, LockApart
  <2>5. ASSUME NEW t \in Moments, t > now - Window + Delay
        PROVE  Cardinality(From(granted[w], t)) <= Cardinality(From(Pruned(w, s), t - Delay))
    <3>1. From(Pruned(w, s), t - Delay) = From(window[w], t - Delay)
      BY <1>1, <1>5, <1>6, <2>5, PrunedCovers
    <3> QED BY <2>5, <3>1 DEF RInv, Covered
  <2>6. Covered'
    <3> SUFFICES ASSUME NEW l \in Windows, NEW t \in Moments, t > now - Window + Delay
                 PROVE  Cardinality(From(granted'[l], t)) <= Cardinality(From(window'[l], t - Delay))
      BY <1>1 DEF Covered
    <3>1. CASE l # w
      <4>1. window'[l] = window[l] /\ granted'[l] = granted[l]
        BY <1>2, <2>1, <3>1
      <4> QED BY <4>1 DEF RInv, Covered
    <3>2. CASE l = w
      <4>1. t \in Int /\ t - Delay \in Int /\ (now >= t => s >= t - Delay)
        BY <1>1, <1>6, RateSizes DEF Moments
      <4>2. /\ Cardinality(From(granted[w], t)) \in Nat
            /\ Cardinality(From(granted'[w], t)) <= Cardinality(From(granted[w], t)) + 1
            /\ now < t => Cardinality(From(granted'[w], t)) = Cardinality(From(granted[w], t))
        BY <1>1, <1>2, <1>5, <2>1, <4>1, FromWith DEF Moments
      <4>3. /\ Cardinality(From(Pruned(w, s), t - Delay)) \in Nat
            /\ Cardinality(From(window'[w], t - Delay)) >= Cardinality(From(Pruned(w, s), t - Delay))
            /\ s >= t - Delay => Cardinality(From(window'[w], t - Delay))
                                  = Cardinality(From(Pruned(w, s), t - Delay)) + 1
        BY <1>2, <1>3, <1>5, <1>6, <2>1, <4>1, FromWith
      <4>4. now \in Int
        BY <1>1 DEF Moments
      <4> DEFINE g == Cardinality(From(granted[w], t))
                 p == Cardinality(From(Pruned(w, s), t - Delay))
                 gg == Cardinality(From(granted'[w], t))
                 pp == Cardinality(From(window'[w], t - Delay))
      <4>5. g <= p
        BY <2>5
      <4>6. gg \in Nat /\ pp \in Nat
        <5>1. granted'[w] = With(granted[w], now) /\ window'[w] = With(Pruned(w, s), s)
          BY <1>2, <1>5, <2>1
        <5>2. /\ IsFiniteSet(With(granted[w], now)) /\ With(granted[w], now) \in SUBSET Marks
              /\ IsFiniteSet(With(Pruned(w, s), s)) /\ With(Pruned(w, s), s) \in SUBSET Marks
          BY <1>1, <1>2, <1>3, <1>5, <1>6, WithIs
        <5>3. /\ From(With(granted[w], now), t) \in SUBSET With(granted[w], now)
              /\ From(With(Pruned(w, s), s), t - Delay) \in SUBSET With(Pruned(w, s), s)
          BY DEF From
        <5> QED BY <5>1, <5>2, <5>3, PartFinite
      <4>7. gg <= pp
        <5> HIDE DEF g, p, gg, pp
        <5>1. CASE now >= t
          BY <4>1, <4>2, <4>3, <4>5, <4>6, <5>1 DEF g, p, gg, pp
        <5>2. CASE now < t
          BY <4>1, <4>2, <4>3, <4>5, <4>6, <5>2 DEF g, p, gg, pp
        <5> QED BY <4>1, <4>4, <5>1, <5>2
      <4> QED BY <3>2, <4>7
    <3> QED BY <3>1, <3>2
  <2>7. RateKept'
    <3>1. granted'["fallback"] = granted["fallback"]
      BY <1>2, <1>5, <2>1
    <3>2. \A l \in Windows \ {w} : granted'[l] = granted[l]
      BY <1>2, <2>1
    <3>3. SUFFICES ASSUME NEW t \in Moments
                   PROVE  Cardinality(During(granted'[w], t, Window - Delay)) <= Slots(w)
      BY <3>1, <3>2 DEF RInv, RateKept
    <3>4. t \in Int /\ now \in Int /\ Window - Delay \in Int /\ Slots(w) \in Nat
      BY <1>1, RateSizes DEF Moments
    <3>5. /\ Cardinality(During(granted[w], t, Window - Delay)) \in Nat
          /\ Cardinality(During(granted'[w], t, Window - Delay)) =
               IF now \in t .. (t + (Window - Delay) - 1)
               THEN Cardinality(During(granted[w], t, Window - Delay)) + 1
               ELSE Cardinality(During(granted[w], t, Window - Delay))
      BY <1>1, <1>2, <1>5, <2>1, <3>4, DuringWith
    <3>6. Cardinality(During(granted[w], t, Window - Delay)) <= Slots(w)
      BY DEF RInv, RateKept
    <3>7. ASSUME now \in t .. (t + (Window - Delay) - 1)
          PROVE  Cardinality(During(granted[w], t, Window - Delay)) < Slots(w)
      <4>1. t > now - Window + Delay
        BY <3>4, <3>7, RateSizes
      <4>2. /\ IsFiniteSet(From(granted[w], t))
            /\ During(granted[w], t, Window - Delay) \in SUBSET From(granted[w], t)
        <5>1. \A x \in granted[w] : x[1] \in Int
          BY <1>2, <1>5, MarkTimes
        <5> QED BY <1>2, <1>5, <3>4, <5>1, PartFinite DEF From, During
      <4>3. Cardinality(During(granted[w], t, Window - Delay)) <= Cardinality(From(granted[w], t))
        BY <4>2, PartFinite
      <4>4. Cardinality(From(granted[w], t)) \in Nat
        BY <4>2, FS_CardinalityType
      <4>5. Cardinality(From(granted[w], t)) <= Cardinality(From(Pruned(w, s), t - Delay))
        BY <2>5, <4>1
      <4>6. From(Pruned(w, s), t - Delay) \in SUBSET Pruned(w, s)
        BY DEF From
      <4>7. /\ Cardinality(From(Pruned(w, s), t - Delay)) <= Cardinality(Pruned(w, s))
            /\ Cardinality(From(Pruned(w, s), t - Delay)) \in Nat /\ Cardinality(Pruned(w, s)) \in Nat
        BY <1>3, <1>5, <1>6, <4>6, PartFinite, FS_CardinalityType
      <4> QED BY <2>1, <3>4, <3>5, <4>3, <4>4, <4>5, <4>7
    <3> QED BY <3>4, <3>5, <3>6, <3>7
  <2> QED BY <2>3, <2>4, <2>6, <2>7
<1> QED BY <1>7, <1>8 DEF RunScript

(* The lock is taken: every slot it gave is in the past.  It gives one when*)
(* its holder has slept, Gap or longer after the ones before.              *)
LEMMA LockRates ==
  ASSUME TypeOK, RInv, NEW c \in Callers, TakeLock(c) \/ Awake(c)
  PROVE  PastGranted' /\ Covered' /\ LockApart' /\ RateKept'
<1>1. now \in Moments /\ now \in Int /\ now' = now /\ window' = window
  BY DEF TypeOK, WorldTyped, TakeLock, Awake, Moments, limiterVars
<1>2. /\ granted \in [Limiters -> SUBSET Marks] /\ "fallback" \in Limiters
      /\ IsFiniteSet(granted["fallback"]) /\ granted["fallback"] \in SUBSET Marks
      /\ Windows \subseteq Limiters /\ "fallback" \notin Windows
  BY DEF TypeOK, LimitersTyped, Limiters, Windows
<1>3. CASE TakeLock(c)
  <2>1. since' = now /\ granted' = granted
    BY <1>3 DEF TakeLock, limiterVars
  <2>2. LockApart'
    BY <1>1, <1>2, <2>1 DEF RInv, PastGranted, LockApart
  <2> QED BY <1>1, <2>1, <2>2 DEF RInv, PastGranted, Covered, RateKept
<1>4. CASE Awake(c)
  <2>1. /\ holder = c /\ holder' = Nobody
        /\ granted' = [granted EXCEPT !["fallback"] = With(granted["fallback"], now)]
        /\ now >= since + Gap /\ since \in Int
    BY <1>4 DEF Awake, Slept, TypeOK, CallersTyped, WorldTyped, Moments
  <2>2. PICK m \in Marks : m[1] = now /\ With(granted["fallback"], now) = granted["fallback"] \cup {m}
    BY <1>1, <1>2, WithIs
  <2>3. PastGranted'
    <3> SUFFICES ASSUME NEW k \in Limiters, NEW g \in granted'[k] PROVE g[1] <= now
      BY <1>1 DEF PastGranted
    <3>1. g \in granted[k] \/ g = m
      BY <1>2, <2>1, <2>2
    <3> QED BY <1>1, <2>2, <3>1 DEF RInv, PastGranted
  <2>4. \A k \in Windows : granted'[k] = granted[k]
    BY <1>2, <2>1
  <2>5. Covered'
    BY <1>1, <2>4 DEF RInv, Covered
  <2>6. LockApart'
    BY <2>1 DEF LockApart
  <2>7. RateKept'
    <3>1. SUFFICES ASSUME NEW t \in Moments
                   PROVE  Cardinality(During(granted'["fallback"], t, Gap)) <= 1
      BY <2>4 DEF RInv, RateKept
    <3>2. t \in Int /\ Gap \in Int
      BY RateSizes DEF Moments
    <3>3. Cardinality(During(granted'["fallback"], t, Gap)) =
            IF now \in t .. (t + Gap - 1) THEN Cardinality(During(granted["fallback"], t, Gap)) + 1
                                          ELSE Cardinality(During(granted["fallback"], t, Gap))
      BY <1>1, <1>2, <2>1, <3>2, DuringWith
    <3>4. Cardinality(During(granted["fallback"], t, Gap)) <= 1
      BY DEF RInv, RateKept
    <3>5. ASSUME now \in t .. (t + Gap - 1)
          PROVE  Cardinality(During(granted["fallback"], t, Gap)) = 0
      <4>1. \A g \in granted["fallback"] : g[1] <= since /\ g[1] \in Int
        BY <1>2, <2>1, CallerAssumption, MarkTimes DEF RInv, LockApart
      <4>2. t > since
        BY <1>1, <2>1, <3>2, <3>5
      <4>3. During(granted["fallback"], t, Gap) = {}
        BY <2>1, <3>2, <4>1, <4>2 DEF During
      <4> QED BY <4>3, FS_EmptySet
    <3> QED BY <3>3, <3>4, <3>5
  <2> QED BY <2>3, <2>5, <2>6, <2>7
<1> QED BY <1>3, <1>4

LEMMA TickRates ==
  ASSUME TypeOK, RInv, Tick
  PROVE  RInv'
<1>1. /\ now \in Int /\ now' = now + 1 /\ window' = window /\ caller' = caller
      /\ holder' = holder /\ since' = since
  BY DEF TypeOK, WorldTyped, Tick, Moments, lockVars
<1>2. /\ granted' = [k \in Limiters |-> Recent(granted[k], now')]
      /\ \A k \in Limiters : IsFiniteSet(granted[k]) /\ granted[k] \in SUBSET Marks
      /\ Windows \subseteq Limiters /\ "fallback" \in Limiters
  BY DEF TypeOK, LimitersTyped, Tick, Limiters
<1>3. \A k \in Limiters : granted'[k] \in SUBSET granted[k]
  BY <1>2 DEF Recent
<1>4. ClocksHold'
  <2> SUFFICES ASSUME NEW c \in Callers, caller'[c].stamp # None
               PROVE  caller'[c].stamp <= now' /\ now' - caller'[c].stamp <= Delay
    BY DEF ClocksHold, Waiting
  <2>1. caller[c].stamp <= now /\ now - caller[c].stamp < Delay
    BY <1>1 DEF RInv, ClocksHold, Tick, Waiting
  <2>2. caller[c].stamp \in Int
    BY <1>1 DEF TypeOK, CallersTyped, CallerRec, Moments
  <2> QED BY <1>1, <2>1, <2>2, RateSizes
<1>5. PastGranted'
  <2> SUFFICES ASSUME NEW k \in Limiters, NEW g \in granted'[k] PROVE g[1] <= now + 1
    BY <1>1 DEF PastGranted
  <2>1. g \in granted[k] /\ g[1] \in Int
    BY <1>2, <1>3, MarkTimes
  <2> QED BY <1>1, <2>1 DEF RInv, PastGranted
<1>6. Covered'
  <2> SUFFICES ASSUME NEW k \in Windows, NEW t \in Moments, t > now' - Window + Delay
               PROVE  Cardinality(From(granted'[k], t)) <= Cardinality(From(window'[k], t - Delay))
    BY DEF Covered
  <2>1. t > now - Window + Delay /\ window' = window
    BY <1>1, RateSizes DEF Moments
  <2>2. Cardinality(From(granted[k], t)) <= Cardinality(From(window[k], t - Delay))
    BY <2>1 DEF RInv, Covered
  <2>3. From(granted[k], t) \in SUBSET granted[k] /\ From(granted'[k], t) \in SUBSET From(granted[k], t)
    BY <1>2, <1>3 DEF From
  <2>4. /\ IsFiniteSet(From(granted[k], t))
        /\ Cardinality(From(granted'[k], t)) <= Cardinality(From(granted[k], t))
        /\ Cardinality(From(granted'[k], t)) \in Nat /\ Cardinality(From(granted[k], t)) \in Nat
    BY <1>2, <2>3, PartFinite, FS_CardinalityType
  <2>5. Cardinality(From(window[k], t - Delay)) \in Nat
    BY PartFinite DEF TypeOK, LimitersTyped, From
  <2> QED BY <2>1, <2>2, <2>4, <2>5
<1>7. LockApart'
  <2> SUFFICES ASSUME holder # Nobody
               PROVE  since <= now + 1 /\ \A g \in granted'["fallback"] : g[1] <= since
    BY <1>1 DEF LockApart
  <2>1. since <= now /\ \A g \in granted["fallback"] : g[1] <= since
    BY DEF RInv, LockApart
  <2>2. since \in Int
    BY DEF TypeOK, WorldTyped, Moments
  <2>3. granted'["fallback"] \subseteq granted["fallback"]
    BY <1>2, <1>3
  <2> QED BY <1>1, <2>1, <2>2, <2>3
<1>8. RateKept'
  <2>1. ASSUME NEW k \in Limiters, NEW t \in Moments, NEW length \in Int
        PROVE  /\ Cardinality(During(granted'[k], t, length)) <= Cardinality(During(granted[k], t, length))
               /\ Cardinality(During(granted'[k], t, length)) \in Nat
               /\ Cardinality(During(granted[k], t, length)) \in Nat
    <3>1. /\ During(granted[k], t, length) \in SUBSET granted[k]
          /\ During(granted'[k], t, length) \in SUBSET During(granted[k], t, length)
      BY <1>3 DEF During
    <3> QED BY <1>2, <3>1, PartFinite, FS_CardinalityType
  <2>2. ASSUME NEW t \in Moments
        PROVE  /\ \A k \in Windows : Cardinality(During(granted'[k], t, Window - Delay)) <= Slots(k)
               /\ Cardinality(During(granted'["fallback"], t, Gap)) <= 1
    <3>1. Window - Delay \in Int /\ Gap \in Int
      BY RateSizes
    <3>2. /\ \A k \in Windows : Cardinality(During(granted[k], t, Window - Delay)) <= Slots(k)
          /\ Cardinality(During(granted["fallback"], t, Gap)) <= 1
      BY DEF RInv, RateKept
    <3>3. ASSUME NEW k \in Windows PROVE Cardinality(During(granted'[k], t, Window - Delay)) <= Slots(k)
      BY <1>2, <2>1, <3>1, <3>2, RateSizes
    <3>4. Cardinality(During(granted'["fallback"], t, Gap)) <= 1
      BY <1>2, <2>1, <3>1, <3>2
    <3> QED BY <3>3, <3>4
  <2> QED BY <2>2 DEF RateKept
<1> QED BY <1>4, <1>5, <1>6, <1>7, <1>8 DEF RInv

(* Every other step leaves the windows, the slots and the time as they are *)
(* and at most drops the lock.                                             *)
LEMMA OtherRates ==
  ASSUME RInv, UNCHANGED limiterVars, now' = now,
         UNCHANGED lockVars \/ holder' = Nobody
  PROVE  PastGranted' /\ Covered' /\ LockApart' /\ RateKept'
<1>1. window' = window /\ granted' = granted
  BY DEF limiterVars
<1>2. LockApart'
  BY <1>1 DEF RInv, LockApart, lockVars
<1> QED BY <1>1, <1>2 DEF RInv, PastGranted, Covered, RateKept

LEMMA StepRates == TypeOK /\ RInv /\ [Next]_vars => RInv'
<1> SUFFICES ASSUME TypeOK, RInv, [Next]_vars PROVE RInv'
  OBVIOUS
<1>1. ASSUME NEW c \in Callers, Attempt(c) PROVE RInv'
  <2>1. ClocksHold'
    BY <1>1, AttemptClocks DEF RInv
  <2>2. CASE RunScript(c) \/ TakeLock(c) \/ Awake(c)
    BY <2>1, <2>2, ScriptRates, LockRates DEF RInv
  <2>3. CASE ~(RunScript(c) \/ TakeLock(c) \/ Awake(c))
    <3>1. /\ UNCHANGED limiterVars /\ now' = now
          /\ UNCHANGED lockVars \/ holder' = Nobody
      BY <1>1, <2>3 DEF Attempt, Begin, Check, ReadClock, RedisGone, LockTimesOut, ReadDay,
         Reserved, BudgetSpent, DatabaseFails, Send, Cancelled
    <3> QED BY <2>1, <3>1, OtherRates DEF RInv
  <2> QED BY <2>2, <2>3
<1>2. CASE RedisDown \/ RedisUp \/ UNCHANGED vars
  <2>1. caller' = caller /\ UNCHANGED limiterVars /\ now' = now /\ UNCHANGED lockVars
    BY <1>2 DEF RedisDown, RedisUp, vars
  <2>2. ClocksHold'
    BY <2>1 DEF RInv, ClocksHold, Waiting
  <2> QED BY <2>1, <2>2, OtherRates DEF RInv
<1> QED BY <1>1, <1>2, TickRates DEF Next

LEMMA InitRates == Init => RInv
<1> SUFFICES ASSUME Init PROVE RInv
  OBVIOUS
<1>1. /\ \A k \in Windows : window[k] = {} /\ granted[k] = {}
      /\ \A k \in Limiters : granted[k] = {}
      /\ "fallback" \in Limiters /\ holder = Nobody
  BY DEF Init, Limiters
<1>2. \A t \in Int, length \in Int : From({}, t) = {} /\ During({}, t, length) = {}
  BY DEF From, During
<1>3. ClocksHold
  BY DEF Init, ClocksHold, Waiting, AtRest
<1>4. \A t \in Moments : t \in Int /\ t - Delay \in Int
  BY RateSizes DEF Moments
<1>5. Cardinality({}) = 0
  BY FS_EmptySet
<1>6. Covered
  <2>1. \A k \in Windows, t \in Moments : From(granted[k], t) = {} /\ From(window[k], t - Delay) = {}
    BY <1>1, <1>2, <1>4
  <2> QED BY <1>5, <2>1 DEF Covered
<1>7. RateKept
  <2>1. Window - Delay \in Int /\ Gap \in Int /\ \A k \in Windows : Slots(k) >= 0
    BY RateSizes
  <2>2. \A t \in Moments : /\ \A k \in Windows : During(granted[k], t, Window - Delay) = {}
                           /\ During(granted["fallback"], t, Gap) = {}
    BY <1>1, <1>2, <1>4, <2>1
  <2> QED BY <1>5, <2>1, <2>2 DEF RateKept
<1> QED BY <1>1, <1>3, <1>6, <1>7 DEF RInv, PastGranted, LockApart

(* No limiter gives more slots than it should in any stretch of a second   *)
(* less Delay, nor the lock more than one per Gap: for any number of       *)
(* callers and slots, whenever they read the clock and run the script, and *)
(* whatever is cancelled or out of reach.                                  *)
THEOREM RatesKept == Spec => []RateKept
<1>1. RInv => RateKept
  BY DEF RInv
<1> QED BY <1>1, InitTyped, StepTyped, InitRates, StepRates, PTL DEF Spec
=============================================================================
