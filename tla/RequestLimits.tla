---------------------------- MODULE RequestLimits ---------------------------
(***************************************************************************)
(* What a lookup passes before it may ask Dadata: the retry loop of        *)
(* services/dadata/client.py, and in services/dadata/runtime.py the        *)
(* sliding windows in Redis, the named lock that replaces them when Redis  *)
(* is down, and the daily budget in the database.                          *)
(*                                                                         *)
(* A caller is one call of find_party_by_inn at a time, in any process:    *)
(* of a full refresh (Bulk) or of a user.  Time passes in ticks.  A caller *)
(* takes its time from time.time() and the script runs at most Delay ticks *)
(* later; the clocks of the callers agree.  Pauses between attempts may be *)
(* of any length.  A member of a window has its score and a name of its    *)
(* own (a uuid), here the least number that is free.                       *)
(***************************************************************************)
EXTENDS Integers, FiniteSets

CONSTANTS
  Callers, Bulk,    \* the callers; those with keep_daily_reserve
  Nobody, None,     \* no caller; no time read
  GlobalRPS,        \* DADATA_MAX_REQUESTS_PER_SECOND
  BulkRPS,          \* DADATA_FULL_REFRESH_REQUESTS_PER_SECOND
  DailyLimit,       \* DADATA_DAILY_REQUEST_LIMIT
  Reserve,          \* DADATA_DAILY_REQUEST_RESERVE
  Retries,          \* DADATA_MAX_RETRIES
  Window,           \* ticks in a second
  Gap,              \* ticks in 1 / DADATA_FALLBACK_REQUESTS_PER_SECOND
  Delay,            \* bound: from reading the clock to running the script
  DayLength,        \* bound: ticks in a day
  MaxTime,          \* bound: ticks
  MaxCalls,         \* bound: calls of each caller
  MaxFaults         \* bound: outages, database errors and cancellations

Moments == 0..MaxTime
Day(t) == t \div DayLength
Days == {Day(t) : t \in Moments}
Windows == {"bulk", "global"}
Limiters == Windows \cup {"fallback"}

(* config.py, validate_runtime_configuration *)
ASSUME LimitAssumption ==
  /\ {GlobalRPS, BulkRPS, DailyLimit, Window, Gap, DayLength} \subseteq Nat \ {0}
  /\ {Reserve, Retries, Delay, MaxTime, MaxCalls, MaxFaults} \subseteq Nat
  /\ BulkRPS <= GlobalRPS /\ Reserve < DailyLimit /\ Delay < Window
ASSUME CallerAssumption ==
  IsFiniteSet(Callers) /\ Bulk \subseteq Callers /\ Nobody \notin Callers /\ None \notin Moments

VARIABLES
  now,
  window,       \* dadata:full-refresh-rps, dadata:rps : their members
  redis,        \* is Redis reachable
  holder,       \* GET_LOCK("dadata:fallback-rps")
  since,        \* when it was taken
  used,         \* dadata_usage.requests_count of each day
  caller,
  faults,
  granted,      \* history: slots lately given by each limiter, with the moment
  bulkUsed,     \* history: the part of used that Bulk reserved
  sent,         \* history: requests sent on the budget of each day
  refused       \* history: the days whose budget was refused to a user

limiterVars == <<window, granted>>
lockVars == <<holder, since>>
budgetVars == <<used, bulkUsed, refused>>
vars == <<now, redis, caller, faults, sent, limiterVars, lockVars, budgetVars>>

-----------------------------------------------------------------------------
Points == {"idle", "check", "bulk", "global", "lock", "asleep", "day", "insert", "send"}
CallerRec == [at : Points, tries : 0..(Retries + 2), stamp : Moments \cup {None},
              today : Days, calls : 0..MaxCalls]
AtRest == [at |-> "idle", tries |-> 0, stamp |-> None, today |-> Day(0), calls |-> 0]

At(c, p) == caller[c].at = p
Goto(c, p) == caller' = [caller EXCEPT ![c].at = p]

(* A bug: the caller keeps the time it has read.                           *)
OverWithStamp(c) == [AtRest EXCEPT !.calls = caller[c].calls, !.stamp = caller[c].stamp]

(* The call is over, with an answer or with an exception.                  *)
Over(c) == [AtRest EXCEPT !.calls = caller[c].calls]
Return(c) == caller' = [caller EXCEPT ![c] = Over(c)]

(* One more of something at k.                                             *)
Another(f, k) == [f EXCEPT ![k] = @ + 1]

(* find_party_by_inn decides once how often to try.                        *)
Begin(c) ==
  /\ At(c, "idle") /\ caller[c].calls < MaxCalls
  /\ caller' = [caller EXCEPT ![c].at = "check", ![c].calls = @ + 1,
                              ![c].tries = IF redis THEN Retries + 1 ELSE 2]
  /\ UNCHANGED <<now, redis, faults, sent, limiterVars, lockVars, budgetVars>>

(* _post_party_request, up to the first limiter.  A full refresh does      *)
(* without Redis for nothing.                                              *)
Check(c) ==
  /\ At(c, "check")
  /\ \/ redis /\ Goto(c, IF c \in Bulk THEN "bulk" ELSE "global")
     \/ ~redis /\ c \notin Bulk /\ Goto(c, "lock")
     \/ ~redis /\ c \in Bulk /\ Return(c)
  /\ UNCHANGED <<now, redis, faults, sent, limiterVars, lockVars, budgetVars>>

-----------------------------------------------------------------------------
(* _wait_for_sliding_window_slot: read the clock, run the script, and on a *)
(* full window sleep and do it again.                                      *)
ReadClock(c) ==
  /\ caller[c].at \in Windows /\ caller[c].stamp = None
  /\ caller' = [caller EXCEPT ![c].stamp = now]
  /\ UNCHANGED <<now, redis, faults, sent, limiterVars, lockVars, budgetVars>>

Marks == Moments \X Nat

(* A member with a new name.                                               *)
Fresh(marks, score) == CHOOSE m \in {score} \X (1 .. Cardinality(marks) + 1) : m \notin marks
With(marks, score) == marks \cup {Fresh(marks, score)}

Slots(k) == IF k = "bulk" THEN BulkRPS ELSE GlobalRPS

(* A bug: entries are dropped a tick too early.                            *)
LapsedEarly(score, time) == score <= time - Window + 1

(* ZREMRANGEBYSCORE key 0 now_ms - window_ms *)
Lapsed(score, time) == score <= time - Window

Pruned(k, time) == {m \in window[k] : ~Lapsed(m[1], time)}

Granted(c, k, time) ==
  /\ Cardinality(Pruned(k, time)) < Slots(k)
  /\ window' = [window EXCEPT ![k] = With(Pruned(k, time), time)]
  /\ granted' = [granted EXCEPT ![k] = With(granted[k], now)]
  /\ caller' = [caller EXCEPT ![c].at = IF k = "bulk" THEN "global" ELSE "day", ![c].stamp = None]

Full(c, k, time) ==
  /\ Cardinality(Pruned(k, time)) >= Slots(k)
  /\ window' = [window EXCEPT ![k] = Pruned(k, time)]
  /\ caller' = [caller EXCEPT ![c].stamp = None]
  /\ UNCHANGED granted

RunScript(c) ==
  LET k == caller[c].at IN
  /\ k \in Windows /\ caller[c].stamp # None /\ redis
  /\ Granted(c, k, caller[c].stamp) \/ Full(c, k, caller[c].stamp)
  /\ UNCHANGED <<now, redis, faults, sent, lockVars, budgetVars>>

(* A RedisError becomes a DadataRateLimitError, which is not tried again.  *)
RedisGone(c) ==
  /\ caller[c].at \in Windows /\ caller[c].stamp # None /\ ~redis
  /\ Return(c)
  /\ UNCHANGED <<now, redis, faults, sent, limiterVars, lockVars, budgetVars>>

-----------------------------------------------------------------------------
(* wait_for_fallback_rps_slot: GET_LOCK, sleep, RELEASE_LOCK.              *)
TakeLock(c) ==
  /\ At(c, "lock") /\ holder = Nobody
  /\ holder' = c /\ since' = now
  /\ Goto(c, "asleep")
  /\ UNCHANGED <<now, redis, faults, sent, limiterVars, budgetVars>>

(* GET_LOCK gives up after ten seconds.                                    *)
LockTimesOut(c) ==
  /\ At(c, "lock") /\ holder # Nobody
  /\ Return(c)
  /\ UNCHANGED <<now, redis, faults, sent, limiterVars, lockVars, budgetVars>>

(* A bug: the lock is released before the pause.                           *)
NoSleep == TRUE

Slept == now >= since + Gap

Awake(c) ==
  /\ At(c, "asleep") /\ Slept
  /\ holder' = Nobody /\ since' = 0
  /\ granted' = [granted EXCEPT !["fallback"] = With(granted["fallback"], now)]
  /\ Goto(c, "day")
  /\ UNCHANGED <<now, redis, faults, sent, window, budgetVars>>

-----------------------------------------------------------------------------
(* _reserve_daily_request_in_database: the day is read before the          *)
(* statement, which may run on the next one.                               *)
ReadDay(c) ==
  /\ At(c, "day")
  /\ caller' = [caller EXCEPT ![c].at = "insert", ![c].today = Day(now)]
  /\ UNCHANGED <<now, redis, faults, sent, limiterVars, lockVars, budgetVars>>

(* A bug: keep_reserve does not reach the statement.                       *)
SameLimit(c) == DailyLimit

RequestLimit(c) == DailyLimit - (IF c \in Bulk THEN Reserve ELSE 0)

(* INSERT ... ON DUPLICATE KEY UPDATE, committed.                          *)
Counted(c) ==
  /\ used[caller[c].today] < RequestLimit(c)
  /\ used' = Another(used, caller[c].today)
  /\ bulkUsed' = IF c \in Bulk THEN Another(bulkUsed, caller[c].today) ELSE bulkUsed

Reserved(c) ==
  /\ At(c, "insert") /\ Counted(c)
  /\ Goto(c, "send")
  /\ UNCHANGED <<now, redis, faults, sent, refused, limiterVars, lockVars>>

BudgetSpent(c) ==
  /\ At(c, "insert") /\ used[caller[c].today] >= RequestLimit(c)
  /\ Return(c)
  /\ refused' = IF c \in Bulk THEN refused ELSE refused \cup {caller[c].today}
  /\ UNCHANGED <<now, redis, faults, sent, used, bulkUsed, limiterVars, lockVars>>

(* The database fails before the commit, or after it (the deletion of old  *)
(* rows): the call ends, counted or not.                                   *)
DatabaseFails(c) ==
  /\ At(c, "insert") /\ faults < MaxFaults
  /\ faults' = faults + 1
  /\ Counted(c) \/ UNCHANGED <<used, bulkUsed>>
  /\ Return(c)
  /\ UNCHANGED <<now, redis, sent, refused, limiterVars, lockVars>>

-----------------------------------------------------------------------------
(* A bug: the next attempt asks again without a reservation of its own.    *)
SendAgain == "send"

NextAttempt == "check"

(* client.post: an answer or a 429 ends the call; a server error, a        *)
(* timeout or a lost connection leads to the next attempt, if any is left. *)
Send(c) ==
  /\ At(c, "send")
  /\ sent' = Another(sent, caller[c].today)
  /\ \/ Return(c)
     \/ /\ caller[c].tries > 1
        /\ caller' = [caller EXCEPT ![c].at = NextAttempt, ![c].tries = @ - 1]
  /\ UNCHANGED <<now, redis, faults, limiterVars, lockVars, budgetVars>>

(* The task is cancelled or its process dies; a lock goes with its         *)
(* connection.                                                             *)
Cancelled(c) ==
  /\ caller[c].at # "idle" /\ faults < MaxFaults
  /\ faults' = faults + 1
  /\ Return(c)
  /\ IF holder = c THEN holder' = Nobody /\ since' = 0 ELSE UNCHANGED lockVars
  /\ UNCHANGED <<now, redis, sent, limiterVars, budgetVars>>

-----------------------------------------------------------------------------
Waiting(c) == caller[c].stamp # None

(* The histories go back as far as a limiter looks.                        *)
Recent(marks, time) == {m \in marks : m[1] + Window > time \/ m[1] + Gap > time}

Tick ==
  /\ now < MaxTime
  /\ \A c \in Callers : Waiting(c) => now - caller[c].stamp < Delay
  /\ now' = now + 1
  /\ granted' = [k \in DOMAIN granted |-> Recent(granted[k], now')]
  /\ UNCHANGED <<redis, caller, faults, sent, window, lockVars, budgetVars>>

RedisDown ==
  /\ redis /\ faults < MaxFaults
  /\ redis' = FALSE /\ faults' = faults + 1
  /\ UNCHANGED <<now, caller, sent, limiterVars, lockVars, budgetVars>>

(* The windows are in the append-only file.                                *)
RedisUp ==
  /\ ~redis
  /\ redis' = TRUE
  /\ UNCHANGED <<now, caller, faults, sent, limiterVars, lockVars, budgetVars>>

NothingOn == [d \in Days |-> 0]

Init ==
  /\ now = 0
  /\ window = [k \in Windows |-> {}]
  /\ redis \in BOOLEAN
  /\ holder = Nobody /\ since = 0
  /\ used = NothingOn /\ bulkUsed = NothingOn /\ sent = NothingOn
  /\ refused = {}
  /\ caller = [c \in Callers |-> AtRest]
  /\ faults = 0
  /\ granted = [k \in Limiters |-> {}]

Attempt(c) ==
  \/ Begin(c) \/ Check(c)
  \/ ReadClock(c) \/ RunScript(c) \/ RedisGone(c)
  \/ TakeLock(c) \/ LockTimesOut(c) \/ Awake(c)
  \/ ReadDay(c) \/ Reserved(c) \/ BudgetSpent(c) \/ DatabaseFails(c)
  \/ Send(c) \/ Cancelled(c)

Next == (\E c \in Callers : Attempt(c)) \/ Tick \/ RedisDown \/ RedisUp

Spec == Init /\ [][Next]_vars

-----------------------------------------------------------------------------
LimitersTyped ==
  /\ window \in [Windows -> SUBSET Marks]
  /\ granted \in [Limiters -> SUBSET Marks]
  /\ \A k \in Windows : IsFiniteSet(window[k])
  /\ \A k \in Limiters : IsFiniteSet(granted[k])
BudgetTyped ==
  /\ used \in [Days -> Nat] /\ bulkUsed \in [Days -> Nat] /\ sent \in [Days -> Nat]
  /\ refused \subseteq Days
CallersTyped ==
  /\ caller \in [Callers -> CallerRec]
  /\ \A c \in Callers : Waiting(c) => caller[c].at \in Windows
  /\ \A c \in Callers : At(c, "asleep") <=> holder = c
  /\ holder \in Callers \cup {Nobody}
WorldTyped ==
  /\ now \in Moments /\ since \in Moments
  /\ redis \in BOOLEAN /\ faults \in 0..MaxFaults

(* Types; a caller keeps the time it has read only until the script, and   *)
(* the fallback lock is held by exactly the caller that sleeps.            *)
TypeOK == LimitersTyped /\ BudgetTyped /\ CallersTyped /\ WorldTyped

(* The slots given in a stretch of time.                                   *)
During(marks, first, length) == {m \in marks : m[1] \in first .. (first + length - 1)}

(* No limiter lets more through than it should: the windows at most their  *)
(* limit in any stretch of a second less the time a caller may take to get *)
(* to the script, the lock one request per Gap, even when attempts are     *)
(* cancelled and Redis comes and goes.                                     *)
RateKept ==
  \A t \in Moments :
    /\ \A k \in Windows : Cardinality(During(granted[k], t, Window - Delay)) <= Slots(k)
    /\ Cardinality(During(granted["fallback"], t, Gap)) <= 1

(* The callers with a reservation of day d that they have not used.        *)
Unspent(d) == {c \in Callers : At(c, "send") /\ caller[c].today = d}

(* Every request that is sent, also a repeated one, has a reservation of   *)
(* its own on the day it was counted, and no day has more than its limit.  *)
SentWithinBudget ==
  \A d \in Days : /\ sent[d] + Cardinality(Unspent(d)) <= used[d]
                  /\ used[d] <= DailyLimit

(* The reserve is for users: if one of them was refused for the day's      *)
(* budget, users have had at least the reserve on that day.                *)
ReserveForUsers == \A d \in refused : used[d] - bulkUsed[d] >= Reserve
=============================================================================
