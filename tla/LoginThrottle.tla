--------------------------- MODULE LoginThrottle ----------------------------
(***************************************************************************)
(* The memory of failed logins (services/auth.py), for one host and name:  *)
(* others have entries of their own.  The lock is held over no await, so   *)
(* each function is one step.                                              *)
(***************************************************************************)
EXTENDS Integers, Sequences

CONSTANTS
  Window,       \* _LOGIN_FAILURE_WINDOW_SECONDS
  MaxFailures,  \* _LOGIN_MAX_FAILURES
  Block         \* _LOGIN_BLOCK_SECONDS

ASSUME ThrottleAssumption ==
  /\ {Window, MaxFailures, Block} \subseteq Nat \ {0}
  /\ Block >= Window

VARIABLES
  clock,        \* time.monotonic()
  failures,     \* _login_failures
  blockedUntil, \* _login_blocked_until, 0 for none
  recorded      \* history: failures since the last success or restart

throttle == <<failures, blockedUntil, recorded>>

(* How many of the oldest failures are popped before one is appended.      *)
Lapsed(times) ==
  CHOOSE n \in 0 .. Len(times) :
    /\ \A i \in 1 .. n : times[i] <= clock - Window
    /\ n < Len(times) => times[n + 1] > clock - Window

Recent(times) == SubSeq(times, Lapsed(times) + 1, Len(times))

ThrottleInit == failures = <<>> /\ blockedUntil = 0 /\ recorded = <<>>

(* is_login_attempt_allowed                                                *)
Allowed == blockedUntil <= clock

(* A bug: failures of long ago are not dropped.                            *)
CountAll(times) == Append(times, clock)

Counted(times) == Append(Recent(times), clock)

(* record_failed_login_attempt                                             *)
RecordFailure ==
  LET all == Counted(failures) IN
  /\ recorded' = Append(recorded, clock)
  /\ IF Len(all) >= MaxFailures
     THEN blockedUntil' = clock + Block /\ failures' = <<>>
     ELSE failures' = all /\ UNCHANGED blockedUntil

(* clear_failed_login_attempts, also a restart of the process.             *)
Forget == failures' = <<>> /\ blockedUntil' = 0 /\ recorded' = <<>>

(* Within the window there are MaxFailures failures only while logins are  *)
(* blocked, however many attempts were under way when the block began; and *)
(* a block follows on as many failures within a window of each other, the  *)
(* last of them no longer ago than Block (record_failed_login_attempt,     *)
(* is_login_attempt_allowed).                                              *)
ThrottleRight ==
  /\ Len(Recent(recorded)) >= MaxFailures => ~Allowed
  /\ ~Allowed => \E i \in MaxFailures .. Len(recorded) :
       /\ recorded[i] - recorded[i - MaxFailures + 1] < Window
       /\ blockedUntil <= recorded[i] + Block
=============================================================================
