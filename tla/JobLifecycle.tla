---------------------------- MODULE JobLifecycle ----------------------------
(***************************************************************************)
(* What the Dadata job queue promises of a job, leaving out how: it is     *)
(* submitted when no open job has its key and its user is below the        *)
(* quota, it is started and given back any number of times, and it is      *)
(* completed once.  JobQueue implements it.                                *)
(***************************************************************************)
EXTENDS Naturals, FiniteSets

CONSTANTS Jobs, Keys, Users, NoKey, NoUser, MaxActive

VARIABLES
  phase,      \* how far a job has come
  key, user,  \* what it was submitted for, and by whom
  processed   \* times it was added to its parent's progress

vars == <<phase, key, user, processed>>

Open(j) == phase[j] \in {"queued", "running"}

Init ==
  /\ phase = [j \in Jobs |-> "absent"]
  /\ key = [j \in Jobs |-> NoKey]
  /\ user = [j \in Jobs |-> NoUser]
  /\ processed = [j \in Jobs |-> 0]

Submit(j, k, u) ==
  /\ phase[j] = "absent"
  /\ \A i \in Jobs : Open(i) => key[i] # k
  /\ u # NoUser => Cardinality({i \in Jobs : Open(i) /\ user[i] = u}) < MaxActive
  /\ phase' = [phase EXCEPT ![j] = "queued"]
  /\ key' = [key EXCEPT ![j] = k]
  /\ user' = [user EXCEPT ![j] = u]
  /\ UNCHANGED processed

Start(j) ==
  /\ phase[j] = "queued"
  /\ phase' = [phase EXCEPT ![j] = "running"]
  /\ UNCHANGED <<key, user, processed>>

GiveBack(j) ==
  /\ phase[j] = "running"
  /\ phase' = [phase EXCEPT ![j] = "queued"]
  /\ UNCHANGED <<key, user, processed>>

Complete(j) ==
  /\ phase[j] = "running"
  /\ phase' = [phase EXCEPT ![j] = "finished"]
  /\ processed' = [processed EXCEPT ![j] = @ + 1]
  /\ UNCHANGED <<key, user>>

Next == \E j \in Jobs :
          \/ \E k \in Keys, u \in Users \cup {NoUser} : Submit(j, k, u)
          \/ Start(j) \/ GiveBack(j) \/ Complete(j)

Spec == Init /\ [][Next]_vars
=============================================================================
