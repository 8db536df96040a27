----------------------------- MODULE MCJobQueue -----------------------------
(* JobQueue on small sets, for TLC. *)
EXTENDS JobQueue, TLC

CONSTANTS j1, j2, k1, k2, u1, u2, w1, w2

OneJob == {j1}
TwoJobs == {j1, j2}
OneKey == {k1}
TwoKeys == {k1, k2}
OneUser == {u1}
TwoUsers == {u1, u2}
TwoWorkers == {w1, w2}

Symmetry == Permutations(TwoJobs) \cup Permutations(TwoKeys) \cup Permutations(TwoWorkers)
=============================================================================
