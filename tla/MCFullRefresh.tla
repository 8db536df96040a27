--------------------------- MODULE MCFullRefresh ----------------------------
(* FullRefresh on small sets, for TLC. *)
EXTENDS FullRefresh, TLC

CONSTANTS w1, w2

TwoWorkers == {w1, w2}

OneWorker == {w1}

SuccessOrFailure == {"success", "failed"}

SkippedOrFailure == {"skipped", "failed"}

Symmetry == Permutations(TwoWorkers)

(* The second group has two organizations. *)
Weights == [g \in 1..N |-> g]
=============================================================================
