-------------------------- MODULE MCRequestLimits ---------------------------
(* RequestLimits on small sets, for TLC. *)
EXTENDS RequestLimits, TLC

CONSTANTS b1, u1, u2

TwoUsers == {u1, u2}
OneBulk == {b1}
OneBulkTwoUsers == {b1, u1, u2}

Symmetry == Permutations(TwoUsers)
=============================================================================
