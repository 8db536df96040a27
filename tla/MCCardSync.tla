----------------------------- MODULE MCCardSync -----------------------------
(***************************************************************************)
(* Small instances of CardSync.                                            *)
(***************************************************************************)
EXTENDS CardSync, TLC

CONSTANTS d1, d2, s1, s2, s3

MCOldRows == {d1, d2}
MCSaves == {s1, s2, s3}
Alike == Permutations(MCOldRows) \cup Permutations(MCSaves)
=============================================================================
