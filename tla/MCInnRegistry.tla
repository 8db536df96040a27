---------------------------- MODULE MCInnRegistry ---------------------------
(***************************************************************************)
(* Small instances of InnRegistry.                                         *)
(***************************************************************************)
EXTENDS InnRegistry, TLC

CONSTANTS o1, o2, v1, v2, s1, s2, f1, d1

MCOrgs == {o1, o2}
MCInns == {v1, v2}
MCSaves == {s1, s2}
MCRefreshes == {f1}
MCDeletions == {d1}
Alike == Permutations(MCOrgs) \cup Permutations(MCInns) \cup Permutations(MCSaves)
=============================================================================
