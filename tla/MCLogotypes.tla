---------------------------- MODULE MCLogotypes -----------------------------
(***************************************************************************)
(* Small instances of Logotypes.                                           *)
(***************************************************************************)
EXTENDS Logotypes, TLC

CONSTANTS o1, o2, l1, r1, r2, r3

MCOrgs == {o1, o2}
MCRequests == {r1, r2, r3}
Alike == Permutations(MCOrgs) \cup Permutations(MCRequests)
=============================================================================
