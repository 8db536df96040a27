----------------------------- MODULE MCDocuments ----------------------------
(***************************************************************************)
(* Small instances of Documents.                                           *)
(***************************************************************************)
EXTENDS Documents, TLC

CONSTANTS a, b, t1, t2, e1, e2, e3, x1

MCEdits == {e1, e2, e3}
MCOldDocs == {a, b}
MCTypes == {t1, t2}
Alike == Permutations(MCEdits) \cup Permutations(MCOldDocs) \cup Permutations(MCTypes)
=============================================================================
