--------------------------- MODULE CardSyncProofs ---------------------------
(***************************************************************************)
(* Proofs about CardSync, for any rows, persons, study fields and saves.   *)
(***************************************************************************)
EXTENDS CardSync, FiniteSetTheorems, TLAPS

Running(n) == n.at \in {"write", "prune", "commit"}

(* The foreign key, seen from a save that has written: the person it adds  *)
(* a contact to is there, and nobody refers to the persons it deletes.     *)
ForeignKeys ==
  /\ \A s \in Saves : Past(s, {"prune", "commit"}) => tx[s].to \in ent \cup {s, Nil}
  /\ \A s \in Saves : At(s, "commit") => \A e \in Pruned(s) : Unlinked(s, e)

(* What is named after a save is there only once the save has committed.   *)
Named ==
  /\ \A s \in Saves : before[s] \subseteq Over
  /\ \A s \in Saves \ Over : row[s] = Nil /\ s \notin ent
  /\ \A s \in Saves \ Over, q \in Saves : s \notin tx[q].seen.ent /\ tx[q].seen.row[s] = Nil
  /\ \A c \in study : c.by \in Over \cup {Old}
  /\ town \subseteq Over

(* How far the tables may have moved away from the snapshot of a save that *)
(* began when those in b had committed.                                    *)
Sees(n, b) ==
  /\ n.keep \subseteq Shown(n.seen.row)
  /\ \A d \in Rows : n.seen.row[d] \in n.seen.ent \cup {Nil}
  /\ \A d \in Rows : n.seen.row[d] # Nil =>
       \/ row[d] = n.seen.row[d]
       \/ row[d] = Nil /\ \E q \in Over \ b : n.seen.row[d] \in tx[q].touched
  /\ \A c \in study : c \in n.seen.study \/ c.by \in Over \ b
  /\ \A q \in town : q \in n.seen.town \/ q \in Over \ b
  /\ Over \subseteq b => n.seen = [ent |-> ent, row |-> row, study |-> study, town |-> town]

SnapshotsTell == \A s \in Saves : Running(tx[s]) => Sees(tx[s], before[s])

IInv == TypeOK /\ ForeignKeys /\ Named /\ SnapshotsTell /\ StrayOnlyByOverlap

LEMMA Distinct ==
  /\ Nil \notin Entities /\ Nil \notin Saves /\ Old \notin Saves
  /\ \A s \in Saves : s \in Rows /\ s \in Entities
  BY CardAssumption DEF Rows, Entities

LEMMA IdleTyped ==
  Idle \in TxRec /\ Idle.at = "idle" /\ Idle.seen = Nothing /\ Nothing.ent = {}
<1>1. Nothing \in SeenRec BY DEF Nothing, SeenRec
<1> QED BY <1>1 DEF Idle, TxRec, Points, Nothing

-----------------------------------------------------------------------------
(* A step of a save that is no commit changes no table; n is what it       *)
(* becomes.                                                                *)
LEMMA StepKeeps ==
  ASSUME IInv, NEW s \in Saves, NEW n \in TxRec, tx' = [tx EXCEPT ![s] = n],
         UNCHANGED tables, before' \in [Saves -> SUBSET Saves], before'[s] \subseteq Over,
         \A q \in Others(s) : before'[q] = before[q],
         s \notin Over, n.at # "done",
         Running(n) => Sees(n, before'[s]),
         \A p \in Saves \ Over : p \notin n.seen.ent /\ n.seen.row[p] = Nil,
         n.at \in {"prune", "commit"} => n.to \in ent \cup {s, Nil},
         n.at = "commit" => \A e \in Pruned(s)' : Unlinked(s, e)',
         n.at \in {"prune", "commit"} /\ tx[s].at \notin {"prune", "commit"} =>
           \A q \in Others(s) : ~Removed(q, n.to),
         n.at \in {"prune", "commit"} => n.to = tx[s].to
  PROVE  IInv'
<1>1. tx' \in [Saves -> TxRec] /\ tx'[s] = n /\ \A q \in Others(s) : tx'[q] = tx[q]
  BY DEF IInv, TypeOK, Others
<1>2. TypeOK' BY <1>1 DEF IInv, TypeOK, tables
<1>3. Over' = Over /\ \A q \in Over : tx'[q] = tx[q] /\ before'[q] = before[q]
  BY <1>1 DEF Over, At, Others
<1>4. ForeignKeys'
  <2>1. ASSUME NEW q \in Saves, Past(q, {"prune", "commit"})'
        PROVE  tx'[q].to \in ent' \cup {q, Nil}
    BY <1>1, <2>1 DEF IInv, ForeignKeys, Past, Others, tables
  <2>2. ASSUME NEW q \in Others(s), At(q, "commit")', NEW e \in Pruned(q)'
        PROVE  Unlinked(q, e)'
    <3>1. At(q, "commit") /\ Pruned(q)' = Pruned(q) /\ Dropped(q)' = Dropped(q)
      BY <1>1, <2>2 DEF At, Pruned, Dropped
    <3>2. Unlinked(q, e) BY <2>2, <3>1 DEF IInv, ForeignKeys, Others
    <3>3. ~Added(s, e)'
      <4> SUFFICES ASSUME n.at \in {"prune", "commit"}, n.to = e PROVE FALSE
        BY <1>1 DEF Added, Past
      <4>1. Removed(q, e) BY <2>2, <3>1 DEF Removed
      <4>2. tx[s].at \in {"prune", "commit"} BY <4>1
      <4>3. Added(s, e) BY <4>2 DEF Added, Past
      <4> QED BY <2>2, <3>2, <4>3 DEF Unlinked, Others
    <3>4. \A p \in Others(q) : ~Added(p, e)'
      BY <1>1, <3>2, <3>3 DEF Unlinked, Added, Past, Others
    <3> QED BY <3>1, <3>2, <3>4 DEF Unlinked, tables
  <2>3. \A q \in Saves : At(q, "commit")' => \A e \in Pruned(q)' : Unlinked(q, e)'
    BY <1>1, <2>2 DEF At, Others
  <2> QED BY <2>1, <2>3 DEF ForeignKeys
<1>5. Named'
  <2>1. \A q \in Saves : before'[q] \subseteq Over' BY <1>3 DEF IInv, Named, Others
  <2>2. \A p \in Saves \ Over', q \in Saves : p \notin tx'[q].seen.ent /\ tx'[q].seen.row[p] = Nil
    BY <1>1, <1>3 DEF IInv, Named, Others
  <2> QED BY <1>3, <2>1, <2>2 DEF IInv, Named, tables
<1>6. SnapshotsTell'
  <2> SUFFICES ASSUME NEW q \in Saves, Running(tx'[q]) PROVE Sees(tx[q], before[q])'
    BY DEF SnapshotsTell
  <2>1. Sees(tx'[q], before'[q])
    BY <1>1 DEF IInv, SnapshotsTell, Others
  <2>2. \A p \in Over : tx'[p].touched = tx[p].touched BY <1>3
  <2> QED BY <1>3, <2>1, <2>2 DEF Sees, tables
<1>7. StrayOnlyByOverlap'
  <2>1. \A q, p \in Over : Overlapped(q, p) => Overlapped(q, p)'
    BY <1>3 DEF Overlapped
  <2>2. ASSUME NEW e \in ent, \A d \in Rows : row[d] # e
        PROVE  \E q, p \in Over : Overlapped(q, p)' /\ e \in tx'[q].touched \cap tx'[p].touched
    BY <1>3, <2>1, <2>2 DEF IInv, StrayOnlyByOverlap
  <2>3. ASSUME NEW c \in study, NEW o \in study, c # o, c.field = o.field
        PROVE  Overlapped(c.by, o.by)'
    <3>1. Overlapped(c.by, o.by) BY <2>3 DEF IInv, StrayOnlyByOverlap
    <3>2. c.by \in Over /\ o.by \in Over BY <3>1, Distinct DEF IInv, Named, Overlapped
    <3> QED BY <2>1, <3>1, <3>2
  <2>4. ASSUME NEW q \in town, NEW p \in town, q # p PROVE Overlapped(q, p)'
    BY <2>1, <2>4 DEF IInv, StrayOnlyByOverlap, Named
  <2> QED BY <1>3, <2>2, <2>3, <2>4 DEF StrayOnlyByOverlap, tables
<1> QED BY <1>2, <1>4, <1>5, <1>6, <1>7 DEF IInv

LEMMA BeginKeeps ==
  ASSUME IInv, NEW s \in Saves, NEW keep \in SUBSET Shown(row), NEW edited \in {{}, keep},
         NEW to \in ent \cup {s, Nil}, Begin(s, keep, edited, to)
  PROVE  IInv'
<1> DEFINE seen == [ent |-> ent, row |-> row, study |-> study, town |-> town]
           n == [Idle EXCEPT !.at = "write", !.keep = keep, !.edited = edited, !.to = to,
                             !.seen = seen]
<1>1. Shown(row) \subseteq Rows BY DEF Shown
<1>2. seen \in SeenRec BY DEF IInv, TypeOK, SeenRec
<1>3. n \in TxRec BY <1>1, <1>2, IdleTyped, Distinct DEF TxRec, Points, IInv, TypeOK
<1>4. n.at = "write" /\ n.keep = keep /\ n.seen = seen BY IdleTyped DEF Idle
<1>5. tx' = [tx EXCEPT ![s] = n] /\ At(s, "idle") /\ UNCHANGED tables BY DEF Begin
<1>6. /\ before' \in [Saves -> SUBSET Saves] /\ before'[s] = Over
      /\ \A q \in Others(s) : before'[q] = before[q]
  BY DEF Begin, IInv, TypeOK, Over, Others
<1>7. s \notin Over BY <1>5 DEF Over, At
<1> HIDE DEF n
<1>8. Sees(n, before'[s])
  <2>1. row[s] = Nil BY <1>7 DEF IInv, Named
  <2>2. \A d \in Rows : row[d] \in ent \cup {Nil} BY DEF IInv, TypeOK
  <2> QED BY <1>4, <1>6, <2>1, <2>2 DEF Sees
<1>9. \A p \in Saves \ Over : p \notin n.seen.ent /\ n.seen.row[p] = Nil BY <1>4 DEF IInv, Named
<1> QED BY <1>3, <1>4, <1>5, <1>6, <1>7, <1>8, <1>9, StepKeeps

LEMMA WriteKeeps == ASSUME IInv, NEW s \in Saves, Write(s) PROVE IInv'
<1> DEFINE n == [tx[s] EXCEPT !.at = "prune"]
<1>1. tx[s] \in TxRec /\ At(s, "write") /\ UNCHANGED <<tables, before>>
  BY DEF IInv, TypeOK, Write
<1>2. /\ n \in TxRec /\ n.at = "prune" /\ n.to = tx[s].to /\ n.seen = tx[s].seen
      /\ n.keep = tx[s].keep
  BY <1>1 DEF TxRec, Points
<1>3. tx' = [tx EXCEPT ![s] = n] BY DEF Write
<1> HIDE DEF n
<1>4. s \notin Over /\ Running(tx[s]) BY <1>1 DEF Over, At, Running
<1>5. Sees(n, before'[s]) BY <1>1, <1>2, <1>4 DEF IInv, SnapshotsTell, Sees
<1>6. \A p \in Saves \ Over : p \notin n.seen.ent /\ n.seen.row[p] = Nil BY <1>2 DEF IInv, Named
<1>7. n.to \in ent \cup {s, Nil} BY <1>2 DEF Write
<1>8. ASSUME NEW q \in Others(s) PROVE ~Removed(q, n.to)
  <2>1. CASE n.to \in {s, Nil}
    <3>1. tx[q].seen.ent \subseteq Entities BY DEF IInv, TypeOK, TxRec, SeenRec, Others
    <3>2. s \notin tx[q].seen.ent /\ Nil \notin tx[q].seen.ent
      BY <1>4, <3>1, Distinct DEF IInv, Named, Others
    <3> QED BY <2>1, <3>2 DEF Removed, Pruned
  <2>2. CASE n.to \notin {s, Nil} BY <1>2, <2>2 DEF Write
  <2> QED BY <2>1, <2>2
<1>9. /\ before' \in [Saves -> SUBSET Saves] /\ before'[s] \subseteq Over
      /\ \A q \in Others(s) : before'[q] = before[q]
  BY <1>1 DEF IInv, TypeOK, Named
<1> QED BY <1>1, <1>2, <1>3, <1>4, <1>5, <1>6, <1>7, <1>8, <1>9, StepKeeps, ZenonT(60)

LEMMA PruneKeeps == ASSUME IInv, NEW s \in Saves, Prune(s) PROVE IInv'
<1> DEFINE n == [tx[s] EXCEPT !.at = "commit"]
<1>1. tx[s] \in TxRec /\ At(s, "prune") /\ UNCHANGED <<tables, before>>
  BY DEF IInv, TypeOK, Prune
<1>2. /\ n \in TxRec /\ n.at = "commit" /\ n.to = tx[s].to /\ n.seen = tx[s].seen
      /\ n.keep = tx[s].keep
  BY <1>1 DEF TxRec, Points
<1>3. tx' = [tx EXCEPT ![s] = n] BY DEF Prune
<1> HIDE DEF n
<1>4. s \notin Over /\ Running(tx[s]) /\ Past(s, {"prune", "commit"})
  BY <1>1 DEF Over, At, Running, Past
<1>5. Sees(n, before'[s]) BY <1>1, <1>2, <1>4 DEF IInv, SnapshotsTell, Sees
<1>6. \A p \in Saves \ Over : p \notin n.seen.ent /\ n.seen.row[p] = Nil BY <1>2 DEF IInv, Named
<1>7. n.to \in ent \cup {s, Nil} BY <1>2, <1>4 DEF IInv, ForeignKeys
<1>8. tx'[s] = n /\ \A q \in Others(s) : tx'[q] = tx[q]
  BY <1>3 DEF IInv, TypeOK, Others
<1>9. ASSUME NEW e \in Pruned(s)' PROVE Unlinked(s, e)'
  <2>1. Pruned(s)' = Pruned(s) /\ Dropped(s)' = Dropped(s)
    BY <1>2, <1>8 DEF Pruned, Dropped
  <2>2. Unlinked(s, e) BY <1>9, <2>1 DEF Prune
  <2> QED BY <1>1, <1>8, <2>1, <2>2 DEF Unlinked, Added, Past, Others, tables
<1>10. /\ before' \in [Saves -> SUBSET Saves] /\ before'[s] \subseteq Over
       /\ \A q \in Others(s) : before'[q] = before[q]
  BY <1>1 DEF IInv, TypeOK, Named
<1>11. tx[s].at \in {"prune", "commit"} BY <1>1 DEF At
<1> QED BY <1>1, <1>2, <1>3, <1>4, <1>5, <1>6, <1>7, <1>9, <1>10, <1>11, StepKeeps, ZenonT(60)

LEMMA FailKeeps == ASSUME IInv, NEW s \in Saves, Fail(s) PROVE IInv'
<1>1. /\ before' \in [Saves -> SUBSET Saves] /\ before'[s] = {}
      /\ \A q \in Others(s) : before'[q] = before[q]
  BY DEF Fail, IInv, TypeOK, Others
<1>2. s \notin Over /\ tx' = [tx EXCEPT ![s] = Idle] /\ UNCHANGED tables
  BY DEF Fail, Over, At
<1>3. ~Running(Idle) BY IdleTyped DEF Running
<1>4. \A p \in Saves : p \notin Idle.seen.ent /\ Idle.seen.row[p] = Nil
  BY IdleTyped, Distinct DEF Nothing
<1> QED BY <1>1, <1>2, <1>3, <1>4, IdleTyped, StepKeeps

-----------------------------------------------------------------------------
LEMMA CommitKeeps ==
  ASSUME IInv, NEW s \in Saves, NEW chosen \in SUBSET Fields, NEW named \in BOOLEAN,
         NEW pick \in OneOfEach(tx[s].seen.study), Commit(s, chosen, pick, named)
  PROVE  IInv'
<1> DEFINE n == [Idle EXCEPT !.at = "done", !.chosen = chosen,
                             !.touched = {tx[s].seen.row[d] : d \in Dropped(s)}]
           b == before[s]
<1>1. tx[s] \in TxRec /\ At(s, "commit") /\ s \notin Over /\ before' = before /\ Running(tx[s])
  BY DEF IInv, TypeOK, Commit, Over, At, Running
<1>2. /\ row' = [d \in Rows |-> IF d = s THEN tx[s].to ELSE
                                IF d \in Dropped(s) THEN Nil ELSE row[d]]
      /\ ent' = (ent \cup ({tx[s].to} \cap {s})) \ Pruned(s)
      /\ study' = (study \ {c \in pick : c.field \notin chosen}) \cup New(s, chosen)
      /\ town' = town \cup (IF named /\ tx[s].seen.town = {} THEN {s} ELSE {})
  BY DEF Commit
<1>3. Dropped(s) \subseteq Rows /\ \A d \in Dropped(s) : tx[s].seen.row[d] \in Entities
  BY <1>1 DEF Dropped, Shown, TxRec, SeenRec
<1>4. /\ n \in TxRec /\ n.at = "done" /\ n.seen = Nothing
      /\ n.touched = {tx[s].seen.row[d] : d \in Dropped(s)}
  BY <1>3, IdleTyped DEF TxRec, Points, Idle
<1>5. tx' = [tx EXCEPT ![s] = n] BY DEF Commit
<1> HIDE DEF n
<1>6. tx' \in [Saves -> TxRec] /\ tx'[s] = n /\ \A q \in Others(s) : tx'[q] = tx[q]
  BY <1>4, <1>5 DEF IInv, TypeOK, Others
<1>7. Over' = Over \cup {s} /\ \A q \in Over : tx'[q] = tx[q]
  BY <1>1, <1>4, <1>6 DEF Over, At, Others
<1>8. b \subseteq Over /\ \A q \in Saves : before[q] \subseteq Over BY DEF IInv, Named
<1>9. Sees(tx[s], b) BY <1>1 DEF IInv, SnapshotsTell
<1>10. tx[s].to \in ent \cup {s, Nil} /\ \A e \in Pruned(s) : Unlinked(s, e)
  BY <1>1 DEF IInv, ForeignKeys, Past, At
<1>11. tx[s].to \notin Pruned(s) /\ Pruned(s) \subseteq Entities
  BY <1>1 DEF Pruned, TxRec, SeenRec
<1>12. \A d \in Rows : row[d] \in ent \cup {Nil} BY DEF IInv, TypeOK
<1>13. TypeOK'
  <2>1. ASSUME NEW d \in Rows PROVE row'[d] \in ent' \cup {Nil}
    <3>1. CASE d = s BY <1>2, <1>10, <1>11, <3>1
    <3>2. CASE d # s /\ d \notin Dropped(s)
      <4>1. row'[d] = row[d] BY <1>2, <3>2
      <4>2. row[d] \notin Pruned(s) BY <1>10, <3>2 DEF Unlinked
      <4> QED BY <1>2, <1>12, <4>1, <4>2
    <3> QED BY <1>2, <3>1, <3>2
  <2>2. ent' \subseteq Entities BY <1>2, Distinct DEF IInv, TypeOK
  <2>3. row' \in [Rows -> Entities \cup {Nil}] BY <1>2, <2>1, <2>2
  <2>4. New(s, chosen) \subseteq StudyRec BY DEF New, StudyRec
  <2>5. study' \subseteq StudyRec /\ town' \subseteq Saves
    BY <1>2, <2>4 DEF IInv, TypeOK
  <2> QED BY <1>1, <1>6, <2>1, <2>2, <2>3, <2>5 DEF IInv, TypeOK
<1>14. ForeignKeys'
  <2>1. ASSUME NEW q \in Saves, Past(q, {"prune", "commit"})'
        PROVE  tx'[q].to \in ent' \cup {q, Nil}
    <3>1. q \in Others(s) /\ tx'[q] = tx[q] /\ Past(q, {"prune", "commit"})
      BY <1>4, <1>6, <2>1 DEF Past, Others
    <3>2. Added(q, tx[q].to) BY <3>1 DEF Added, Past
    <3>3. tx[q].to \notin Pruned(s) BY <1>10, <3>1, <3>2 DEF Unlinked
    <3> QED BY <1>2, <3>1, <3>3 DEF IInv, ForeignKeys
  <2>2. ASSUME NEW q \in Saves, At(q, "commit")', NEW e \in Pruned(q)'
        PROVE  Unlinked(q, e)'
    <3>1. q \in Others(s) /\ tx'[q] = tx[q] /\ At(q, "commit")
      BY <1>4, <1>6, <2>2 DEF At, Others
    <3>2. Pruned(q)' = Pruned(q) /\ Dropped(q)' = Dropped(q)
      BY <3>1 DEF Pruned, Dropped
    <3>3. Unlinked(q, e) BY <2>2, <3>1, <3>2 DEF IInv, ForeignKeys
    <3>4. tx[s].to # e
      BY <1>1, <3>1, <3>3 DEF Unlinked, Added, Past, At, Others
    <3>5. e # Nil
      BY <2>2, <3>1, <3>2, Distinct DEF Pruned, IInv, TypeOK, TxRec, SeenRec
    <3>6. \A d \in Rows \ Dropped(q) : row'[d] # e BY <1>2, <3>3, <3>4, <3>5 DEF Unlinked
    <3>7. \A p \in Others(q) : ~Added(p, e)'
      <4> SUFFICES ASSUME NEW p \in Others(q), Added(p, e)' PROVE FALSE OBVIOUS
      <4>1. p \in Others(s) BY <1>4, <1>6 DEF Added, Past, Others
      <4>2. Added(p, e) BY <1>6, <4>1 DEF Added, Past
      <4> QED BY <3>3, <4>2 DEF Unlinked
    <3> QED BY <3>2, <3>6, <3>7 DEF Unlinked
  <2> QED BY <2>1, <2>2 DEF ForeignKeys
<1>15. Named'
  <2>1. \A q \in Saves : before'[q] \subseteq Over' BY <1>1, <1>7, <1>8
  <2>2. \A p \in Saves \ Over' : row'[p] = Nil /\ p \notin ent'
    BY <1>2, <1>7, Distinct DEF IInv, Named
  <2>3. \A p \in Saves \ Over', q \in Saves : p \notin tx'[q].seen.ent /\ tx'[q].seen.row[p] = Nil
    BY <1>4, <1>6, <1>7, Distinct DEF IInv, Named, Others, Nothing
  <2>4. \A c \in New(s, chosen) : c.by = s BY DEF New
  <2>5. \A c \in study' : c.by \in Over' \cup {Old} BY <1>2, <1>7, <2>4 DEF IInv, Named
  <2>6. town' \subseteq Over' BY <1>2, <1>7 DEF IInv, Named
  <2> QED BY <2>1, <2>2, <2>3, <2>5, <2>6 DEF Named
<1>16. SnapshotsTell'
  <2> SUFFICES ASSUME NEW q \in Saves, Running(tx[q])' PROVE Sees(tx[q], before[q])'
    BY DEF SnapshotsTell
  <2>1. q \in Others(s) /\ tx'[q] = tx[q] /\ before'[q] = before[q]
    BY <1>1, <1>4, <1>6 DEF Running, Others
  <2>2. Sees(tx[q], before[q]) BY <2>1 DEF IInv, SnapshotsTell, Running
  <2>3. s \in Over' \ before[q] /\ Over \ before[q] \subseteq Over' \ before[q]
    BY <1>1, <1>7, <1>8
  <2>4. tx[q].seen.row[s] = Nil BY <1>1, <2>1 DEF IInv, Named
  <2>5. ASSUME NEW d \in Rows, tx[q].seen.row[d] # Nil
        PROVE  \/ row'[d] = tx[q].seen.row[d]
               \/ /\ row'[d] = Nil
                  /\ \E p \in Over' \ before[q] : tx[q].seen.row[d] \in tx'[p].touched
    <3>1. d # s BY <2>4, <2>5
    <3>2. CASE d \notin Dropped(s)
      <4>1. row'[d] = row[d] BY <1>2, <3>1, <3>2
      <4> QED BY <1>7, <2>2, <2>3, <2>5, <4>1 DEF Sees
    <3>3. CASE d \in Dropped(s)
      <4>1. row'[d] = Nil BY <1>2, <3>1, <3>3
      <4>2. CASE row[d] = tx[q].seen.row[d]
        <5>1. tx[s].seen.row[d] # Nil BY <1>3, <3>3, Distinct
        <5>2. tx[s].seen.row[d] = row[d] BY <1>9, <2>5, <4>2, <5>1 DEF Sees
        <5>3. tx[q].seen.row[d] \in tx'[s].touched BY <1>4, <1>6, <3>3, <4>2, <5>2
        <5> QED BY <2>3, <4>1, <5>3
      <4>3. CASE row[d] # tx[q].seen.row[d]
        <5>1. PICK p \in Over \ before[q] : tx[q].seen.row[d] \in tx[p].touched
          BY <2>2, <2>5, <4>3 DEF Sees
        <5> QED BY <1>7, <2>3, <4>1, <5>1
      <4> QED BY <4>2, <4>3
    <3> QED BY <3>2, <3>3
  <2>6. \A c \in New(s, chosen) : c.by = s BY DEF New
  <2>7. \A c \in study' : c \in tx[q].seen.study \/ c.by \in Over' \ before[q]
    BY <1>2, <2>2, <2>3, <2>6 DEF Sees
  <2>8. \A p \in town' : p \in tx[q].seen.town \/ p \in Over' \ before[q]
    BY <1>2, <2>2, <2>3 DEF Sees
  <2> QED BY <2>1, <2>2, <2>3, <2>5, <2>7, <2>8 DEF Sees
<1>17. ASSUME NEW q \in Over \ b PROVE Overlapped(q, s)' /\ Overlapped(s, q)'
  BY <1>1, <1>8 DEF Overlapped, Over
<1>18. \A q, p \in Saves : Overlapped(q, p) => Overlapped(q, p)'
  BY <1>1 DEF Overlapped
<1>19. ASSUME NEW e \in ent', \A d \in Rows : row'[d] # e
       PROVE  \E q, p \in Over' : Overlapped(q, p)' /\ e \in tx'[q].touched \cap tx'[p].touched
  <2>0. row'[s] = tx[s].to BY <1>2, Distinct
  <2>1. e # s /\ e \in ent /\ e \notin Pruned(s) /\ tx[s].to # e
    BY <1>1, <1>2, <1>19, <2>0, Distinct DEF IInv, Named
  <2>2. CASE \A d \in Rows : row[d] # e
    <3>1. PICK q \in Over, p \in Over :
            Overlapped(q, p) /\ e \in tx[q].touched \cap tx[p].touched
      BY <2>1, <2>2 DEF IInv, StrayOnlyByOverlap
    <3> QED BY <1>7, <1>18, <3>1 DEF Over
  <2>3. ASSUME NEW d \in Rows, row[d] = e
        PROVE  \E q, p \in Over' : Overlapped(q, p)' /\ e \in tx'[q].touched \cap tx'[p].touched
    <3>1. e # Nil BY <2>1, Distinct DEF IInv, TypeOK
    <3>2. d # s BY <1>1, <2>3, <3>1 DEF IInv, Named
    <3>3. d \in Dropped(s) BY <1>2, <1>19, <2>3, <3>2
    <3>4. tx[s].seen.row[d] = e
      <4>1. tx[s].seen.row[d] # Nil BY <1>3, <3>3, Distinct
      <4> QED BY <1>9, <2>3, <3>1, <4>1 DEF Sees
    <3>5. e \in tx'[s].touched BY <1>4, <1>6, <3>3, <3>4
    <3>6. e \in tx[s].seen.ent BY <1>9, <3>1, <3>4 DEF Sees
    <3>7. PICK k \in tx[s].keep : tx[s].seen.row[k] = e BY <2>1, <3>6 DEF Pruned
    <3>8. k \in Rows /\ k \notin Dropped(s) /\ k # s
      <4>1. tx[s].keep \subseteq Rows BY <1>1 DEF TxRec
      <4>2. tx[s].seen.row[s] = Nil BY <1>1 DEF IInv, Named
      <4> QED BY <3>1, <3>7, <4>1, <4>2 DEF Dropped
    <3>9. row[k] # e BY <1>2, <1>19, <3>8
    <3>10. PICK q \in Over \ b : e \in tx[q].touched
      BY <1>9, <3>1, <3>7, <3>8, <3>9 DEF Sees
    <3> QED BY <1>7, <1>17, <3>5, <3>10
  <2> QED BY <2>2, <2>3
<1>20. ASSUME NEW c \in study', NEW o \in study', c # o, c.field = o.field
       PROVE  Overlapped(c.by, o.by)'
  <2>1. \A x \in New(s, chosen) : /\ x = [field |-> x.field, by |-> s]
                                  /\ x.by = s /\ \A y \in tx[s].seen.study : y.field # x.field
    BY DEF New
  <2>2. ASSUME NEW x \in New(s, chosen), NEW y \in study, x.field = y.field
        PROVE  y.by \in Over \ b
    BY <1>9, <2>1, <2>2 DEF Sees
  <2>3. CASE c \in New(s, chosen) /\ o \in New(s, chosen) BY <1>20, <2>1, <2>3
  <2>4. CASE c \in New(s, chosen) /\ o \notin New(s, chosen)
    <3>1. o \in study BY <1>2, <2>4
    <3> QED BY <1>17, <1>20, <2>1, <2>2, <2>4, <3>1
  <2>5. CASE c \notin New(s, chosen) /\ o \in New(s, chosen)
    <3>1. c \in study BY <1>2, <2>5
    <3> QED BY <1>17, <1>20, <2>1, <2>2, <2>5, <3>1
  <2>6. CASE c \notin New(s, chosen) /\ o \notin New(s, chosen)
    <3>1. c \in study /\ o \in study BY <1>2, <2>6
    <3>2. Overlapped(c.by, o.by) BY <1>20, <3>1 DEF IInv, StrayOnlyByOverlap
    <3> QED BY <1>18, <3>2 DEF Overlapped
  <2> QED BY <2>3, <2>4, <2>5, <2>6
<1>21. ASSUME NEW q \in town', NEW p \in town', q # p PROVE Overlapped(q, p)'
  <2>1. CASE q \in town /\ p \in town
    BY <1>18, <1>21, <2>1 DEF IInv, StrayOnlyByOverlap, TypeOK
  <2>2. CASE q \notin town \/ p \notin town
    <3>1. tx[s].seen.town = {} /\ town' = town \cup {s} BY <1>2, <2>2
    <3>2. town \subseteq Over \ b BY <1>9, <3>1 DEF Sees
    <3> QED BY <1>17, <1>21, <2>2, <3>1, <3>2
  <2> QED BY <2>1, <2>2
<1>22. StrayOnlyByOverlap' BY <1>19, <1>20, <1>21 DEF StrayOnlyByOverlap
<1> QED BY <1>13, <1>14, <1>15, <1>16, <1>22 DEF IInv

-----------------------------------------------------------------------------
LEMMA InitOK == Init => IInv
<1> SUFFICES ASSUME Init PROVE IInv OBVIOUS
<1>1. OldEntities \subseteq Entities /\ OldEntities \cap Saves = {}
  BY CardAssumption DEF Entities
<1>2. \A s \in Saves : tx[s] = Idle BY DEF Init
<1>3. Over = {} BY <1>2, IdleTyped DEF Over, At
<1>4. TypeOK BY <1>1, IdleTyped DEF Init, TypeOK, StudyRec
<1>5. ForeignKeys BY <1>2, IdleTyped DEF ForeignKeys, Past, At
<1>6. Named
  <2>1. \A s \in Saves : row[s] = Nil BY Distinct DEF Init
  <2>2. \A s \in Saves : s \notin ent BY <1>1 DEF Init
  <2>3. \A s, q \in Saves : s \notin tx[q].seen.ent /\ tx[q].seen.row[s] = Nil
    BY <1>2, IdleTyped, Distinct DEF Nothing
  <2>4. \A c \in study : c.by = Old BY DEF Init
  <2> QED BY <1>3, <2>1, <2>2, <2>3, <2>4 DEF Named, Init
<1>7. SnapshotsTell BY <1>2, IdleTyped DEF SnapshotsTell, Running
<1>8. StrayOnlyByOverlap
  <2>1. \A e \in ent : \E d \in Rows : row[d] = e BY DEF Init
  <2>2. \A c, o \in study : c.field = o.field => c = o BY DEF Init
  <2>3. town = {} BY DEF Init
  <2> QED BY <2>1, <2>2, <2>3 DEF StrayOnlyByOverlap
<1> QED BY <1>4, <1>5, <1>6, <1>7, <1>8 DEF IInv

LEMMA NextOK == IInv /\ [Next]_vars => IInv'
<1> SUFFICES ASSUME IInv, [Next]_vars PROVE IInv' OBVIOUS
<1>1. CASE UNCHANGED vars
  BY <1>1 DEF vars, IInv, TypeOK, ForeignKeys, Named, SnapshotsTell, StrayOnlyByOverlap, Sees,
              Running, Past, At, Over, Pruned, Dropped, Unlinked, Added, Overlapped, Shown
<1>2. ASSUME NEW s \in Saves, Save(s) PROVE IInv'
  BY <1>2, BeginKeeps, WriteKeeps, PruneKeeps, CommitKeeps, FailKeeps DEF Save
<1> QED BY <1>1, <1>2 DEF Next

(* Types, and every contact belongs to a person who is there.              *)
THEOREM TypeCorrect == Spec => []TypeOK
<1>1. IInv => TypeOK BY DEF IInv
<1> QED BY <1>1, InitOK, NextOK, PTL DEF Spec

(* Persons without contacts, double study fields and double settlements    *)
(* come from saves that overlapped, for any number of saves.               *)
THEOREM StraysByOverlap == Spec => []StrayOnlyByOverlap
<1>1. IInv => StrayOnlyByOverlap BY DEF IInv
<1> QED BY <1>1, InitOK, NextOK, PTL DEF Spec

(* Of two rows of one field, OneOfEach leaves one.                         *)
LEMMA LeftIsDouble ==
  ASSUME NEW rows \in SUBSET StudyRec, NEW pick \in OneOfEach(rows), NEW c \in rows \ pick
  PROVE  c.field \in Twice(rows)
<1> DEFINE all == {x \in rows : x.field = c.field}
           kept == {x \in pick : x.field = c.field}
<1>1. Cardinality(kept) = 1 /\ pick \subseteq rows BY DEF OneOfEach
<1>2. IsFiniteSet(all)
  <2> DEFINE made == {[field |-> c.field, by |-> s] : s \in Saves \cup {Old}}
  <2>1. IsFiniteSet(Saves \cup {Old}) BY CardAssumption, FS_AddElement
  <2>2. IsFiniteSet(made)
    <3> DEFINE f == [s \in Saves \cup {Old} |-> [field |-> c.field, by |-> s]]
    <3>1. f \in Surjection(Saves \cup {Old}, made) BY DEF Surjection
    <3> QED BY <2>1, <3>1, FS_Surjection
  <2>3. all \subseteq made BY DEF StudyRec
  <2> QED BY <2>2, <2>3, FS_Subset
<1>3. PICK k : kept = {k} BY <1>1, <1>2, FS_Singleton, FS_Subset
<1>4. {c, k} \subseteq all /\ c # k BY <1>1, <1>3
<1>5. IsFiniteSet({k}) /\ Cardinality({k}) = 1 BY FS_Singleton
<1>6. Cardinality({c, k}) = 2
  <2>1. {c, k} = {k} \cup {c} BY Zenon
  <2>2. Cardinality({k} \cup {c}) = IF c \in {k} THEN Cardinality({k}) ELSE Cardinality({k}) + 1
    <3> HIDE DEF all, kept
    <3> QED BY <1>5, FS_AddElement, Zenon
  <2>3. c \notin {k} BY <1>4
  <2>4. Cardinality({k} \cup {c}) = 2 BY <1>5, <2>2, <2>3, SMT
  <2> QED BY <2>1, <2>4, Zenon
<1>7. Cardinality({c, k}) <= Cardinality(all) BY <1>2, <1>4, FS_Subset
<1>8. Cardinality(all) \in Nat BY <1>2, FS_CardinalityType
<1>9. c.field \in Fields BY DEF StudyRec
<1>10. Cardinality(all) > 1 BY <1>6, <1>7, <1>8
<1> QED BY <1>9, <1>10 DEF Twice

(* A save nobody overlaps leaves exactly its payload, whatever overlapping *)
(* saves have left behind before.                                          *)
THEOREM LoneSavesExact == Spec => LoneSaveExact
<1> DEFINE Exact(s) == /\ Shown(row') = tx[s].keep \cup (IF tx[s].to = Nil THEN {} ELSE {s})
                       /\ \A e \in ent' : Card'[e] # {}
                       /\ tx'[s].chosen \subseteq Chosen(study')
                       /\ Chosen(study') \ tx'[s].chosen \subseteq Twice(study)
           AllExact == \A s \in Saves :
                         At(s, "commit") /\ At(s, "done")' /\ Over \subseteq before[s] => Exact(s)
<1>1. ASSUME IInv, [Next]_vars, NEW s \in Saves,
             At(s, "commit"), At(s, "done")', Over \subseteq before[s]
      PROVE  Exact(s)
  <2>1. tx \in [Saves -> TxRec] BY <1>1 DEF IInv, TypeOK
  <2>2. PICK chosen \in SUBSET Fields, named \in BOOLEAN, pick \in OneOfEach(tx[s].seen.study) :
          Commit(s, chosen, pick, named)
    <3>1. tx'[s] # tx[s] BY <1>1 DEF At
    <3>2. PICK q \in Saves : Save(q) BY <1>1, <3>1 DEF Next, vars
    <3>3. tx' = [tx EXCEPT ![q] = tx'[q]]
      BY <2>1, <3>2 DEF Save, Begin, Write, Prune, Commit, Fail
    <3>4. q = s BY <3>1, <3>3, <2>1
    <3>5. ~Write(s) /\ ~Prune(s) BY <1>1 DEF At, Write, Prune
    <3>6. ~Fail(s) BY <1>1, <2>1, IdleTyped DEF At, Fail
    <3>7. ASSUME NEW keep, NEW edited, NEW to PROVE ~Begin(s, keep, edited, to)
      BY <1>1 DEF At, Begin
    <3> QED BY <3>2, <3>4, <3>5, <3>6, <3>7 DEF Save
  <2>3. tx[s].seen = [ent |-> ent, row |-> row, study |-> study, town |-> town]
        /\ tx[s].keep \subseteq Shown(row)
    BY <1>1 DEF IInv, SnapshotsTell, Sees, Running, At
  <2>4. row[s] = Nil /\ s \in Rows BY <1>1, Distinct DEF IInv, Named, Over, At
  <2>5. Dropped(s) = Shown(row) \ tx[s].keep BY <2>3 DEF Dropped
  <2>6. row' = [d \in Rows |-> IF d = s THEN tx[s].to ELSE
                               IF d \in Dropped(s) THEN Nil ELSE row[d]]
    BY <2>2 DEF Commit
  <2>7. Shown(row') = tx[s].keep \cup (IF tx[s].to = Nil THEN {} ELSE {s})
    BY <2>3, <2>4, <2>5, <2>6 DEF Shown
  <2>8. ASSUME NEW e \in ent' PROVE \E d \in Rows : row'[d] = e
    <3>1. ent' = (ent \cup ({tx[s].to} \cap {s})) \ Pruned(s) BY <2>2 DEF Commit
    <3>2. CASE e = tx[s].to BY <2>4, <2>6, <3>2
    <3>3. CASE e # tx[s].to
      <4>1. e \in tx[s].seen.ent /\ e \notin Pruned(s) BY <2>3, <2>8, <3>1, <3>3
      <4>2. PICK d \in tx[s].keep : row[d] = e BY <2>3, <3>3, <4>1 DEF Pruned
      <4>3. d \in Rows /\ d # s /\ d \notin Dropped(s) BY <2>3, <2>4, <2>5, <4>2 DEF Shown
      <4> QED BY <2>6, <4>2, <4>3
    <3> QED BY <3>2, <3>3
  <2>9. \A e \in ent' : Card'[e] # {} BY <2>8 DEF Card
  <2>10. tx'[s].chosen = chosen BY <2>1, <2>2 DEF Commit, Idle
  <2>11. study' = (study \ {c \in pick : c.field \notin chosen}) \cup New(s, chosen)
    BY <2>2 DEF Commit
  <2>12. chosen \subseteq Chosen(study')
    <3> SUFFICES ASSUME NEW f \in chosen PROVE \E c \in study' : c.field = f
      BY DEF Chosen
    <3>1. CASE f \in {c.field : c \in tx[s].seen.study} BY <2>3, <2>11, <3>1
    <3>2. CASE f \notin {c.field : c \in tx[s].seen.study}
      <4>1. [field |-> f, by |-> s] \in New(s, chosen) BY <3>2 DEF New
      <4> QED BY <2>11, <4>1
    <3> QED BY <3>1, <3>2
  <2>13. Chosen(study') \ chosen \subseteq Twice(study)
    <3> SUFFICES ASSUME NEW c \in study', c.field \notin chosen PROVE c.field \in Twice(study)
      BY DEF Chosen
    <3>1. c \in study \ pick BY <2>11 DEF New
    <3>2. study \in SUBSET StudyRec /\ pick \in OneOfEach(study)
      BY <1>1, <2>3 DEF IInv, TypeOK
    <3> QED BY <3>1, <3>2, LeftIsDouble
  <2> QED BY <2>7, <2>9, <2>10, <2>12, <2>13
<1>2. IInv /\ [Next]_vars => [AllExact]_vars BY <1>1
<1> QED BY <1>2, InitOK, NextOK, PTL DEF Spec, LoneSaveExact
=============================================================================
