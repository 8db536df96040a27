--------------------------- MODULE LogotypesProofs --------------------------
(***************************************************************************)
(* Proofs about Logotypes, for any organizations, logotypes, requests and  *)
(* readers.                                                                *)
(***************************************************************************)
EXTENDS Logotypes, TLAPS

(* The logotypes that anybody but their own request may have heard of.     *)
Known == OldLogos \cup Over

Running(r) == tx[r].at \in {"write", "commit"}

(* What refers to a logotype that is yet to be committed: nothing.         *)
OnlyKnown ==
  /\ rows \subseteq Known
  /\ \A l \in Logos \ Known : cache[l] = "miss"
  /\ \A p \in Readers : reader[p].want \subseteq Known
  /\ \A r \in Requests : tx[r].prev \in Known \cup {Nil}

(* Whoever has now the logotype that a running request gives up had it     *)
(* already in the snapshot of that request: logotypes are not passed on.   *)
SnapshotsTell ==
  \A r \in Requests : Running(r) /\ tx[r].prev # Nil =>
    \A o \in Orgs : logo[o] = tx[r].prev => tx[r].seen[o] = tx[r].prev

(* What a reader has learnt of the logotypes it looks for.                 *)
Learnt(m) ==
  /\ m.missing \subseteq m.want
  /\ m.at = "idle" => m.missing = {}
  /\ m.at = "query" => \A l \in (m.want \ m.missing) \cap rows : m.shown[l] = "url"
  /\ m.at \in {"store", "done"} => \A l \in m.want \cap rows : m.shown[l] = "url"
ReadersLearn == \A p \in Readers : Learnt(reader[p])

CacheRight == \A l \in rows : cache[l] # "none"

IInv == TypeOK /\ OnlyKnown /\ SnapshotsTell /\ ReadersLearn /\ CacheRight /\ EntryDropped

LEMMA Distinct ==
  /\ Nil \notin Logos /\ Nil \notin Orgs
  /\ \A r \in Requests : r \in Logos /\ r \notin OldLogos
  /\ Known \subseteq Logos
  BY LogoAssumption DEF Logos, Known, Over

LEMMA Records ==
  /\ Idle \in TxRec /\ Idle.at = "idle" /\ Idle.prev = Nil
  /\ Waiting \in ReaderRec /\ Waiting.at = "idle" /\ Waiting.want = {} /\ Waiting.missing = {}
<1>1. Nowhere \in [Orgs -> Logos \cup {Nil}] BY DEF Nowhere
<1> QED BY <1>1 DEF Idle, Waiting, TxRec, ReaderRec, Points, Kinds, Cached

-----------------------------------------------------------------------------
(* A step of a request that is no commit and leaves the tables and Redis   *)
(* alone.                                                                  *)
LEMMA RequestKeeps ==
  ASSUME IInv, NEW r \in Requests, NEW n \in TxRec, tx' = [tx EXCEPT ![r] = n],
         UNCHANGED <<tables, redis, reader>>, before' \in [Requests -> SUBSET Requests],
         ~Committed(r), n.at \in {"idle", "write", "commit"}, n.prev \in Known \cup {Nil},
         n.at # "idle" /\ n.prev # Nil =>
           \A o \in Orgs : logo[o] = n.prev => n.seen[o] = n.prev
  PROVE  IInv'
<1>1. tx' \in [Requests -> TxRec] /\ tx'[r] = n /\ \A q \in Requests \ {r} : tx'[q] = tx[q]
  BY DEF IInv, TypeOK
<1>2. TypeOK' BY <1>1 DEF IInv, TypeOK, tables, redis
<1>3. Over' = Over /\ Known' = Known BY <1>1 DEF Over, Committed, Known
<1>4. OnlyKnown' BY <1>1, <1>3 DEF IInv, OnlyKnown, tables, redis
<1>5. SnapshotsTell' BY <1>1 DEF IInv, SnapshotsTell, Running, tables
<1>6. ReadersLearn' /\ CacheRight'
  BY DEF IInv, ReadersLearn, Learnt, CacheRight, tables, redis
<1>7. EntryDropped' BY <1>1 DEF IInv, EntryDropped, Committed, tables, redis
<1> QED BY <1>2, <1>4, <1>5, <1>6, <1>7 DEF IInv

LEMMA BeginKeeps ==
  ASSUME IInv, NEW r \in Requests, NEW o \in Orgs, NEW kind \in Kinds, Begin(r, o, kind)
  PROVE  IInv'
<1> DEFINE n == [at |-> "write", kind |-> kind, org |-> o, prev |-> logo[o], seen |-> logo]
<1>1. n \in TxRec BY Distinct DEF IInv, TypeOK, TxRec, Points
<1>2. n.prev \in Known \cup {Nil} BY DEF IInv, TypeOK, OnlyKnown
<1>3. before' \in [Requests -> SUBSET Requests]
  BY DEF Begin, IInv, TypeOK, Over
<1>4. ~Committed(r) BY DEF Begin, At, Committed
<1> QED BY <1>1, <1>2, <1>3, <1>4, RequestKeeps DEF Begin

LEMMA WriteKeeps == ASSUME IInv, NEW r \in Requests, Write(r) PROVE IInv'
<1> DEFINE n == [tx[r] EXCEPT !.at = "commit"]
<1>1. tx[r] \in TxRec BY DEF IInv, TypeOK
<1>2. n \in TxRec /\ n.at = "commit" /\ n.prev = tx[r].prev /\ n.seen = tx[r].seen
  BY <1>1 DEF TxRec, Points
<1>3. tx' = [tx EXCEPT ![r] = n] BY DEF Write, Goto
<1>4. ~Committed(r) /\ Running(r) BY DEF Write, At, Committed, Running
<1>5. n.prev \in Known \cup {Nil} BY <1>2 DEF IInv, OnlyKnown
<1>6. n.prev # Nil => \A o \in Orgs : logo[o] = n.prev => n.seen[o] = n.prev
  BY <1>2, <1>4 DEF IInv, SnapshotsTell
<1>7. UNCHANGED <<tables, redis, reader>> /\ before' \in [Requests -> SUBSET Requests]
  BY DEF Write, IInv, TypeOK
<1> HIDE DEF n
<1> QED BY <1>2, <1>3, <1>4, <1>5, <1>6, <1>7, RequestKeeps

LEMMA FailKeeps == ASSUME IInv, NEW r \in Requests, Fail(r) PROVE IInv'
<1>1. before' \in [Requests -> SUBSET Requests] BY DEF Fail, IInv, TypeOK
<1>2. ~Committed(r) BY DEF Fail, Committed
<1> QED BY <1>1, <1>2, Records, RequestKeeps DEF Fail

-----------------------------------------------------------------------------
(* What a commit deletes is no other organization's, and not its own.      *)
LEMMA DeletesNobodys ==
  ASSUME IInv, NEW r \in Requests, At(r, "commit")
  PROVE  /\ r \notin Deleted(r) /\ Deleted(r) \subseteq {tx[r].prev} \ {Nil}
         /\ \A o \in Orgs \ {tx[r].org} : logo[o] \notin Deleted(r)
<1>1. r \notin Known BY Distinct DEF At, Known, Over, Committed
<1>2. tx[r].prev # r BY <1>1, Distinct DEF IInv, OnlyKnown
<1>3. Running(r) BY DEF At, Running
<1> QED BY <1>2, <1>3 DEF Deleted, IInv, SnapshotsTell

LEMMA CommitKeeps == ASSUME IInv, NEW r \in Requests, Commit(r) PROVE IInv'
<1> DEFINE o == tx[r].org
           n == [tx[r] EXCEPT !.at = IF tx[r].kind = "save" THEN "fill" ELSE "drop",
                              !.seen = Nowhere]
<1>0. At(r, "commit") /\ UNCHANGED <<redis, reader, before>> BY DEF Commit
<1>1. tx[r] \in TxRec /\ Nowhere \in [Orgs -> Logos \cup {Nil}]
  BY DEF IInv, TypeOK, Nowhere
<1>2. n \in TxRec /\ n.at \in {"fill", "drop"} /\ n.prev = tx[r].prev
  BY <1>1 DEF TxRec, Points
<1>3. tx' = [tx EXCEPT ![r] = n] BY <1>1 DEF Commit, TxRec
<1> HIDE DEF n
<1>4. tx' \in [Requests -> TxRec] /\ tx'[r] = n /\ \A q \in Requests \ {r} : tx'[q] = tx[q]
  BY <1>2, <1>3 DEF IInv, TypeOK
<1>5. r \notin Known /\ r \notin Over /\ r \notin rows
  BY <1>0, Distinct DEF At, Known, Over, Committed, IInv, OnlyKnown
<1>6. Over' = Over \cup {r} /\ Known' = Known \cup {r}
  BY <1>2, <1>4 DEF Over, Committed, Known
<1>7. /\ r \notin Deleted(r) /\ Deleted(r) \subseteq {tx[r].prev} \ {Nil}
      /\ \A x \in Orgs \ {o} : logo[x] \notin Deleted(r)
  BY <1>0, DeletesNobodys
<1>8. rows' = (rows \cup Inserted(r)) \ Deleted(r) BY DEF Commit
<1>9. Inserted(r) = (IF tx[r].kind = "save" THEN {r} ELSE {}) BY DEF Inserted
<1>10. ASSUME NEW x \in Orgs
       PROVE  /\ logo'[x] \in (rows' \cup {Nil})
              /\ logo'[x] \in {r, Nil, logo[x]} /\ (logo'[x] = r => tx[r].kind = "save")
  <2>1. logo'[x] = IF x = o /\ Writes(r) THEN IF tx[r].kind = "save" THEN r ELSE Nil
                   ELSE IF logo[x] \in Deleted(r) THEN Nil ELSE logo[x]
    BY DEF Commit
  <2>2. logo[x] \in rows \cup {Nil} BY DEF IInv, TypeOK
  <2>3. r # Nil BY Distinct
  <2> QED BY <1>5, <1>7, <1>8, <1>9, <2>1, <2>2, <2>3
<1>11. TypeOK'
  <2>1. rows' \subseteq Logos BY <1>8, <1>9, Distinct DEF IInv, TypeOK
  <2>2. logo' \in [Orgs -> Logos \cup {Nil}] BY <1>10, <2>1 DEF Commit
  <2>3. there' \in SUBSET Orgs BY DEF Commit, IInv, TypeOK
  <2> QED BY <1>0, <1>4, <1>10, <2>1, <2>2, <2>3 DEF IInv, TypeOK, redis
<1>12. OnlyKnown'
  BY <1>0, <1>2, <1>4, <1>6, <1>8, <1>9 DEF IInv, OnlyKnown, redis
<1>13. SnapshotsTell'
  <2> SUFFICES ASSUME NEW q \in Requests, Running(q)', tx'[q].prev # Nil, NEW x \in Orgs,
                      logo'[x] = tx'[q].prev
               PROVE  tx'[q].seen[x] = tx'[q].prev
    BY DEF SnapshotsTell
  <2>1. q # r /\ tx'[q] = tx[q] /\ Running(q) BY <1>2, <1>4 DEF Running
  <2>2. tx[q].prev # r BY <1>5, Distinct DEF IInv, OnlyKnown
  <2>3. logo[x] = tx[q].prev BY <1>10, <2>1, <2>2
  <2> QED BY <2>1, <2>3 DEF IInv, SnapshotsTell
<1>14. ReadersLearn'
  <2> SUFFICES ASSUME NEW p \in Readers PROVE Learnt(reader[p])'
    BY DEF ReadersLearn
  <2>1. Learnt(reader[p]) /\ reader[p].want \subseteq Known /\ reader'[p] = reader[p]
    BY <1>0 DEF IInv, ReadersLearn, OnlyKnown
  <2> QED BY <1>5, <1>8, <1>9, <2>1 DEF Learnt
<1>15. CacheRight'
  <2>1. r \in Logos /\ cache[r] = "miss" BY <1>5, Distinct DEF IInv, OnlyKnown
  <2> QED BY <1>0, <1>8, <1>9, <2>1 DEF IInv, CacheRight, redis
<1>16. EntryDropped'
  <2> SUFFICES ASSUME NEW l \in Logos \ rows', cache'[l] = "url", l \notin late'
               PROVE  \E q \in Requests : tx'[q].prev = l /\ tx'[q].at \in {"fill", "drop"}
    BY DEF EntryDropped
  <2>1. cache[l] = "url" /\ l \notin late BY <1>0 DEF redis
  <2>2. CASE l \in Deleted(r) BY <1>2, <1>4, <1>7, <2>2
  <2>3. CASE l \notin Deleted(r)
    <3>1. l \notin rows BY <1>8, <2>3
    <3>2. PICK q \in Requests : tx[q].prev = l /\ tx[q].at \in {"fill", "drop"}
      BY <2>1, <3>1 DEF IInv, EntryDropped
    <3>3. q # r BY <1>0, <3>2 DEF At
    <3> QED BY <1>4, <3>2, <3>3
  <2> QED BY <2>2, <2>3
<1> QED BY <1>11, <1>12, <1>13, <1>14, <1>15, <1>16 DEF IInv

-----------------------------------------------------------------------------
(* Storing what was read of logotypes everybody may know.                  *)
LEMMA PutRight ==
  ASSUME IInv, NEW S \in SUBSET Known, NEW f \in [S -> Cached], Put(f),
         \A l \in S \cap rows : f[l] = "url"
  PROVE  /\ cache' \in [Logos -> Cached] /\ late' \in SUBSET Logos /\ late \subseteq late'
         /\ \A l \in Logos \ Known : cache'[l] = "miss"
         /\ \A l \in rows : cache'[l] # "none"
         /\ \A l \in Logos \ rows : cache'[l] = "url" => l \in late' \/ cache[l] = "url"
<1>1. DOMAIN f = S /\ S \subseteq Logos BY Distinct
<1>2. late' = late \cup (S \ rows) BY <1>1 DEF Put
<1>3. cache' = [l \in Logos |-> IF l \in S THEN f[l] ELSE cache[l]] BY <1>1 DEF Put
<1>4. rows \subseteq Logos BY DEF IInv, TypeOK
<1> QED BY <1>1, <1>2, <1>3, <1>4 DEF IInv, TypeOK, OnlyKnown, CacheRight

(* A step on Redis of somebody who has committed, or of a reader.          *)
LEMMA RedisKeeps ==
  ASSUME IInv, UNCHANGED <<tables, before>>,
         tx' \in [Requests -> TxRec], reader' \in [Readers -> ReaderRec],
         \A r \in Requests : /\ tx'[r].prev = tx[r].prev
                             /\ tx'[r] = tx[r] \/ (Committed(r) /\ Committed(r)'),
         \A p \in Readers : reader'[p].want \subseteq Known /\ Learnt(reader'[p]),
         cache' \in [Logos -> Cached], late' \in SUBSET Logos,
         \A l \in Logos \ Known : cache'[l] = "miss",
         \A l \in rows : cache'[l] # "none", EntryDropped'
  PROVE  IInv'
<1>1. Over' = Over /\ Known' = Known BY DEF Over, Committed, Known
<1>2. TypeOK' BY DEF IInv, TypeOK, tables
<1>3. OnlyKnown' BY <1>1 DEF IInv, OnlyKnown, tables
<1>4. SnapshotsTell'
  <2> SUFFICES ASSUME NEW q \in Requests, Running(q)' PROVE Running(q) /\ tx'[q] = tx[q]
    BY DEF IInv, SnapshotsTell, tables
  <2> QED BY DEF Running, Committed
<1>5. ReadersLearn' /\ CacheRight' BY DEF ReadersLearn, Learnt, CacheRight, tables
<1> QED BY <1>2, <1>3, <1>4, <1>5 DEF IInv

LEMMA FillKeeps == ASSUME IInv, NEW r \in Requests, Fill(r) PROVE IInv'
<1> DEFINE n == [tx[r] EXCEPT !.at = "drop"]
<1>1. tx[r] \in TxRec /\ At(r, "fill") /\ UNCHANGED <<tables, reader, before>>
  BY DEF IInv, TypeOK, Fill
<1>2. n \in TxRec /\ n.at = "drop" /\ n.prev = tx[r].prev BY <1>1 DEF TxRec, Points
<1>3. tx' = [tx EXCEPT ![r] = n] BY DEF Fill, Goto
<1> HIDE DEF n
<1>4. tx' \in [Requests -> TxRec] /\ tx'[r] = n /\ \A q \in Requests \ {r} : tx'[q] = tx[q]
  BY <1>2, <1>3 DEF IInv, TypeOK
<1>5. r \in Known BY <1>1 DEF At, Known, Over, Committed
<1>6. /\ cache' \in [Logos -> Cached] /\ late' \in SUBSET Logos /\ late \subseteq late'
      /\ \A l \in Logos \ Known : cache'[l] = "miss"
      /\ \A l \in rows : cache'[l] # "none"
      /\ \A l \in Logos \ rows : cache'[l] = "url" => l \in late' \/ cache[l] = "url"
  <2>1. CASE UNCHANGED redis BY <2>1 DEF IInv, TypeOK, OnlyKnown, CacheRight, redis
  <2>2. CASE Put([l \in {r} |-> "url"])
    <3> DEFINE f == [l \in {r} |-> "url"]
    <3>1. f \in [{r} -> Cached] /\ \A l \in {r} : f[l] = "url" BY DEF Cached
    <3>2. {r} \in SUBSET Known /\ Put(f) BY <1>5, <2>2
    <3> HIDE DEF f
    <3> QED BY <3>1, <3>2, PutRight
  <2> QED BY <2>1, <2>2 DEF Fill
<1>7. EntryDropped'
  <2>1. \A q \in Requests : tx[q].at \in {"fill", "drop"} =>
          tx'[q].at \in {"fill", "drop"} /\ tx'[q].prev = tx[q].prev
    BY <1>2, <1>4
  <2> QED BY <1>1, <1>6, <2>1 DEF IInv, EntryDropped, tables
<1>8. \A p \in Readers : reader'[p].want \subseteq Known /\ Learnt(reader'[p])
  BY <1>1 DEF IInv, OnlyKnown, ReadersLearn
<1>9. \A q \in Requests : /\ tx'[q].prev = tx[q].prev
                          /\ tx'[q] = tx[q] \/ (Committed(q) /\ Committed(q)')
  BY <1>1, <1>2, <1>4 DEF Committed, At
<1>10. reader' \in [Readers -> ReaderRec] BY <1>1 DEF IInv, TypeOK
<1> QED BY <1>1, <1>4, <1>6, <1>7, <1>8, <1>9, <1>10, RedisKeeps

LEMMA DropKeeps == ASSUME IInv, NEW r \in Requests, Drop(r) PROVE IInv'
<1> DEFINE n == [tx[r] EXCEPT !.at = "done"]
<1>1. tx[r] \in TxRec /\ At(r, "drop") /\ UNCHANGED <<tables, reader, before>>
  BY DEF IInv, TypeOK, Drop
<1>2. n \in TxRec /\ n.at = "done" /\ n.prev = tx[r].prev BY <1>1 DEF TxRec, Points
<1>3. tx' = [tx EXCEPT ![r] = n] BY DEF Drop, Goto
<1> HIDE DEF n
<1>4. tx' \in [Requests -> TxRec] /\ tx'[r] = n /\ \A q \in Requests \ {r} : tx'[q] = tx[q]
  BY <1>2, <1>3 DEF IInv, TypeOK
<1>5. /\ cache' \in [Logos -> Cached] /\ late' \in SUBSET Logos /\ late \subseteq late'
      /\ \A l \in Logos : cache'[l] \in {cache[l], "miss"}
      /\ \A l \in Logos \ rows : l = tx[r].prev => cache'[l] = "miss" \/ l \in late'
  <2>1. CASE cache' = [l \in Logos |-> IF l = Key(r) THEN "miss" ELSE cache[l]] /\ UNCHANGED late
    BY <2>1 DEF IInv, TypeOK, Cached, Key
  <2>2. CASE late' = late \cup ({tx[r].prev} \ (rows \cup {Nil})) /\ UNCHANGED cache
    <3>1. tx[r].prev \in Logos \cup {Nil} BY <1>1 DEF TxRec
    <3> QED BY <2>2, <3>1, Distinct DEF IInv, TypeOK
  <2> QED BY <2>1, <2>2 DEF Drop
<1>6. rows \subseteq Logos BY DEF IInv, TypeOK
<1>7. /\ \A l \in Logos \ Known : cache'[l] = "miss"
      /\ \A l \in rows : cache'[l] # "none"
  BY <1>5, <1>6 DEF IInv, OnlyKnown, CacheRight
<1>8. EntryDropped'
  <2> SUFFICES ASSUME NEW l \in Logos \ rows, cache'[l] = "url", l \notin late'
               PROVE  \E q \in Requests : tx'[q].prev = l /\ tx'[q].at \in {"fill", "drop"}
    BY <1>1 DEF EntryDropped, tables
  <2>1. cache[l] = "url" /\ l \notin late BY <1>5
  <2>2. PICK q \in Requests : tx[q].prev = l /\ tx[q].at \in {"fill", "drop"}
    BY <2>1 DEF IInv, EntryDropped
  <2>3. q # r BY <1>5, <2>2
  <2> QED BY <1>4, <2>2, <2>3
<1>9. \A p \in Readers : reader'[p].want \subseteq Known /\ Learnt(reader'[p])
  BY <1>1 DEF IInv, OnlyKnown, ReadersLearn
<1>10. \A q \in Requests : /\ tx'[q].prev = tx[q].prev
                           /\ tx'[q] = tx[q] \/ (Committed(q) /\ Committed(q)')
  BY <1>1, <1>2, <1>4 DEF Committed, At
<1>11. reader' \in [Readers -> ReaderRec] BY <1>1 DEF IInv, TypeOK
<1> QED BY <1>1, <1>4, <1>5, <1>7, <1>8, <1>9, <1>10, <1>11, RedisKeeps

LEMMA ExpireKeeps == ASSUME IInv, NEW l \in Logos, Expire(l) PROVE IInv'
<1>1. /\ cache' \in [Logos -> Cached] /\ UNCHANGED <<tables, late, tx, reader, before>>
      /\ \A k \in Logos : cache'[k] \in {cache[k], "miss"}
  BY DEF Expire, IInv, TypeOK, Cached
<1>2. rows \subseteq Logos BY DEF IInv, TypeOK
<1>3. EntryDropped' BY <1>1 DEF IInv, EntryDropped, tables
<1>4. /\ \A k \in Logos \ Known : cache'[k] = "miss"
      /\ \A k \in rows : cache'[k] # "none"
      /\ \A p \in Readers : reader'[p].want \subseteq Known /\ Learnt(reader'[p])
  BY <1>1, <1>2 DEF IInv, OnlyKnown, CacheRight, ReadersLearn
<1>5. tx' \in [Requests -> TxRec] /\ reader' \in [Readers -> ReaderRec] /\ late' \in SUBSET Logos
  BY <1>1 DEF IInv, TypeOK
<1> QED BY <1>1, <1>3, <1>4, <1>5, RedisKeeps

-----------------------------------------------------------------------------
(* A step of a reader that stores nothing.                                 *)
LEMMA ReaderKeeps ==
  ASSUME IInv, NEW p \in Readers, NEW m \in ReaderRec, reader' = [reader EXCEPT ![p] = m],
         UNCHANGED <<tables, redis, tx, before>>, m.want \subseteq Known, Learnt(m)
  PROVE  IInv'
<1>1. reader' \in [Readers -> ReaderRec] /\ reader'[p] = m
  /\ \A q \in Readers \ {p} : reader'[q] = reader[q]
  BY DEF IInv, TypeOK
<1>2. \A q \in Readers : reader'[q].want \subseteq Known /\ Learnt(reader'[q])
  BY <1>1 DEF IInv, OnlyKnown, ReadersLearn
<1>3. EntryDropped' BY DEF IInv, EntryDropped, tables, redis
<1>4. cache' = cache /\ late' = late /\ tx' = tx /\ UNCHANGED <<tables, before>> BY DEF redis
<1>5. /\ \A l \in Logos \ Known : cache'[l] = "miss" /\ TRUE
      /\ \A l \in rows : cache'[l] # "none"
      /\ cache' \in [Logos -> Cached] /\ late' \in SUBSET Logos /\ tx' \in [Requests -> TxRec]
  BY <1>4 DEF IInv, TypeOK, OnlyKnown, CacheRight
<1> QED BY <1>1, <1>2, <1>3, <1>4, <1>5, RedisKeeps

LEMMA OpenKeeps ==
  ASSUME IInv, NEW p \in Readers, NEW want \in SUBSET Logos, Open(p, want) PROVE IInv'
<1> DEFINE m == [reader[p] EXCEPT !.at = "ask", !.want = want]
<1>1. reader[p] \in ReaderRec /\ reader[p].missing = {}
  BY DEF IInv, TypeOK, ReadersLearn, Learnt, Open
<1>2. m \in ReaderRec /\ m.at = "ask" /\ m.want = want /\ m.missing = {}
  BY <1>1 DEF ReaderRec
<1>3. want \subseteq Known
  <2>1. \A o \in Orgs : logo[o] \in Known \cup {Nil} BY DEF IInv, TypeOK, OnlyKnown
  <2>2. there \subseteq Orgs BY DEF IInv, TypeOK
  <2> QED BY <2>1, <2>2 DEF Open
<1>4. reader' = [reader EXCEPT ![p] = m] /\ UNCHANGED <<tables, redis, tx, before>>
  BY <1>1 DEF Open, ReaderRec
<1> HIDE DEF m
<1> QED BY <1>2, <1>3, <1>4, ReaderKeeps DEF Learnt

LEMMA AskKeeps ==
  ASSUME IInv, NEW p \in Readers, NEW answered \in BOOLEAN, Ask(p, answered) PROVE IInv'
<1> DEFINE hit == {l \in reader[p].want : answered /\ cache[l] # "miss"}
           rest == reader[p].want \ hit
           sh == [l \in Logos |-> IF l \in hit THEN cache[l] ELSE "miss"]
           at == IF rest = {} THEN "done" ELSE "query"
           m == [reader[p] EXCEPT !.at = at, !.missing = rest, !.shown = sh]
<1>1. reader[p] \in ReaderRec /\ reader[p].want \subseteq Known /\ Known \subseteq Logos
  BY Distinct DEF IInv, TypeOK, OnlyKnown
<1>2. sh \in [Logos -> Cached] /\ \A l \in hit \cap rows : sh[l] = "url"
  <2>1. hit \subseteq Logos BY <1>1
  <2>2. \A l \in Logos : cache[l] \in Cached BY DEF IInv, TypeOK
  <2>3. \A l \in hit \cap rows : cache[l] = "url"
    BY <2>1, <2>2 DEF Cached, IInv, CacheRight
  <2> QED BY <2>1, <2>2, <2>3 DEF Cached
<1>3. at \in {"done", "query"} /\ (at = "done" => rest = {}) OBVIOUS
<1>4. rest \subseteq reader[p].want /\ rest \subseteq Logos BY <1>1
<1>5. \A l \in reader[p].want \ rest : l \in hit OBVIOUS
<1>6. reader' = [reader EXCEPT ![p] = m] /\ UNCHANGED <<tables, redis, tx, before>>
  BY <1>1 DEF Ask, ReaderRec
<1> HIDE DEF hit, rest, sh, at
<1>7. m \in ReaderRec /\ m.at = at /\ m.want = reader[p].want /\ m.missing = rest /\ m.shown = sh
  BY <1>1, <1>2, <1>3, <1>4 DEF ReaderRec
<1> HIDE DEF m
<1>8. Learnt(m) BY <1>2, <1>3, <1>4, <1>5, <1>7 DEF Learnt
<1> QED BY <1>1, <1>6, <1>7, <1>8, ReaderKeeps

LEMMA QueryKeeps == ASSUME IInv, NEW p \in Readers, Query(p) PROVE IInv'
<1> DEFINE sh == [l \in Logos |-> IF l \notin reader[p].missing THEN reader[p].shown[l]
                                  ELSE IF l \in rows THEN "url" ELSE "none"]
           m == [reader[p] EXCEPT !.at = "store", !.shown = sh]
<1>1. /\ reader[p] \in ReaderRec /\ reader[p].want \subseteq Known /\ Known \subseteq Logos
      /\ Learnt(reader[p]) /\ reader[p].at = "query"
  BY Distinct DEF IInv, TypeOK, OnlyKnown, ReadersLearn, Query
<1>2. sh \in [Logos -> Cached] /\ \A l \in reader[p].want \cap rows : sh[l] = "url"
  BY <1>1 DEF ReaderRec, Learnt, Cached
<1>3. reader' = [reader EXCEPT ![p] = m] /\ UNCHANGED <<tables, redis, tx, before>>
  BY <1>1 DEF Query, ReaderRec
<1> HIDE DEF sh
<1>4. /\ m \in ReaderRec /\ m.at = "store" /\ m.want = reader[p].want
      /\ m.missing = reader[p].missing /\ m.shown = sh
  BY <1>1, <1>2 DEF ReaderRec
<1> HIDE DEF m
<1>5. Learnt(m) BY <1>1, <1>2, <1>4 DEF Learnt
<1> QED BY <1>1, <1>3, <1>4, <1>5, ReaderKeeps

LEMMA StoreKeeps == ASSUME IInv, NEW p \in Readers, Store(p) PROVE IInv'
<1> DEFINE f == [l \in reader[p].missing |-> reader[p].shown[l]]
           m == [reader[p] EXCEPT !.at = "done", !.missing = {}]
<1>1. /\ reader[p] \in ReaderRec /\ reader[p].want \subseteq Known /\ Known \subseteq Logos
      /\ Learnt(reader[p]) /\ reader[p].at = "store" /\ UNCHANGED <<tables, tx, before>>
  BY Distinct DEF IInv, TypeOK, OnlyKnown, ReadersLearn, Store
<1>2. /\ reader[p].missing \in SUBSET Known /\ f \in [reader[p].missing -> Cached]
      /\ \A l \in reader[p].missing \cap rows : f[l] = "url"
  BY <1>1 DEF ReaderRec, Learnt
<1>3. Put(f) \/ UNCHANGED redis BY DEF Store
<1>4. reader' = [reader EXCEPT ![p] = m] BY <1>1 DEF Store, ReaderRec
<1>5. /\ m \in ReaderRec /\ m.at = "done" /\ m.want = reader[p].want
      /\ m.missing = {} /\ m.shown = reader[p].shown
  BY <1>1 DEF ReaderRec
<1> HIDE DEF f, m
<1>6. Learnt(m) /\ m.want \subseteq Known BY <1>1, <1>5 DEF Learnt
<1>7. reader' \in [Readers -> ReaderRec] /\ reader'[p] = m
      /\ \A q \in Readers \ {p} : reader'[q] = reader[q]
  BY <1>4, <1>5 DEF IInv, TypeOK
<1>8. \A q \in Readers : reader'[q].want \subseteq Known /\ Learnt(reader'[q])
  BY <1>6, <1>7 DEF IInv, OnlyKnown, ReadersLearn
<1>9. /\ cache' \in [Logos -> Cached] /\ late' \in SUBSET Logos /\ late \subseteq late'
      /\ \A l \in Logos \ Known : cache'[l] = "miss"
      /\ \A l \in rows : cache'[l] # "none"
      /\ \A l \in Logos \ rows : cache'[l] = "url" => l \in late' \/ cache[l] = "url"
  <2>1. CASE UNCHANGED redis BY <2>1 DEF IInv, TypeOK, OnlyKnown, CacheRight, redis
  <2>2. CASE Put(f) BY <1>2, <2>2, PutRight
  <2> QED BY <1>3, <2>1, <2>2
<1>10. EntryDropped' BY <1>1, <1>9 DEF IInv, EntryDropped, tables
<1>11. tx' \in [Requests -> TxRec] BY <1>1 DEF IInv, TypeOK
<1>12. \A r \in Requests : tx'[r].prev = tx[r].prev /\ tx'[r] = tx[r] BY <1>1
<1> QED BY <1>1, <1>7, <1>8, <1>9, <1>10, <1>11, <1>12, RedisKeeps

-----------------------------------------------------------------------------
LEMMA InitOK == Init => IInv
<1> SUFFICES ASSUME Init PROVE IInv OBVIOUS
<1>1. OldLogos \subseteq Logos BY DEF Logos
<1>2. TypeOK BY <1>1, Records DEF Init, TypeOK, Cached
<1>3. OnlyKnown BY Records DEF Init, OnlyKnown, Known
<1>4. SnapshotsTell BY Records DEF Init, SnapshotsTell
<1>5. ReadersLearn BY Records DEF Init, ReadersLearn, Learnt
<1>6. CacheRight /\ EntryDropped
  BY <1>2 DEF Init, CacheRight, EntryDropped, TypeOK
<1> QED BY <1>2, <1>3, <1>4, <1>5, <1>6 DEF IInv

LEMMA NextOK == IInv /\ [Next]_vars => IInv'
<1> SUFFICES ASSUME IInv, [Next]_vars PROVE IInv' OBVIOUS
<1>1. CASE UNCHANGED vars
  BY <1>1 DEF vars, IInv, TypeOK, OnlyKnown, SnapshotsTell, Running, ReadersLearn, Learnt,
              CacheRight, EntryDropped, Known, Over, Committed
<1>2. ASSUME NEW r \in Requests, Change(r) PROVE IInv'
  BY <1>2, BeginKeeps, WriteKeeps, CommitKeeps, FailKeeps, FillKeeps, DropKeeps DEF Change
<1>3. ASSUME NEW p \in Readers, Read(p) PROVE IInv'
  BY <1>3, OpenKeeps, AskKeeps, QueryKeeps, StoreKeeps DEF Read
<1> QED BY <1>1, <1>2, <1>3, ExpireKeeps DEF Next

(* Types, and no organization refers to a logotype that is gone.           *)
THEOREM TypeCorrect == Spec => []TypeOK
<1>1. IInv => TypeOK BY DEF IInv
<1> QED BY <1>1, InitOK, NextOK, PTL DEF Spec

(* Every logotype that is there is shown, and Redis never denies it, for   *)
(* any number of overlapping requests and pages.                           *)
THEOREM PicturesShown == Spec => []PictureShown
<1>1. IInv => PictureShown BY DEF IInv, CacheRight, ReadersLearn, Learnt, PictureShown
<1> QED BY <1>1, InitOK, NextOK, PTL DEF Spec

(* What Redis keeps of a deleted logotype was stored by somebody who had   *)
(* read it before, or could not be dropped.                                *)
THEOREM EntriesDropped == Spec => []EntryDropped
<1>1. IInv => EntryDropped BY DEF IInv
<1> QED BY <1>1, InitOK, NextOK, PTL DEF Spec

(* No organization loses its logotype to a request of another.             *)
THEOREM LogotypesKept == Spec => LogotypeKept
<1> DEFINE Kept == \A o \in Orgs : logo'[o] # logo[o] =>
                     \E r \in Requests : Committed(r)' /\ ~Committed(r) /\ tx[r].org = o
<1>1. ASSUME IInv, Next PROVE Kept
  <2> SUFFICES ASSUME NEW o \in Orgs, logo'[o] # logo[o]
               PROVE  \E r \in Requests : Committed(r)' /\ ~Committed(r) /\ tx[r].org = o
    OBVIOUS
  <2>1. PICK r \in Requests : Commit(r)
    BY <1>1 DEF Next, Change, Read, Begin, Write, Fail, Fill, Drop, Open, Ask, Query, Store,
                Expire, tables
  <2>2. At(r, "commit") BY <2>1 DEF Commit
  <2>3. logo'[o] = IF o = tx[r].org /\ Writes(r) THEN IF tx[r].kind = "save" THEN r ELSE Nil
                   ELSE IF logo[o] \in Deleted(r) THEN Nil ELSE logo[o]
    BY <2>1 DEF Commit
  <2>4. tx[r].org = o
    <3>1. \A x \in Orgs \ {tx[r].org} : logo[x] \notin Deleted(r) BY <1>1, <2>2, DeletesNobodys
    <3> QED BY <2>3, <3>1
  <2>5. tx'[r].at \in {"fill", "drop"} BY <1>1, <2>1 DEF Commit, IInv, TypeOK, TxRec
  <2> QED BY <2>2, <2>4, <2>5 DEF Committed, At
<1>2. IInv /\ [Next]_vars => [Kept]_vars BY <1>1
<1> QED BY <1>2, InitOK, NextOK, PTL DEF Spec, LogotypeKept

-----------------------------------------------------------------------------
(* Logotype l was stored for organization o by a committed request.        *)
StoredFor(l, o) == Committed(l) /\ tx[l].org = o

(* An organization that is gone has no logotype, and a logotype of a       *)
(* request is had by no organization but its own.                          *)
OwnersTell ==
  /\ \A o \in Orgs : o \notin there => logo[o] = Nil
  /\ \A o \in Orgs : logo[o] \in Requests => StoredFor(logo[o], o)

(* What a running request n, before which b had committed, makes of its    *)
(* snapshot: whoever has another logotype now got it from a request that   *)
(* has committed since, and an old logotype that was given up since was    *)
(* given up by a request that knew it.                                     *)
Tells(n, b) ==
  /\ n.org \in Orgs /\ n.prev = n.seen[n.org]
  /\ \A o \in Orgs :
       /\ n.seen[o] \in Requests => StoredFor(n.seen[o], o)
       /\ logo[o] \in {n.seen[o], Nil} \cup (Requests \ b)
       /\ n.seen[o] \in OldLogos \cap rows /\ logo[o] # n.seen[o] =>
            \E q \in Over \ b : tx[q].org = o /\ tx[q].prev = n.seen[o]
RunningTell == \A r \in Requests : Running(r) => Tells(tx[r], before[r])

(* A row that a request has written is there, and is its alone.            *)
RowsHeld ==
  \A r \in Requests : At(r, "commit") /\ Writes(r) =>
    /\ tx[r].kind # "delete" => tx[r].org \in there
    /\ \A q \in Requests \ {r} : ~Holds(q, tx[r].org)

JInv ==
  /\ \A r \in Requests : before[r] \subseteq Over
  /\ OwnersTell /\ RunningTell /\ RowsHeld /\ OrphanOnlyByOverlap

(* A step that leaves the tables alone and changes one request that is not *)
(* over.                                                                   *)
LEMMA RequestTells ==
  ASSUME IInv, JInv, NEW r \in Requests, NEW n \in TxRec, tx' = [tx EXCEPT ![r] = n],
         NEW b \in SUBSET Over, before' = [before EXCEPT ![r] = b],
         UNCHANGED tables, ~Committed(r), n.at \in {"idle", "write", "commit"},
         n.at # "idle" => Tells(n, b),
         n.at = "commit" /\ (n.kind # "clear" \/ n.prev # Nil) =>
           /\ n.kind # "delete" => n.org \in there
           /\ \A q \in Requests \ {r} : ~Holds(q, n.org)
  PROVE  JInv'
<1>1. /\ tx'[r] = n /\ \A q \in Requests \ {r} : tx'[q] = tx[q]
      /\ before'[r] = b /\ \A q \in Requests \ {r} : before'[q] = before[q]
  BY DEF IInv, TypeOK
<1>2. there' = there /\ logo' = logo /\ rows' = rows BY DEF tables
<1>3. \A q \in Requests : /\ Committed(q)' = Committed(q)
                          /\ Committed(q) => q # r /\ tx'[q] = tx[q] /\ before'[q] = before[q]
  BY <1>1 DEF Committed
<1>4. Over' = Over BY <1>3 DEF Over
<1>5. \A q \in Requests : before'[q] \subseteq Over' BY <1>1, <1>4 DEF JInv
<1>6. \A l \in Requests, o \in Orgs : StoredFor(l, o)' = StoredFor(l, o)
  BY <1>3 DEF StoredFor
<1>7. OwnersTell' BY <1>2, <1>6 DEF JInv, OwnersTell
<1>8. RunningTell'
  <2> SUFFICES ASSUME NEW q \in Requests, Running(q)' PROVE Tells(tx[q], before[q])'
    BY DEF RunningTell
  <2>1. Tells(tx'[q], before'[q]) BY <1>1 DEF JInv, RunningTell, Running
  <2>2. \A p \in Over : tx'[p] = tx[p] BY <1>3 DEF Over
  <2> QED BY <1>2, <1>4, <1>6, <2>1, <2>2 DEF Tells
<1>9. RowsHeld'
  <2>1. \A q \in Requests \ {r} : At(q, "commit")' = At(q, "commit") /\ Writes(q)' = Writes(q)
    BY <1>1 DEF At, Writes
  <2>2. \A q \in Requests \ {r}, o \in Orgs : Holds(q, o)' = Holds(q, o)
    BY <1>1 DEF Holds, Writes
  <2> QED BY <1>1, <1>2, <2>1, <2>2 DEF JInv, RowsHeld, At, Writes, Holds
<1>10. OrphanOnlyByOverlap'
  BY <1>2, <1>3 DEF JInv, OrphanOnlyByOverlap, Overlapped
<1> QED BY <1>5, <1>7, <1>8, <1>9, <1>10 DEF JInv

LEMMA BeginTells ==
  ASSUME IInv, JInv, NEW r \in Requests, NEW o \in Orgs, NEW kind \in Kinds, Begin(r, o, kind)
  PROVE  JInv'
<1> DEFINE n == [at |-> "write", kind |-> kind, org |-> o, prev |-> logo[o], seen |-> logo]
<1>1. n \in TxRec BY Distinct DEF IInv, TypeOK, TxRec, Points
<1>2. Tells(n, Over) BY DEF Tells, JInv, OwnersTell
<1>3. ~Committed(r) BY DEF Begin, At, Committed
<1> QED BY <1>1, <1>2, <1>3, RequestTells DEF Begin

LEMMA WriteTells == ASSUME IInv, JInv, NEW r \in Requests, Write(r) PROVE JInv'
<1> DEFINE n == [tx[r] EXCEPT !.at = "commit"]
<1>1. tx[r] \in TxRec BY DEF IInv, TypeOK
<1>2. /\ n \in TxRec /\ n.at = "commit" /\ n.kind = tx[r].kind /\ n.org = tx[r].org
      /\ n.prev = tx[r].prev /\ n.seen = tx[r].seen
  BY <1>1 DEF TxRec, Points
<1>3. tx' = [tx EXCEPT ![r] = n] /\ UNCHANGED tables BY DEF Write, Goto
<1>4. before' = [before EXCEPT ![r] = before[r]] BY DEF Write, IInv, TypeOK
<1>5. ~Committed(r) /\ Running(r) BY DEF Write, At, Committed, Running
<1> HIDE DEF n
<1>6. Tells(n, before[r]) BY <1>2, <1>5 DEF JInv, RunningTell, Tells
<1>7. before[r] \in SUBSET Over BY DEF JInv
<1>8. n.kind # "clear" \/ n.prev # Nil =>
        /\ n.kind # "delete" => n.org \in there
        /\ \A q \in Requests \ {r} : ~Holds(q, n.org)
  BY <1>2 DEF Write, Writes
<1> QED BY <1>2, <1>3, <1>4, <1>5, <1>6, <1>7, <1>8, RequestTells

LEMMA FailTells == ASSUME IInv, JInv, NEW r \in Requests, Fail(r) PROVE JInv'
<1>1. ~Committed(r) /\ UNCHANGED tables BY DEF Fail, Committed
<1> QED BY <1>1, Records, RequestTells DEF Fail

(* A step on Redis of somebody who has committed, or of a reader.          *)
LEMMA RedisTells ==
  ASSUME JInv, UNCHANGED <<tables, before>>,
         \A r \in Requests : /\ tx'[r].prev = tx[r].prev /\ tx'[r].org = tx[r].org
                             /\ tx'[r] = tx[r] \/ (Committed(r) /\ Committed(r)')
  PROVE  JInv'
<1>1. there' = there /\ logo' = logo /\ rows' = rows BY DEF tables
<1>2. \A r \in Requests : Committed(r)' = Committed(r) BY DEF Committed
<1>3. Over' = Over BY <1>2 DEF Over
<1>4. \A q \in Requests : before'[q] \subseteq Over' BY <1>3 DEF JInv
<1>5. OwnersTell' BY <1>1, <1>2 DEF JInv, OwnersTell, StoredFor
<1>6. \A r \in Requests : Running(r)' \/ At(r, "commit")' => ~Committed(r)' /\ tx'[r] = tx[r]
  BY DEF Running, Committed, At
<1>7. RunningTell'
  <2> SUFFICES ASSUME NEW r \in Requests, Running(r)' PROVE Tells(tx[r], before[r])'
    BY DEF RunningTell
  <2>1. tx'[r] = tx[r] /\ Running(r) BY <1>6 DEF Running
  <2>2. Tells(tx[r], before[r]) BY <2>1 DEF JInv, RunningTell
  <2>3. \A q \in Over : tx'[q].org = tx[q].org /\ tx'[q].prev = tx[q].prev BY DEF Over
  <2> QED BY <1>1, <1>2, <1>3, <2>1, <2>2, <2>3 DEF Tells, StoredFor
<1>8. RowsHeld'
  <2>1. \A r \in Requests : At(r, "commit")' => /\ At(r, "commit") /\ tx'[r] = tx[r]
                                                /\ Writes(r)' = Writes(r)
    BY <1>6 DEF At, Writes
  <2>2. \A q \in Requests, o \in Orgs : Holds(q, o)' => Holds(q, o)
    BY <2>1 DEF Holds, At
  <2>3. \A r \in Requests : Running(r) => tx[r].org \in Orgs
    BY DEF JInv, RunningTell, Tells
  <2> QED BY <1>1, <2>1, <2>2, <2>3 DEF JInv, RowsHeld, At, Running
<1>9. OrphanOnlyByOverlap' BY <1>1, <1>2 DEF JInv, OrphanOnlyByOverlap, Overlapped
<1> QED BY <1>4, <1>5, <1>7, <1>8, <1>9 DEF JInv

(* What COMMIT does to the references: an organization other than the one  *)
(* of the request keeps its logotype, and so does that one if nothing is   *)
(* written for it.                                                         *)
LEMMA CommitWrites ==
  ASSUME IInv, JInv, NEW r \in Requests, Commit(r)
  PROVE  /\ At(r, "commit") /\ Running(r) /\ ~Committed(r) /\ Tells(tx[r], before[r])
         /\ Committed(r)' /\ tx'[r].org = tx[r].org /\ tx'[r].prev = tx[r].prev
         /\ ~Running(r)' /\ ~At(r, "commit")'
         /\ \A q \in Requests \ {r} : tx'[q] = tx[q]
         /\ before' = before /\ r \notin Over /\ Over' = Over \cup {r}
         /\ rows' = (rows \cup Inserted(r)) \ Deleted(r)
         /\ \A x \in Orgs : ~(x = tx[r].org /\ Writes(r)) => logo'[x] = logo[x]
         /\ Writes(r) => logo'[tx[r].org] = IF tx[r].kind = "save" THEN r ELSE Nil
         /\ there' = IF tx[r].kind = "delete" THEN there \ {tx[r].org} ELSE there
<1>1. /\ At(r, "commit") /\ Running(r) /\ ~Committed(r) /\ before' = before
      /\ rows' = (rows \cup Inserted(r)) \ Deleted(r)
      /\ there' = IF tx[r].kind = "delete" THEN there \ {tx[r].org} ELSE there
  BY DEF Commit, At, Running, Committed
<1>2. Tells(tx[r], before[r]) BY <1>1 DEF JInv, RunningTell
<1>3. tx[r] \in TxRec BY DEF IInv, TypeOK
<1>4. /\ tx'[r].at \in {"fill", "drop"} /\ tx'[r].org = tx[r].org /\ tx'[r].prev = tx[r].prev
      /\ \A q \in Requests \ {r} : tx'[q] = tx[q]
  BY <1>3 DEF Commit, IInv, TypeOK, TxRec
<1>5. Committed(r)' /\ ~Running(r)' /\ ~At(r, "commit")'
  BY <1>4 DEF Committed, Running, At
<1>6. r \notin Over /\ Over' = Over \cup {r}
  <2>1. \A q \in Requests \ {r} : Committed(q)' = Committed(q) BY <1>4 DEF Committed
  <2> QED BY <1>1, <1>5, <2>1 DEF Over
<1>7. \A x \in Orgs : logo'[x] = IF x = tx[r].org /\ Writes(r)
                                 THEN IF tx[r].kind = "save" THEN r ELSE Nil
                                 ELSE IF logo[x] \in Deleted(r) THEN Nil ELSE logo[x]
  BY DEF Commit
<1>8. tx[r].org \in Orgs BY <1>2 DEF Tells
<1>9. \A x \in Orgs : ~(x = tx[r].org /\ Writes(r)) => logo[x] \notin Deleted(r)
  <2>1. \A x \in Orgs \ {tx[r].org} : logo[x] \notin Deleted(r) BY <1>1, DeletesNobodys
  <2>2. ~Writes(r) => Deleted(r) = {} BY DEF Writes, Deleted
  <2> QED BY <2>1, <2>2
<1> QED BY <1>1, <1>2, <1>4, <1>5, <1>6, <1>7, <1>8, <1>9

(* The row an uncommitted request gives up is seen by it, if it is old.    *)
LEMMA CommitTells == ASSUME IInv, JInv, NEW r \in Requests, Commit(r) PROVE JInv'
<1> DEFINE o == tx[r].org
<1>1. /\ At(r, "commit") /\ Running(r) /\ ~Committed(r) /\ Tells(tx[r], before[r])
      /\ Committed(r)' /\ tx'[r].org = o /\ tx'[r].prev = tx[r].prev
      /\ ~Running(r)' /\ ~At(r, "commit")'
      /\ \A q \in Requests \ {r} : tx'[q] = tx[q]
      /\ before' = before /\ r \notin Over /\ Over' = Over \cup {r}
      /\ rows' = (rows \cup Inserted(r)) \ Deleted(r)
      /\ \A x \in Orgs : ~(x = o /\ Writes(r)) => logo'[x] = logo[x]
      /\ Writes(r) => logo'[o] = IF tx[r].kind = "save" THEN r ELSE Nil
      /\ there' = IF tx[r].kind = "delete" THEN there \ {o} ELSE there
  BY CommitWrites
<1>2. tx[r].kind \in {"save", "delete"} => Writes(r) BY DEF Writes
<1>3. o \in Orgs /\ tx[r].prev = tx[r].seen[o] BY <1>1 DEF Tells
<1>4. /\ \A q \in Requests : /\ Committed(q) => q # r /\ Committed(q)'
                             /\ tx'[q].org = tx[q].org /\ tx'[q].prev = tx[q].prev
      /\ \A q \in Over : q # r /\ q \in Over'
  <2>1. \A q \in Requests \ {r} : Committed(q)' = Committed(q) BY <1>1 DEF Committed
  <2> QED BY <1>1, <2>1 DEF Over
<1>5. \A l \in Requests, x \in Orgs : StoredFor(l, x) => StoredFor(l, x)'
  BY <1>4 DEF StoredFor
<1>6. \A q \in Requests : before'[q] \subseteq Over' BY <1>1 DEF JInv
<1>7. Writes(r) /\ tx[r].kind # "delete" => o \in there BY <1>1 DEF JInv, RowsHeld
<1>8. OwnersTell'
  <2>1. ASSUME NEW x \in Orgs, x \notin there' PROVE logo'[x] = Nil
    <3>1. CASE x = o /\ Writes(r) BY <1>1, <1>7, <2>1, <3>1
    <3>2. CASE ~(x = o /\ Writes(r)) BY <1>1, <1>2, <2>1, <3>2 DEF JInv, OwnersTell
    <3> QED BY <3>1, <3>2
  <2>2. ASSUME NEW x \in Orgs, NEW l \in Requests, logo'[x] = l PROVE StoredFor(l, x)'
    <3>1. CASE x = o /\ Writes(r)
      <4>1. l = r BY <1>1, <2>2, <3>1, Distinct
      <4> QED BY <1>1, <3>1, <4>1 DEF StoredFor
    <3>2. CASE ~(x = o /\ Writes(r))
      <4>1. StoredFor(l, x) BY <1>1, <2>2, <3>2 DEF JInv, OwnersTell
      <4> QED BY <1>5, <4>1
    <3> QED BY <3>1, <3>2
  <2>3. \A x \in Orgs, l \in Requests : logo'[x] = l => Committed(l)' /\ tx'[l].org = x
    BY <2>2 DEF StoredFor
  <2> QED BY <2>1, <2>3 DEF OwnersTell, StoredFor
<1>9. RunningTell'
  <2> SUFFICES ASSUME NEW q \in Requests, Running(q)' PROVE Tells(tx[q], before[q])'
    BY DEF RunningTell
  <2>1. q # r /\ tx'[q] = tx[q] /\ Running(q) BY <1>1 DEF Running
  <2>2. Tells(tx[q], before[q]) BY <2>1 DEF JInv, RunningTell
  <2>3. r \notin before[q] BY <1>1 DEF JInv
  <2> SUFFICES ASSUME NEW x \in Orgs
               PROVE  /\ tx[q].seen[x] \in Requests => StoredFor(tx[q].seen[x], x)'
                      /\ logo'[x] \in {tx[q].seen[x], Nil} \cup (Requests \ before[q])
                      /\ tx[q].seen[x] \in OldLogos \cap rows' /\ logo'[x] # tx[q].seen[x] =>
                           \E p \in Over' \ before[q] :
                             tx'[p].org = x /\ tx'[p].prev = tx[q].seen[x]
    BY <1>1, <2>1, <2>2 DEF Tells, StoredFor
  <2>4. tx[q].seen[x] \in Requests => StoredFor(tx[q].seen[x], x)'
    BY <1>4, <2>1, <2>2 DEF Tells, StoredFor
  <2>5. logo'[x] \in {tx[q].seen[x], Nil} \cup (Requests \ before[q])
    <3>1. CASE x = o /\ Writes(r) BY <1>1, <2>3, <3>1
    <3>2. CASE ~(x = o /\ Writes(r)) BY <1>1, <2>2, <3>2 DEF Tells
    <3> QED BY <3>1, <3>2
  <2>6. ASSUME tx[q].seen[x] \in OldLogos \cap rows', logo'[x] # tx[q].seen[x]
        PROVE  \E p \in Over' \ before[q] : tx'[p].org = x /\ tx'[p].prev = tx[q].seen[x]
    <3>1. tx[q].seen[x] \in rows BY <1>1, <2>6, Distinct DEF Inserted
    <3>2. CASE logo[x] # tx[q].seen[x]
      <4>1. PICK p \in Over \ before[q] : tx[p].org = x /\ tx[p].prev = tx[q].seen[x]
        BY <2>2, <2>6, <3>1, <3>2 DEF Tells
      <4> QED BY <1>4, <4>1 DEF Over
    <3>3. CASE logo[x] = tx[q].seen[x]
      <4>1. x = o BY <1>1, <2>6, <3>3
      <4>2. logo[x] \notin Requests /\ logo[x] # Nil 
        BY <2>6, <3>3, Distinct, LogoAssumption DEF Logos
      <4>3. tx[r].seen[o] = logo[x] BY <1>1, <1>3, <4>1, <4>2 DEF Tells
      <4> QED BY <1>1, <1>3, <2>3, <3>3, <4>1, <4>3
    <3> QED BY <3>2, <3>3
  <2> QED BY <2>4, <2>5, <2>6
<1>10. RowsHeld'
  <2>1. \A q \in Requests : At(q, "commit")' => q # r /\ At(q, "commit") /\ tx'[q] = tx[q]
    BY <1>1 DEF At
  <2>2. \A q \in Requests, x \in Orgs : Holds(q, x)' => Holds(q, x)
    BY <2>1 DEF Holds, Writes, At
  <2>3. \A q \in Requests : At(q, "commit")' => Writes(q)' = Writes(q)
    BY <2>1 DEF Writes
  <2> SUFFICES ASSUME NEW q \in Requests, At(q, "commit")', Writes(q)'
               PROVE  /\ tx'[q].kind # "delete" => tx'[q].org \in there'
                      /\ \A p \in Requests \ {q} : ~Holds(p, tx[q].org)'
    BY DEF RowsHeld
  <2>4. q # r /\ At(q, "commit") /\ tx'[q] = tx[q] /\ Writes(q) BY <2>1, <2>3
  <2>5. /\ tx[q].kind # "delete" => tx[q].org \in there
        /\ \A p \in Requests \ {q} : ~Holds(p, tx[q].org)
    BY <2>4 DEF JInv, RowsHeld
  <2>6. \A p \in Requests \ {q} : ~Holds(p, tx[q].org)'
    <3>1. tx[q].org \in Orgs BY <2>4 DEF JInv, RunningTell, Running, At, Tells
    <3> QED BY <2>2, <2>4, <2>5, <3>1 DEF Holds, Writes
  <2>7. tx[q].kind # "delete" => tx[q].org \in there'
    <3>1. tx[r].kind = "delete" => Holds(r, o) BY <1>1, <1>2 DEF Holds, At
    <3>2. tx[r].kind = "delete" => tx[q].org # o BY <2>4, <2>5, <3>1
    <3> QED BY <1>1, <2>5, <3>2
  <2> QED BY <2>4, <2>6, <2>7
<1>11. OrphanOnlyByOverlap'
  <2> SUFFICES ASSUME NEW l \in rows', \A x \in there' : logo'[x] # l
               PROVE  \E q, p \in Requests :
                        /\ Committed(q)' /\ Committed(p)' /\ Overlapped(q, p)'
                        /\ \/ q = l /\ tx'[q].org = tx'[p].org
                           \/ tx'[q].prev = l /\ tx'[p].prev = l
    BY DEF OrphanOnlyByOverlap
  <2>1. \A q, p \in Requests : Overlapped(q, p)' = Overlapped(q, p)
    BY <1>1 DEF Overlapped
  <2>2. there \subseteq Orgs /\ rows \subseteq Logos BY DEF IInv, TypeOK
  <2>3. l \in rows
    <3>1. ASSUME l \in Inserted(r) PROVE FALSE
      <4>1. tx[r].kind = "save" /\ l = r BY <3>1 DEF Inserted
      <4> QED BY <1>1, <1>2, <1>7, <4>1
    <3> QED BY <1>1, <3>1
  <2>4. CASE \A x \in there : logo[x] # l
    <3>1. PICK q, p \in Requests :
                 /\ Committed(q) /\ Committed(p) /\ Overlapped(q, p)
                 /\ \/ q = l /\ tx[q].org = tx[p].org
                    \/ tx[q].prev = l /\ tx[p].prev = l
      BY <2>3, <2>4 DEF JInv, OrphanOnlyByOverlap
    <3> QED BY <1>4, <2>1, <3>1
  <2>5. CASE \E x \in there : logo[x] = l
    <3>1. PICK x \in there : logo[x] = l BY <2>5
    <3>2. x = o /\ Writes(r)
      <4> SUFFICES ASSUME ~(x = o /\ Writes(r)) PROVE FALSE OBVIOUS
      <4> QED BY <1>1, <1>2, <2>2, <3>1
    <3>3. logo[o] = l /\ l # Nil BY <2>2, <2>3, <3>1, <3>2, Distinct
    <3>4. CASE tx[r].prev = l
      <4>1. l \notin Deleted(r) BY <1>1
      <4>2. PICK y \in Orgs \ {o} : tx[r].seen[y] = l BY <3>3, <3>4, <4>1 DEF Deleted
      <4>3. l \notin Requests
        <5> SUFFICES ASSUME l \in Requests PROVE FALSE OBVIOUS
        <5>1. tx[l].org = y BY <1>1, <4>2 DEF Tells, StoredFor
        <5>2. tx[l].org = o BY <1>1, <1>3, <3>4 DEF Tells, StoredFor
        <5> QED BY <4>2, <5>1, <5>2
      <4>4. l \in OldLogos BY <2>2, <2>3, <4>3 DEF Logos
      <4>5. logo[y] # l
        <5> SUFFICES ASSUME logo[y] = l PROVE FALSE OBVIOUS
        <5>1. y \in there BY <3>3 DEF JInv, OwnersTell
        <5> QED BY <1>1, <4>2, <5>1
      <4>6. PICK q \in Over \ before[r] : tx[q].org = y /\ tx[q].prev = l
        BY <1>1, <2>3, <4>2, <4>4, <4>5 DEF Tells
      <4>7. q \in Requests /\ Committed(q) /\ q # r BY <1>1, <4>6 DEF Over
      <4>8. r \notin before[q] BY <1>1, <4>7 DEF JInv
      <4>9. Overlapped(q, r) BY <4>6, <4>7, <4>8 DEF Overlapped
      <4> QED BY <1>1, <1>4, <2>1, <3>4, <4>6, <4>7, <4>9
    <3>5. CASE tx[r].prev # l
      <4>1. l \in Requests \ before[r] BY <1>1, <1>3, <3>3, <3>5 DEF Tells
      <4>2. StoredFor(l, o) BY <1>3, <3>3, <4>1 DEF JInv, OwnersTell
      <4>3. Committed(l) /\ l # r /\ tx[l].org = o BY <1>1, <4>2 DEF StoredFor
      <4>4. r \notin before[l] BY <1>1, <4>1 DEF JInv
      <4>5. Overlapped(l, r) BY <4>1, <4>3, <4>4 DEF Overlapped
      <4> QED BY <1>1, <1>4, <2>1, <4>1, <4>3, <4>5
    <3> QED BY <3>4, <3>5
  <2> QED BY <2>4, <2>5
<1> QED BY <1>6, <1>8, <1>9, <1>10, <1>11 DEF JInv

LEMMA InitTells == Init => JInv
<1> SUFFICES ASSUME Init PROVE JInv OBVIOUS
<1>1. \A r \in Requests : ~Committed(r) /\ ~Running(r) /\ ~At(r, "commit") /\ before[r] = {}
  BY Records DEF Init, Committed, Running, At
<1>2. OwnersTell
  <2>1. \A o \in Orgs : logo[o] \notin Requests BY Distinct, LogoAssumption DEF Init, Logos
  <2> QED BY <2>1 DEF Init, OwnersTell
<1>3. OrphanOnlyByOverlap
  <2>1. \A l \in rows : \E o \in Orgs : logo[o] = l /\ l # Nil BY DEF Init
  <2>2. \A o \in Orgs : logo[o] # Nil => o \in there BY DEF Init
  <2> QED BY <2>1, <2>2 DEF OrphanOnlyByOverlap
<1> QED BY <1>1, <1>2, <1>3 DEF JInv, RunningTell, RowsHeld

LEMMA NextTells == IInv /\ JInv /\ [Next]_vars => JInv'
<1> SUFFICES ASSUME IInv, JInv, [Next]_vars PROVE JInv' OBVIOUS
<1>1. CASE UNCHANGED vars BY <1>1, RedisTells DEF vars, tables
<1>2. ASSUME NEW r \in Requests, Change(r) PROVE JInv'
  <2>1. ASSUME Fill(r) \/ Drop(r) PROVE JInv'
    <3>1. PICK p \in {"drop", "done"} : Goto(r, p) BY <2>1 DEF Fill, Drop
    <3>2. Committed(r) /\ UNCHANGED <<tables, before>>
      BY <2>1 DEF Fill, Drop, Committed, At
    <3>3. tx \in [Requests -> TxRec] BY DEF IInv, TypeOK
    <3>4. \A q \in Requests : /\ tx'[q].prev = tx[q].prev /\ tx'[q].org = tx[q].org
                              /\ tx'[q] = tx[q] \/ (q = r /\ tx'[q].at = p)
      BY <3>1, <3>3 DEF Goto, TxRec
    <3>5. \A q \in Requests : tx'[q] = tx[q] \/ (Committed(q) /\ Committed(q)')
      BY <3>2, <3>4 DEF Committed
    <3> QED BY <3>2, <3>4, <3>5, RedisTells
  <2> QED BY <1>2, <2>1, BeginTells, WriteTells, CommitTells, FailTells DEF Change
<1>3. ASSUME NEW p \in Readers, Read(p) PROVE JInv'
  <2>1. ASSUME NEW want, Open(p, want) PROVE UNCHANGED <<tables, tx, before>>
    BY <2>1 DEF Open
  <2>2. ASSUME NEW answered \in BOOLEAN, Ask(p, answered) PROVE UNCHANGED <<tables, tx, before>>
    BY <2>2, Zenon DEF Ask
  <2>3. Query(p) \/ Store(p) => UNCHANGED <<tables, tx, before>> BY DEF Query, Store
  <2>4. UNCHANGED <<tables, tx, before>> BY <1>3, <2>1, <2>2, <2>3 DEF Read
  <2> QED BY <2>4, RedisTells
<1>4. ASSUME NEW l \in Logos, Expire(l) PROVE JInv'
  BY <1>4, RedisTells DEF Expire
<1> QED BY <1>1, <1>2, <1>3, <1>4 DEF Next

(* However many requests overlap, the table keeps a logotype of nobody     *)
(* only after two requests that overlapped: the one stored it and the      *)
(* other replaced it unseen, or both gave it up, each counting the other.  *)
THEOREM OrphansByOverlap == Spec => []OrphanOnlyByOverlap
<1>1. JInv => OrphanOnlyByOverlap BY DEF JInv
<1> QED BY <1>1, InitOK, NextOK, InitTells, NextTells, PTL DEF Spec
=============================================================================
