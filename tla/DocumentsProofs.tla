--------------------------- MODULE DocumentsProofs --------------------------
(***************************************************************************)
(* Proofs about Documents, for any documents, types and requests.          *)
(***************************************************************************)
EXTENDS Documents, TLAPS

(* Which statements a request has left, and what it has set on its way.    *)
Suits(r, n) ==
  /\ n \in TxRec
  /\ n.todo = {} => n = [Fresh EXCEPT !.ended = n.ended]
  /\ n.todo # {} => ~n.ended /\ "commit" \in n.todo
  /\ r \in Deletions =>
       /\ n.todo \subseteq {"erase", "drop", "bury", "commit"}
       /\ ~n.stored /\ n.new = Nil /\ n.acts = NoActs
       /\ "erase" \in n.todo => n.wiped = {}
  /\ r \in Edits =>
       /\ n.todo \cap {"erase", "drop", "bury"} = {}
       /\ n.todo # {} => n.of \in Docs
       /\ n.new # Nil => n.of = r /\ n.todo \subseteq {"insert", "clear", "commit"} /\ ~n.stored
       /\ "put" \in n.todo /\ "wipe" \notin n.todo => n.wiped = {n.of}
       /\ n.todo \cap {"wipe", "put"} # {} => ~n.stored
       /\ "save" \in n.todo => \A d \in Docs \ {n.of} : n.acts[d] = Nil

(* What a request holds, when own says who holds the documents: the        *)
(* documents it has written, all of them once it erases, and all the PDFs  *)
(* there are where it has wiped them.                                      *)
Holds(r, n, own) ==
  /\ n.stored => n.of \in n.wiped /\ own[n.of] = r /\ doc[n.of] # Nil
  /\ "save" \notin n.todo => \A d \in Docs : n.acts[d] # Nil => own[d] = r /\ doc[d] # Nil
  /\ n.new # Nil /\ "insert" \notin n.todo => own[r] = r
  /\ \A d \in n.wiped : Rows(d) \subseteq n.gone
  /\ r \in Deletions /\ n.todo # {} /\ "erase" \notin n.todo =>
       /\ Present \subseteq n.wiped
       /\ \A d \in Docs : own[d] = IF doc[d] # Nil THEN r ELSE Nil

(* Where one has stored a PDF, no other has wiped.                         *)
Apart(n, m) == n.stored => n.of \notin m.wiped

TablesTyped ==
  /\ doc \in [Docs -> DocRec \cup {Nil}]
  /\ pdf \in [Docs -> SUBSET (Requests \cup {Old})]
  /\ there \in BOOLEAN
  /\ \A d \in Docs : doc[d] = Nil => pdf[d] = {}
HistoryTyped ==
  /\ maker \in [Docs -> Requests \cup {Old}]
  /\ before \in [Requests -> SUBSET (Requests \cup {Old})]
OwnersTyped ==
  /\ owner \in [Docs -> Requests \cup {Nil}]
  /\ \A d \in Docs : owner[d] # Nil =>
       tx[owner[d]].todo # {} /\ (doc[d] = Nil => owner[d] = d)

RequestsOK ==
  /\ tx \in [Requests -> TxRec]
  /\ \A r \in Requests : Suits(r, tx[r]) /\ Holds(r, tx[r], owner)
  /\ \A r, q \in Requests : r # q => Apart(tx[r], tx[q])
  /\ \A r \in Edits : ~tx[r].ended => doc[r] = Nil

IInv == TablesTyped /\ HistoryTyped /\ OwnersTyped /\ RequestsOK /\ OnePdf

LEMMA Distinct ==
  /\ Nil \notin Requests /\ Nil \notin Docs /\ Old \notin Requests /\ Nil \notin DocRec
  /\ \A r \in Edits : r \in Docs /\ r \in Requests /\ r \notin Deletions
  /\ \A r \in Deletions : r \in Requests /\ r \notin Edits /\ r \notin Docs
  /\ \A r \in Requests : r \in Edits \/ r \in Deletions
  BY NameAssumption DEF Requests, Docs, DocRec

LEMMA FreshTyped == Fresh \in TxRec /\ [Fresh EXCEPT !.ended = TRUE] \in TxRec
<1>1. NoActs \in [Docs -> DocRec \cup {Nil}] /\ NoActs \in [Docs -> BOOLEAN \cup {Nil}]
  BY DEF NoActs
<1> QED BY <1>1 DEF Fresh, TxRec

-----------------------------------------------------------------------------
(* A step of r that leaves the tables alone and may take documents, free   *)
(* ones or the one it inserts while nobody erases.                         *)
LEMMA StepKeeps ==
  ASSUME IInv, NEW r \in Requests, NEW n, NEW ds \in SUBSET Docs,
         tx' = [tx EXCEPT ![r] = n], UNCHANGED tables, HistoryTyped',
         owner' = [d \in Docs |-> IF d \in ds THEN r ELSE owner[d]],
         \A d \in ds : (doc[d] # Nil /\ RowFree(r, d)) \/ (d = r /\ ~Erased),
         ~tx[r].ended, n.todo # {}, Suits(r, n), Holds(r, n, owner'),
         \A q \in Others(r) : Apart(n, tx[q]) /\ Apart(tx[q], n)
  PROVE  IInv'
<1>1. TablesTyped' /\ OnePdf'
  BY DEF IInv, TablesTyped, OnePdf, tables
<1>2. tx' \in [Requests -> TxRec] /\ tx'[r] = n /\ \A q \in Requests \ {r} : tx'[q] = tx[q]
  BY DEF IInv, RequestsOK, Suits
<1>3. ASSUME NEW d \in ds PROVE owner[d] \in {Nil, r}
  <2>1. CASE doc[d] # Nil
    <3>1. d # r BY <2>1, Distinct DEF IInv, RequestsOK
    <3> QED BY <2>1, <3>1 DEF RowFree
  <2>2. CASE doc[d] = Nil
    <3>1. d = r BY <2>2
    <3> QED BY <2>2, <3>1, Distinct DEF IInv, OwnersTyped
  <2> QED BY <2>1, <2>2
<1>4. OwnersTyped'
  <2> SUFFICES ASSUME NEW d \in Docs, owner'[d] # Nil
               PROVE  tx'[owner'[d]].todo # {} /\ (doc'[d] = Nil => owner'[d] = d)
    BY DEF IInv, OwnersTyped
  <2>1. CASE d \in ds BY <1>2, <2>1 DEF tables
  <2>2. CASE d \notin ds
    <3>1. owner'[d] = owner[d] /\ owner[d] \in Requests BY <2>2 DEF IInv, OwnersTyped
    <3> QED BY <1>2, <3>1 DEF IInv, OwnersTyped, tables
  <2> QED BY <2>1, <2>2
<1>5. ASSUME NEW q \in Requests \ {r} PROVE Holds(q, tx[q], owner')
  <2>1. Holds(q, tx[q], owner) BY DEF IInv, RequestsOK
  <2>2. \A d \in Docs : owner[d] = q => owner'[d] = q BY <1>3, Distinct
  <2>3. q \in Docs \/ tx[q].new = Nil BY Distinct DEF IInv, RequestsOK, Suits
  <2>4. tx[q].stored => tx[q].of \in Docs
    BY Distinct, FreshTyped DEF IInv, RequestsOK, Suits, Fresh
  <2>5. ASSUME Erasing(q), NEW d \in Docs PROVE owner'[d] = owner[d]
    <3>1. owner[d] = IF doc[d] # Nil THEN q ELSE Nil BY <2>1, <2>5 DEF Holds, Erasing
    <3>2. d \notin ds BY <2>5, <3>1, Distinct DEF RowFree, Erased
    <3> QED BY <3>2
  <2> QED BY <2>1, <2>2, <2>3, <2>4, <2>5 DEF Holds, Erasing
<1>6. \A q \in Requests : Suits(q, tx'[q]) /\ Holds(q, tx'[q], owner')
  BY <1>2, <1>5 DEF IInv, RequestsOK
<1>7. \A q \in Requests : (Suits(q, tx[q]) /\ Holds(q, tx[q], owner))'
  BY <1>6 DEF Suits, Holds, Present, Rows, tables
<1>8. \A q, p \in Requests : q # p => Apart(tx'[q], tx'[p])
  BY <1>2 DEF IInv, RequestsOK, Others
<1>9. \A q \in Edits : ~tx'[q].ended => doc'[q] = Nil
  BY <1>2, Distinct, FreshTyped DEF IInv, RequestsOK, Suits, tables
<1>10. RequestsOK'
  BY <1>2, <1>7, <1>8, <1>9 DEF RequestsOK, Apart
<1> QED BY <1>1, <1>4, <1>10 DEF IInv

-----------------------------------------------------------------------------
(* A request that begins holds nothing yet.                                *)
LEMMA BeginKeeps ==
  ASSUME IInv, NEW r \in Requests, NEW n, Idle(r), Start(r, n),
         Suits(r, n), n.todo # {}, ~n.stored, n.wiped = {},
         n.new # Nil => "insert" \in n.todo, r \in Deletions => "erase" \in n.todo,
         "save" \in n.todo \/ n.acts = NoActs
  PROVE  IInv'
<1>1. ~tx[r].ended BY DEF Idle, Fresh
<1>2. Holds(r, n, owner') BY DEF Holds, NoActs
<1>3. \A q \in Others(r) : Apart(n, tx[q]) /\ Apart(tx[q], n) BY DEF Apart
<1>4. HistoryTyped'
  <2>1. Committed \subseteq Requests \cup {Old} BY DEF Committed
  <2> QED BY <2>1 DEF Start, IInv, HistoryTyped
<1>5. owner' = [d \in Docs |-> IF d \in {} THEN r ELSE owner[d]]
  BY DEF Start, IInv, OwnersTyped
<1> QED BY <1>1, <1>2, <1>3, <1>4, <1>5, StepKeeps DEF Start

LEMMA PointsAre ==
  Points = {"insert", "save", "wipe", "put", "mark", "clear", "erase", "drop", "bury", "commit"}
  BY DEF Points, Rank

LEMMA Snapshot ==
  ASSUME IInv, NEW of \in Docs \cup {Nil}, NEW todo \in SUBSET Points, NEW r \in Requests
  PROVE  Begin(r, of, todo) \in TxRec
  BY FreshTyped DEF Begin, IInv, TablesTyped, TxRec

LEMMA EditSuits ==
  ASSUME NEW r \in Edits, NEW n \in TxRec, n.ended = FALSE, "commit" \in n.todo,
         n.todo \cap {"erase", "drop", "bury"} = {}, n.of \in Docs, n.stored = FALSE,
         n.new # Nil => n.of = r /\ n.todo \subseteq {"insert", "clear", "commit"},
         "put" \in n.todo => "wipe" \in n.todo,
         "save" \in n.todo => \A d \in Docs \ {n.of} : n.acts[d] = Nil
  PROVE  Suits(r, n)
  BY Distinct DEF Suits

LEMMA AddKeeps ==
  ASSUME IInv, NEW r \in Requests, NEW t \in Types, Add(r, t)
  PROVE  IInv'
<1> DEFINE b == Begin(r, r, {"insert", "clear", "commit"})
           n == [b EXCEPT !.new = [type |-> t, actual |-> TRUE]]
<1>1. r \in Edits /\ Idle(r) /\ Start(r, n) BY DEF Add
<1>2. /\ b \in TxRec /\ b.todo = {"insert", "clear", "commit"} /\ b.of = r /\ b.acts = NoActs
      /\ b.wiped = {} /\ b.stored = FALSE /\ b.ended = FALSE
  <2>1. {"insert", "clear", "commit"} \in SUBSET Points BY PointsAre
  <2>2. b \in TxRec BY <1>1, <2>1, Snapshot, Distinct
  <2> QED BY <2>2 DEF Begin, Fresh
<1> HIDE DEF b
<1>3. [type |-> t, actual |-> TRUE] \in DocRec BY DEF DocRec
<1>4. /\ n \in TxRec /\ n.todo = {"insert", "clear", "commit"} /\ n.of = r /\ n.acts = NoActs
      /\ n.wiped = {} /\ n.stored = FALSE /\ n.ended = FALSE
  BY <1>2, <1>3 DEF TxRec
<1> HIDE DEF n
<1>5. Suits(r, n) BY <1>1, <1>4, EditSuits, Distinct
<1> QED BY <1>1, <1>4, <1>5, BeginKeeps, Distinct

LEMMA UpdateKeeps ==
  ASSUME IInv, NEW r \in Requests, NEW d \in Docs, NEW actual \in BOOLEAN, NEW upload \in BOOLEAN,
         Update(r, d, actual, upload)
  PROVE  IInv'
<1> DEFINE todo == {"save", "commit"} \cup (IF upload THEN {"wipe", "put"} ELSE {})
                                      \cup (IF actual THEN {"clear"} ELSE {})
           b == Begin(r, d, todo)
           a == IF doc[d].actual = actual THEN Nil ELSE actual
           n == [b EXCEPT !.acts[d] = a]
<1>1. r \in Edits /\ Idle(r) /\ Start(r, n) BY DEF Update
<1>2. todo \subseteq {"save", "wipe", "put", "clear", "commit"} /\ "save" \in todo /\ "commit" \in todo
      /\ ("put" \in todo => "wipe" \in todo)
  OBVIOUS
<1> HIDE DEF todo
<1>3. /\ b \in TxRec /\ b.todo = todo /\ b.of = d /\ b.new = Nil /\ b.acts = NoActs
      /\ b.wiped = {} /\ b.stored = FALSE /\ b.ended = FALSE
  <2>1. todo \in SUBSET Points BY <1>2, PointsAre
  <2>2. b \in TxRec BY <2>1, Snapshot
  <2> QED BY <2>2 DEF Begin, Fresh
<1> HIDE DEF b
<1>4. /\ n \in TxRec /\ n.todo = todo /\ n.of = d /\ n.new = Nil
      /\ n.wiped = {} /\ n.stored = FALSE /\ n.ended = FALSE
  <2>1. a \in BOOLEAN \cup {Nil} OBVIOUS
  <2> QED BY <1>3, <2>1 DEF TxRec
<1>6. \A e \in Docs \ {d} : n.acts[e] = Nil BY <1>3 DEF NoActs
<1> HIDE DEF n
<1>5. Suits(r, n) BY <1>1, <1>2, <1>4, <1>6, EditSuits, Distinct
<1> QED BY <1>1, <1>2, <1>4, <1>5, BeginKeeps, Distinct

LEMMA RemovePdfKeeps ==
  ASSUME IInv, NEW r \in Requests, NEW d \in Docs, RemovePdf(r, d)
  PROVE  IInv'
<1> DEFINE n == Begin(r, d, {"wipe", "mark", "commit"})
<1>1. r \in Edits /\ Idle(r) /\ Start(r, n) BY DEF RemovePdf
<1>2. /\ n \in TxRec /\ n.todo = {"wipe", "mark", "commit"} /\ n.of = d /\ n.new = Nil
      /\ n.acts = NoActs /\ n.wiped = {} /\ n.stored = FALSE /\ n.ended = FALSE
  <2>1. {"wipe", "mark", "commit"} \in SUBSET Points BY PointsAre
  <2>2. n \in TxRec BY <2>1, Snapshot, Distinct
  <2> QED BY <2>2 DEF Begin, Fresh
<1> HIDE DEF n
<1>3. Suits(r, n) BY <1>1, <1>2, EditSuits, Distinct
<1> QED BY <1>1, <1>2, <1>3, BeginKeeps, Distinct

LEMMA ArchiveKeeps ==
  ASSUME IInv, NEW r \in Requests, NEW d \in Docs, Archive(r, d)
  PROVE  IInv'
<1> DEFINE b == Begin(r, d, {"save", "commit"})
           a == IF doc[d].actual THEN FALSE ELSE Nil
           n == [b EXCEPT !.acts[d] = a]
<1>1. r \in Edits /\ Idle(r) /\ Start(r, n) BY DEF Archive
<1>2. /\ b \in TxRec /\ b.todo = {"save", "commit"} /\ b.of = d /\ b.new = Nil /\ b.acts = NoActs
      /\ b.wiped = {} /\ b.stored = FALSE /\ b.ended = FALSE
  <2>1. {"save", "commit"} \in SUBSET Points BY PointsAre
  <2>2. b \in TxRec BY <2>1, Snapshot, Distinct
  <2> QED BY <2>2 DEF Begin, Fresh
<1> HIDE DEF b
<1>3. /\ n \in TxRec /\ n.todo = {"save", "commit"} /\ n.of = d /\ n.new = Nil
      /\ n.wiped = {} /\ n.stored = FALSE /\ n.ended = FALSE
  <2>1. a \in BOOLEAN \cup {Nil} OBVIOUS
  <2> QED BY <1>2, <2>1 DEF TxRec
<1>5. \A e \in Docs \ {d} : n.acts[e] = Nil BY <1>2 DEF NoActs
<1> HIDE DEF n
<1>4. Suits(r, n) BY <1>1, <1>3, <1>5, EditSuits, Distinct
<1> QED BY <1>1, <1>3, <1>4, BeginKeeps, Distinct

LEMMA DeleteOrganizationKeeps ==
  ASSUME IInv, NEW r \in Requests, DeleteOrganization(r)
  PROVE  IInv'
<1> DEFINE n == Begin(r, Nil, {"erase", "drop", "bury", "commit"})
<1>1. r \in Deletions /\ Idle(r) /\ Start(r, n) BY DEF DeleteOrganization
<1>2. /\ n \in TxRec /\ n.todo = {"erase", "drop", "bury", "commit"} /\ n.new = Nil
      /\ n.acts = NoActs /\ n.wiped = {} /\ n.stored = FALSE /\ n.ended = FALSE
  <2>1. {"erase", "drop", "bury", "commit"} \in SUBSET Points BY PointsAre
  <2>2. n \in TxRec BY <2>1, Snapshot, Distinct
  <2> QED BY <2>2 DEF Begin, Fresh
<1> HIDE DEF n
<1>3. Suits(r, n) BY <1>1, <1>2, Distinct DEF Suits
<1> QED BY <1>1, <1>2, <1>3, BeginKeeps, Distinct

-----------------------------------------------------------------------------
LEMMA AtFirst ==
  ASSUME IInv, NEW r \in Requests, NEW p \in Points, At(r, p)
  PROVE  /\ tx[r] \in TxRec /\ Suits(r, tx[r]) /\ Holds(r, tx[r], owner)
         /\ p \in tx[r].todo /\ ~tx[r].ended /\ "commit" \in tx[r].todo
         /\ \A q \in tx[r].todo : Rank[p] <= Rank[q]
  BY DEF IInv, RequestsOK, Suits, At

(* One statement done, nothing else of the request changed.                *)
LEMMA AdvanceSuits ==
  ASSUME NEW r \in Requests, NEW n \in TxRec, NEW m \in TxRec, Suits(r, n), NEW p \in n.todo,
         p \notin {"commit", "wipe"}, "commit" \in n.todo, m.todo = n.todo \ {p}, m.of = n.of,
         m.new = n.new, m.wiped = n.wiped, m.stored = n.stored, m.ended = n.ended,
         r \in Deletions \/ "save" \in m.todo => m.acts = n.acts
  PROVE  Suits(r, m)
  BY Distinct DEF Suits

LEMMA InsertKeeps ==
  ASSUME IInv, NEW r \in Requests, Insert(r)
  PROVE  IInv'
<1> DEFINE n == Advanced(r, "insert")
<1>1. At(r, "insert") /\ ~Erased /\ tx' = [tx EXCEPT ![r] = n] /\ UNCHANGED <<tables, history>>
      /\ owner' = [d \in Docs |-> IF d \in {r} THEN r ELSE owner[d]]
  BY DEF Insert, Take
<1>2. /\ tx[r] \in TxRec /\ Suits(r, tx[r]) /\ Holds(r, tx[r], owner) /\ "insert" \in tx[r].todo
      /\ ~tx[r].ended /\ "commit" \in tx[r].todo
  BY <1>1, AtFirst, PointsAre
<1>3. r \in Edits /\ r \in Docs BY <1>2, Distinct DEF Suits
<1>4. n \in TxRec /\ n.todo = tx[r].todo \ {"insert"} /\ n.of = tx[r].of /\ n.new = tx[r].new
      /\ n.acts = tx[r].acts /\ n.wiped = tx[r].wiped /\ n.gone = tx[r].gone
      /\ n.stored = tx[r].stored /\ n.ended = tx[r].ended
  BY <1>2 DEF Advanced, TxRec
<1> HIDE DEF n
<1>5. Suits(r, n) /\ n.todo # {} BY <1>2, <1>4, AdvanceSuits
<1>6. \A d \in Docs : owner[d] = r => owner'[d] = r BY <1>1
<1>7. Holds(r, n, owner')
  <2>1. n.stored => n.of \in Docs BY <1>2, <1>3, <1>4 DEF Suits
  <2> QED BY <1>1, <1>2, <1>3, <1>4, <1>6, <2>1, Distinct DEF Holds
<1>8. \A q \in Others(r) : Apart(n, tx[q]) /\ Apart(tx[q], n)
  BY <1>4 DEF IInv, RequestsOK, Apart, Others
<1>9. HistoryTyped' BY <1>1 DEF IInv, HistoryTyped, history
<1>10. {r} \in SUBSET Docs /\ UNCHANGED tables BY <1>1, <1>3
<1> QED BY <1>1, <1>2, <1>4, <1>5, <1>7, <1>8, <1>9, <1>10, StepKeeps

LEMMA SaveKeeps ==
  ASSUME IInv, NEW r \in Requests, NEW p \in {"save", "mark"}, Save(r, p)
  PROVE  IInv'
<1> DEFINE n == Advanced(r, p)
           d == tx[r].of
<1>1. At(r, p) /\ tx' = [tx EXCEPT ![r] = n] /\ UNCHANGED tables /\ UNCHANGED history
  BY DEF Save
<1>2. /\ tx[r] \in TxRec /\ Suits(r, tx[r]) /\ Holds(r, tx[r], owner) /\ p \in tx[r].todo
      /\ ~tx[r].ended /\ "commit" \in tx[r].todo
  BY <1>1, AtFirst, PointsAre
<1>3. r \in Edits /\ d \in Docs BY <1>2, Distinct DEF Suits
<1>4. n \in TxRec /\ n.todo = tx[r].todo \ {p} /\ n.of = tx[r].of /\ n.new = tx[r].new
      /\ n.acts = tx[r].acts /\ n.wiped = tx[r].wiped /\ n.gone = tx[r].gone
      /\ n.stored = tx[r].stored /\ n.ended = tx[r].ended
  BY <1>2 DEF Advanced, TxRec
<1> HIDE DEF n
<1>5. Suits(r, n) /\ n.todo # {} BY <1>2, <1>4, AdvanceSuits
<1>6. PICK ds \in SUBSET Docs :
        /\ owner' = [e \in Docs |-> IF e \in ds THEN r ELSE owner[e]]
        /\ \A e \in ds : doc[e] # Nil /\ RowFree(r, e)
        /\ tx[r].acts[d] # Nil => d \in ds
  <2>1. CASE tx[r].acts[d] = Nil /\ UNCHANGED owner
    <3>1. owner' = [e \in Docs |-> IF e \in {} THEN r ELSE owner[e]]
      BY <2>1 DEF IInv, OwnersTyped
    <3> WITNESS {} \in SUBSET Docs
    <3> QED BY <2>1, <3>1
  <2>2. CASE Updatable(r, {d}) /\ Take(r, {d})
    <3>1. {d} \in SUBSET Docs BY <1>3
    <3> QED BY <2>2, <3>1 DEF Updatable, Take
  <2> QED BY <2>1, <2>2 DEF Save
<1>7. \A e \in Docs : owner[e] = r => owner'[e] = r BY <1>6
<1>8. ASSUME NEW e \in Docs, "save" \notin n.todo, n.acts[e] # Nil PROVE owner'[e] = r /\ doc[e] # Nil
  <2>1. CASE "save" \notin tx[r].todo BY <1>2, <1>4, <1>7, <1>8, <2>1 DEF Holds
  <2>2. CASE "save" \in tx[r].todo /\ e = d BY <1>4, <1>6, <1>8, <2>2
  <2>3. CASE "save" \in tx[r].todo /\ e # d
    BY <1>2, <1>3, <1>4, <1>8, <2>3 DEF Suits
  <2> QED BY <2>1, <2>2, <2>3
<1>9. Holds(r, n, owner')
  <2>1. n.new # Nil => "save" \notin tx[r].todo /\ "mark" \notin tx[r].todo
    BY <1>2, <1>3, <1>4 DEF Suits
  <2>2. r \in Docs BY <1>3, Distinct
  <2> QED BY <1>2, <1>3, <1>4, <1>7, <1>8, <2>1, <2>2, Distinct DEF Holds
<1>10. \A q \in Others(r) : Apart(n, tx[q]) /\ Apart(tx[q], n)
  BY <1>4 DEF IInv, RequestsOK, Apart, Others
<1>11. HistoryTyped' BY <1>1 DEF IInv, HistoryTyped, history
<1> QED BY <1>1, <1>2, <1>4, <1>5, <1>6, <1>9, <1>10, <1>11, StepKeeps

LEMMA RowsTyped ==
  ASSUME IInv, NEW d \in Docs
  PROVE  Rows(d) \in SUBSET PdfRow
  BY DEF IInv, TablesTyped, Rows, PdfRow

LEMMA WipeKeeps ==
  ASSUME IInv, NEW r \in Requests, Wipe(r)
  PROVE  IInv'
<1> DEFINE d == tx[r].of
           n == [Advanced(r, "wipe") EXCEPT !.wiped = {d}, !.gone = Rows(d)]
<1>1. At(r, "wipe") /\ Wipeable(r, d) /\ tx' = [tx EXCEPT ![r] = n]
      /\ UNCHANGED tables /\ UNCHANGED owner /\ UNCHANGED history
  BY DEF Wipe
<1>2. /\ tx[r] \in TxRec /\ Suits(r, tx[r]) /\ Holds(r, tx[r], owner) /\ "wipe" \in tx[r].todo
      /\ ~tx[r].ended /\ "commit" \in tx[r].todo
  BY <1>1, AtFirst, PointsAre
<1>3. r \in Edits /\ d \in Docs BY <1>2, Distinct DEF Suits
<1>4. n \in TxRec /\ n.todo = tx[r].todo \ {"wipe"} /\ n.of = tx[r].of /\ n.new = tx[r].new
      /\ n.acts = tx[r].acts /\ n.wiped = {d} /\ n.gone = Rows(d)
      /\ n.stored = tx[r].stored /\ n.ended = tx[r].ended
  <2>1. Rows(d) \in SUBSET PdfRow BY <1>3, RowsTyped
  <2> QED BY <1>2, <1>3, <2>1 DEF Advanced, TxRec
<1> HIDE DEF n
<1>5. Suits(r, n) /\ n.todo # {}
  BY <1>2, <1>3, <1>4, Distinct DEF Suits
<1>6. ~n.stored /\ n.new = Nil BY <1>2, <1>3, <1>4 DEF Suits
<1>7. "save" \notin tx[r].todo BY <1>1 DEF At, Rank
<1>8. Holds(r, n, owner') BY <1>1, <1>2, <1>3, <1>4, <1>6, <1>7, Distinct DEF Holds
<1>9. \A q \in Others(r) : Apart(n, tx[q]) /\ Apart(tx[q], n)
  BY <1>1, <1>4, <1>6 DEF Apart, Wipeable
<1>10. HistoryTyped' BY <1>1 DEF IInv, HistoryTyped, history
<1>11. PICK ds \in SUBSET Docs :
         ds = {} /\ owner' = [e \in Docs |-> IF e \in ds THEN r ELSE owner[e]]
  <2>1. owner' = [e \in Docs |-> IF e \in {} THEN r ELSE owner[e]]
    BY <1>1 DEF IInv, OwnersTyped
  <2> WITNESS {} \in SUBSET Docs
  <2> QED BY <2>1
<1> QED BY <1>1, <1>2, <1>5, <1>8, <1>9, <1>10, <1>11, StepKeeps

LEMMA PutKeeps ==
  ASSUME IInv, NEW r \in Requests, Put(r)
  PROVE  IInv'
<1> DEFINE d == tx[r].of
           n == [Advanced(r, "put") EXCEPT !.stored = TRUE]
<1>1. At(r, "put") /\ GapFree(r, d) /\ doc[d] # Nil /\ RowFree(r, d) /\ tx' = [tx EXCEPT ![r] = n]
      /\ UNCHANGED tables /\ owner' = [e \in Docs |-> IF e \in {d} THEN r ELSE owner[e]]
      /\ UNCHANGED history
  BY DEF Put, Updatable, Take
<1>2. /\ tx[r] \in TxRec /\ Suits(r, tx[r]) /\ Holds(r, tx[r], owner) /\ "put" \in tx[r].todo
      /\ ~tx[r].ended /\ "commit" \in tx[r].todo
  BY <1>1, AtFirst, PointsAre
<1>3. r \in Edits /\ d \in Docs BY <1>2, Distinct DEF Suits
<1>4. n \in TxRec /\ n.todo = tx[r].todo \ {"put"} /\ n.of = tx[r].of /\ n.new = tx[r].new
      /\ n.acts = tx[r].acts /\ n.wiped = tx[r].wiped /\ n.gone = tx[r].gone
      /\ n.stored = TRUE /\ n.ended = tx[r].ended
  BY <1>2 DEF Advanced, TxRec
<1> HIDE DEF n
<1>5. "save" \notin tx[r].todo /\ "wipe" \notin tx[r].todo BY <1>1 DEF At, Rank
<1>6. n.wiped = {d} /\ n.new = Nil BY <1>2, <1>3, <1>4, <1>5 DEF Suits
<1>7. Suits(r, n) /\ n.todo # {}
  BY <1>2, <1>3, <1>4, <1>5, <1>6, Distinct DEF Suits
<1>8. \A e \in Docs : owner[e] = r => owner'[e] = r BY <1>1
<1>9. Holds(r, n, owner')
  BY <1>1, <1>2, <1>3, <1>4, <1>5, <1>6, <1>8, Distinct DEF Holds
<1>10. \A q \in Others(r) : Apart(n, tx[q]) /\ Apart(tx[q], n)
  BY <1>1, <1>4 DEF Apart, GapFree, IInv, RequestsOK, Others
<1>11. HistoryTyped' BY <1>1 DEF IInv, HistoryTyped, history
<1>12. {d} \in SUBSET Docs BY <1>3
<1> QED BY <1>1, <1>2, <1>7, <1>9, <1>10, <1>11, <1>12, StepKeeps

LEMMA ClearKeeps ==
  ASSUME IInv, NEW r \in Requests, Clear(r)
  PROVE  IInv'
<1> DEFINE acts == [d \in Docs |-> IF d \in ToClear(r) THEN FALSE ELSE tx[r].acts[d]]
           n == [Advanced(r, "clear") EXCEPT !.acts = acts]
<1>1. At(r, "clear") /\ Updatable(r, ToClear(r)) /\ tx' = [tx EXCEPT ![r] = n]
      /\ UNCHANGED tables /\ owner' = [d \in Docs |-> IF d \in ToClear(r) THEN r ELSE owner[d]]
      /\ UNCHANGED history
  <2>1. [Advanced(r, "clear") EXCEPT
           !.acts = [d \in Docs |-> IF d \in ToClear(r) THEN FALSE ELSE @[d]]] = n
    BY DEF Advanced
  <2> QED BY <2>1 DEF Clear, Take
<1>2. /\ tx[r] \in TxRec /\ Suits(r, tx[r]) /\ Holds(r, tx[r], owner) /\ "clear" \in tx[r].todo
      /\ ~tx[r].ended /\ "commit" \in tx[r].todo
  BY <1>1, AtFirst, PointsAre
<1>3. r \in Edits /\ tx[r].of \in Docs BY <1>2, Distinct DEF Suits
<1>4. acts \in [Docs -> BOOLEAN \cup {Nil}] BY <1>2 DEF TxRec
<1>5. ToClear(r) \in SUBSET Docs BY DEF ToClear, Siblings
<1>6. \A d \in Docs : acts[d] # Nil => d \in ToClear(r) \/ tx[r].acts[d] # Nil OBVIOUS
<1> HIDE DEF acts
<1>7. n \in TxRec /\ n.todo = tx[r].todo \ {"clear"} /\ n.of = tx[r].of /\ n.new = tx[r].new
      /\ n.acts = acts /\ n.wiped = tx[r].wiped /\ n.gone = tx[r].gone
      /\ n.stored = tx[r].stored /\ n.ended = tx[r].ended
  BY <1>2, <1>4 DEF Advanced, TxRec
<1> HIDE DEF n
<1>8. "save" \notin tx[r].todo BY <1>1 DEF At, Rank
<1>9. Suits(r, n) /\ n.todo # {}
  BY <1>2, <1>3, <1>7, <1>8, AdvanceSuits, Distinct
<1>10. \A d \in Docs : owner[d] = r => owner'[d] = r BY <1>1
<1>11. \A d \in ToClear(r) : owner'[d] = r /\ doc[d] # Nil /\ RowFree(r, d)
  BY <1>1, <1>5 DEF Updatable
<1>12. \A d \in Docs : n.acts[d] # Nil => owner'[d] = r /\ doc[d] # Nil
  BY <1>2, <1>6, <1>7, <1>8, <1>10, <1>11 DEF Holds
<1>13. Holds(r, n, owner')
  BY <1>2, <1>3, <1>7, <1>10, <1>12, Distinct DEF Holds
<1>14. \A q \in Others(r) : Apart(n, tx[q]) /\ Apart(tx[q], n)
  BY <1>7 DEF IInv, RequestsOK, Apart, Others
<1>15. HistoryTyped' BY <1>1 DEF IInv, HistoryTyped, history
<1> QED BY <1>1, <1>2, <1>5, <1>9, <1>11, <1>13, <1>14, <1>15, StepKeeps

-----------------------------------------------------------------------------
LEMMA EraseKeeps ==
  ASSUME IInv, NEW r \in Requests, Erase(r)
  PROVE  IInv'
<1> DEFINE gone == UNION {Rows(d) : d \in Present}
           n == [Advanced(r, "erase") EXCEPT !.wiped = Present, !.gone = gone]
<1>1. /\ At(r, "erase") /\ \A d \in Docs : RowFree(r, d) /\ (d \in Present => Wipeable(r, d))
      /\ tx' = [tx EXCEPT ![r] = n]
      /\ UNCHANGED tables /\ owner' = [d \in Docs |-> IF d \in Present THEN r ELSE owner[d]]
      /\ UNCHANGED history
  BY DEF Erase, Take
<1>2. /\ tx[r] \in TxRec /\ Suits(r, tx[r]) /\ Holds(r, tx[r], owner) /\ "erase" \in tx[r].todo
      /\ ~tx[r].ended /\ "commit" \in tx[r].todo
  BY <1>1, AtFirst, PointsAre
<1>3. r \in Deletions BY <1>2, Distinct DEF Suits
<1>4. Present \in SUBSET Docs /\ gone \in SUBSET PdfRow /\ \A d \in Present : Rows(d) \subseteq gone
  BY RowsTyped DEF Present
<1> HIDE DEF gone
<1>5. n \in TxRec /\ n.todo = tx[r].todo \ {"erase"} /\ n.of = tx[r].of /\ n.new = tx[r].new
      /\ n.acts = tx[r].acts /\ n.wiped = Present /\ n.gone = gone
      /\ n.stored = tx[r].stored /\ n.ended = tx[r].ended
  BY <1>2, <1>4 DEF Advanced, TxRec
<1> HIDE DEF n
<1>6. Suits(r, n) /\ n.todo # {}
  BY <1>2, <1>3, <1>5, Distinct DEF Suits
<1>7. ~n.stored /\ n.new = Nil /\ n.acts = NoActs BY <1>2, <1>3, <1>5 DEF Suits
<1>8. ASSUME NEW d \in Docs PROVE owner'[d] = IF doc[d] # Nil THEN r ELSE Nil
  <2>1. CASE doc[d] # Nil BY <1>1, <2>1 DEF Present
  <2>2. CASE doc[d] = Nil
    <3>1. owner'[d] = owner[d] BY <1>1, <2>2 DEF Present
    <3>2. owner[d] = Nil \/ owner[d] = d BY <2>2 DEF IInv, OwnersTyped
    <3>3. owner[d] # r \/ owner[d] = Nil BY <1>3, <3>2, Distinct
    <3> QED BY <1>1, <2>2, <3>1, <3>3 DEF RowFree
  <2> QED BY <2>1, <2>2
<1>9. Holds(r, n, owner')
  BY <1>4, <1>5, <1>7, <1>8 DEF Holds, NoActs
<1>10. ASSUME NEW q \in Others(r) PROVE Apart(n, tx[q]) /\ Apart(tx[q], n)
  <2>1. tx[q].stored => tx[q].of \notin Present BY <1>1, <1>4 DEF Wipeable
  <2> QED BY <1>5, <1>7, <2>1 DEF Apart
<1>11. HistoryTyped' BY <1>1 DEF IInv, HistoryTyped, history
<1>12. \A d \in Present : doc[d] # Nil /\ RowFree(r, d) BY <1>1 DEF Present
<1> QED BY <1>1, <1>2, <1>4, <1>6, <1>9, <1>10, <1>11, <1>12, StepKeeps

LEMMA DropKeeps ==
  ASSUME IInv, NEW r \in Requests, Drop(r)
  PROVE  IInv'
<1> DEFINE n == Advanced(r, "drop")
<1>1. /\ At(r, "drop") /\ \A d \in Present : RowFree(r, d)
      /\ tx' = [tx EXCEPT ![r] = n]
      /\ UNCHANGED tables /\ owner' = [d \in Docs |-> IF d \in Present THEN r ELSE owner[d]]
      /\ UNCHANGED history
  BY DEF Drop, Take
<1>2. /\ tx[r] \in TxRec /\ Suits(r, tx[r]) /\ Holds(r, tx[r], owner) /\ "drop" \in tx[r].todo
      /\ ~tx[r].ended /\ "commit" \in tx[r].todo
  BY <1>1, AtFirst, PointsAre
<1>3. r \in Deletions BY <1>2, Distinct DEF Suits
<1>4. n \in TxRec /\ n.todo = tx[r].todo \ {"drop"} /\ n.of = tx[r].of /\ n.new = tx[r].new
      /\ n.acts = tx[r].acts /\ n.wiped = tx[r].wiped /\ n.gone = tx[r].gone
      /\ n.stored = tx[r].stored /\ n.ended = tx[r].ended
  BY <1>2 DEF Advanced, TxRec
<1> HIDE DEF n
<1>5. "erase" \notin tx[r].todo BY <1>1 DEF At, Rank
<1>6. Suits(r, n) /\ n.todo # {} BY <1>2, <1>3, <1>4, AdvanceSuits
<1>7. owner' = owner
  <2>1. \A d \in Docs : owner[d] = IF doc[d] # Nil THEN r ELSE Nil
    BY <1>2, <1>3, <1>5 DEF Holds
  <2> QED BY <1>1, <2>1 DEF Present, IInv, OwnersTyped
<1>8. Holds(r, n, owner')
  <2>1. ~n.stored /\ n.new = Nil /\ n.acts = NoActs BY <1>2, <1>3, <1>4 DEF Suits
  <2> QED BY <1>2, <1>3, <1>4, <1>5, <1>7, <2>1 DEF Holds, NoActs
<1>9. \A q \in Others(r) : Apart(n, tx[q]) /\ Apart(tx[q], n)
  BY <1>4 DEF IInv, RequestsOK, Apart, Others
<1>10. HistoryTyped' BY <1>1 DEF IInv, HistoryTyped, history
<1>11. Present \in SUBSET Docs /\ \A d \in Present : doc[d] # Nil /\ RowFree(r, d)
  BY <1>1 DEF Present
<1> QED BY <1>1, <1>2, <1>6, <1>8, <1>9, <1>10, <1>11, StepKeeps

LEMMA BuryKeeps ==
  ASSUME IInv, NEW r \in Requests, Bury(r)
  PROVE  IInv'
<1> DEFINE n == Advanced(r, "bury")
<1>1. /\ At(r, "bury") /\ tx' = [tx EXCEPT ![r] = n]
      /\ UNCHANGED tables /\ UNCHANGED owner /\ UNCHANGED history
  BY DEF Bury
<1>2. /\ tx[r] \in TxRec /\ Suits(r, tx[r]) /\ Holds(r, tx[r], owner) /\ "bury" \in tx[r].todo
      /\ ~tx[r].ended /\ "commit" \in tx[r].todo
  BY <1>1, AtFirst, PointsAre
<1>3. r \in Deletions BY <1>2, Distinct DEF Suits
<1>4. n \in TxRec /\ n.todo = tx[r].todo \ {"bury"} /\ n.of = tx[r].of /\ n.new = tx[r].new
      /\ n.acts = tx[r].acts /\ n.wiped = tx[r].wiped /\ n.gone = tx[r].gone
      /\ n.stored = tx[r].stored /\ n.ended = tx[r].ended
  BY <1>2 DEF Advanced, TxRec
<1> HIDE DEF n
<1>5. "erase" \notin tx[r].todo BY <1>1 DEF At, Rank
<1>6. Suits(r, n) /\ n.todo # {} BY <1>2, <1>3, <1>4, AdvanceSuits
<1>7. Holds(r, n, owner')
  <2>1. ~n.stored /\ n.new = Nil /\ n.acts = NoActs BY <1>2, <1>3, <1>4 DEF Suits
  <2> QED BY <1>1, <1>2, <1>3, <1>4, <1>5, <2>1 DEF Holds, NoActs
<1>8. \A q \in Others(r) : Apart(n, tx[q]) /\ Apart(tx[q], n)
  BY <1>4 DEF IInv, RequestsOK, Apart, Others
<1>9. HistoryTyped' BY <1>1 DEF IInv, HistoryTyped, history
<1>10. PICK ds \in SUBSET Docs :
         ds = {} /\ owner' = [e \in Docs |-> IF e \in ds THEN r ELSE owner[e]]
  <2>1. owner' = [e \in Docs |-> IF e \in {} THEN r ELSE owner[e]]
    BY <1>1 DEF IInv, OwnersTyped
  <2> WITNESS {} \in SUBSET Docs
  <2> QED BY <2>1
<1> QED BY <1>1, <1>2, <1>6, <1>7, <1>8, <1>9, <1>10, StepKeeps

-----------------------------------------------------------------------------
(* A request that ends has changed only documents it held, and has stored  *)
(* a PDF of its document only.                                             *)
LEMMA EndKeeps ==
  ASSUME IInv, NEW r \in Requests, tx[r].todo # {}, TablesTyped', OnePdf', HistoryTyped',
         tx' = [tx EXCEPT ![r] = [Fresh EXCEPT !.ended = TRUE]], Release(r),
         \A d \in Docs : owner[d] # r => doc'[d] = doc[d],
         \A d \in Docs : pdf'[d] \subseteq pdf[d] \cup (IF tx[r].stored /\ d = tx[r].of THEN {r} ELSE {})
  PROVE  IInv'
<1> DEFINE done == [Fresh EXCEPT !.ended = TRUE]
<1>1. /\ done \in TxRec /\ done.todo = {} /\ done.new = Nil /\ done.acts = NoActs
      /\ done.wiped = {} /\ done.stored = FALSE /\ done.ended = TRUE
      /\ done = [Fresh EXCEPT !.ended = done.ended]
  BY FreshTyped DEF Fresh
<1>2. tx' \in [Requests -> TxRec] /\ tx'[r] = done /\ \A q \in Requests \ {r} : tx'[q] = tx[q]
  BY <1>1 DEF IInv, RequestsOK
<1> HIDE DEF done
<1>3. \A d \in Docs : owner'[d] = IF owner[d] = r THEN Nil ELSE owner[d]
  BY DEF Release
<1>4. \A d \in Docs : doc[d] = Nil /\ d # r => doc'[d] = Nil
  BY Distinct DEF IInv, OwnersTyped
<1>5. OwnersTyped'
  <2>1. owner' \in [Docs -> Requests \cup {Nil}] BY DEF Release, IInv, OwnersTyped
  <2>2. ASSUME NEW d \in Docs, owner'[d] # Nil
        PROVE  tx'[owner'[d]].todo # {} /\ (doc'[d] = Nil => owner'[d] = d)
    <3>1. owner'[d] = owner[d] /\ owner[d] \in Requests \ {r} BY <1>3, <2>2 DEF IInv, OwnersTyped
    <3> QED BY <1>2, <2>2, <3>1 DEF IInv, OwnersTyped
  <2> QED BY <2>1, <2>2 DEF OwnersTyped
<1>6. Suits(r, tx'[r]) /\ Holds(r, tx[r], owner)'
  <2>1. Suits(r, done) BY <1>1, Distinct DEF Suits
  <2>2. \A d \in Docs : done.acts[d] = Nil BY <1>1 DEF NoActs
  <2> QED BY <1>1, <1>2, <2>1, <2>2 DEF Holds
<1>7. ASSUME NEW q \in Requests \ {r} PROVE Suits(q, tx'[q]) /\ Holds(q, tx[q], owner)'
  <2>1. Suits(q, tx[q]) /\ Holds(q, tx[q], owner) BY DEF IInv, RequestsOK
  <2>2. \A d \in Docs : owner[d] = q => owner'[d] = q /\ doc'[d] = doc[d]
    BY <1>3
  <2>3. q \in Docs \/ tx[q].new = Nil BY <2>1, Distinct DEF Suits
  <2>4. tx[q].stored => tx[q].of \in Docs BY <2>1, Distinct, FreshTyped DEF Suits, Fresh
  <2>5. ASSUME NEW d \in tx[q].wiped PROVE Rows(d)' \subseteq tx[q].gone
    <3>1. d \in Docs BY DEF IInv, RequestsOK, TxRec
    <3>2. ~(tx[r].stored /\ d = tx[r].of) BY <2>5 DEF IInv, RequestsOK, Apart
    <3>3. pdf'[d] \subseteq pdf[d] BY <3>1, <3>2
    <3> QED BY <2>1, <2>5, <3>3 DEF Holds, Rows
  <2>6. ASSUME q \in Deletions, tx[q].todo # {}, "erase" \notin tx[q].todo
        PROVE  /\ Present' \subseteq tx[q].wiped
               /\ \A d \in Docs : owner'[d] = IF doc'[d] # Nil THEN q ELSE Nil
    <3>1. \A d \in Docs : owner[d] = IF doc[d] # Nil THEN q ELSE Nil BY <2>1, <2>6 DEF Holds
    <3>2. \A d \in Docs : doc'[d] = doc[d] /\ owner'[d] = owner[d] BY <1>3, <3>1, Distinct
    <3>3. Present' = Present BY <3>2 DEF Present
    <3> QED BY <2>1, <2>6, <3>1, <3>2, <3>3 DEF Holds
  <2> QED BY <1>2, <2>1, <2>2, <2>3, <2>4, <2>5, <2>6 DEF Holds
<1>8. \A q, p \in Requests : q # p => Apart(tx'[q], tx'[p])
  BY <1>1, <1>2 DEF IInv, RequestsOK, Apart
<1>9. \A q \in Edits : ~tx'[q].ended => doc'[q] = Nil
  BY <1>1, <1>2, <1>4, Distinct DEF IInv, RequestsOK
<1>10. RequestsOK'
  <2>1. \A q \in Requests : Suits(q, tx'[q]) /\ Holds(q, tx[q], owner)'
    BY <1>6, <1>7
  <2> QED BY <1>2, <1>8, <1>9, <2>1 DEF RequestsOK, Suits, Apart
<1> QED BY <1>5, <1>10 DEF IInv

LEMMA FailKeeps ==
  ASSUME IInv, NEW r \in Requests, Fail(r)
  PROVE  IInv'
<1>1. UNCHANGED tables /\ UNCHANGED history BY DEF Fail
<1>2. TablesTyped' /\ OnePdf' /\ HistoryTyped'
  BY <1>1 DEF IInv, TablesTyped, OnePdf, HistoryTyped, tables, history
<1> QED BY <1>1, <1>2, EndKeeps DEF Fail, tables

(* What a committing request has not deleted of the PDFs, and its own.     *)
LEMMA PdfsCommitted ==
  ASSUME IInv, NEW r \in Requests, Suits(r, tx[r]), Holds(r, tx[r], owner),
         pdf' = [d \in Docs |-> {q \in pdf[d] : [of |-> d, by |-> q] \notin tx[r].gone}
                                \cup (IF tx[r].stored /\ d = tx[r].of THEN {r} ELSE {})]
  PROVE  /\ pdf' \in [Docs -> SUBSET (Requests \cup {Old})] /\ OnePdf'
         /\ \A d \in Docs : pdf'[d] \subseteq pdf[d] \cup (IF tx[r].stored /\ d = tx[r].of THEN {r} ELSE {})
         /\ \A d \in tx[r].wiped \cap Docs : ~(tx[r].stored /\ d = tx[r].of) => pdf'[d] = {}
<1>1. \A d \in Docs : pdf'[d] = {q \in pdf[d] : [of |-> d, by |-> q] \notin tx[r].gone}
                                \cup (IF tx[r].stored /\ d = tx[r].of THEN {r} ELSE {})
  OBVIOUS
<1>2. \A d \in Docs : pdf[d] \subseteq Requests \cup {Old} BY DEF IInv, TablesTyped
<1>3. ASSUME NEW d \in tx[r].wiped \cap Docs
      PROVE  {q \in pdf[d] : [of |-> d, by |-> q] \notin tx[r].gone} = {}
  BY <1>3 DEF Holds, Rows
<1>4. tx[r].stored => tx[r].of \in tx[r].wiped BY DEF Holds
<1>5. OnePdf'
  <2> SUFFICES ASSUME NEW d \in Docs, NEW p \in pdf'[d], NEW q \in pdf'[d] PROVE p = q
    BY DEF OnePdf
  <2>1. CASE tx[r].stored /\ d = tx[r].of
    <3>1. pdf'[d] = {r} BY <1>1, <1>3, <1>4, <2>1
    <3> QED BY <3>1
  <2>2. CASE ~(tx[r].stored /\ d = tx[r].of)
    <3>1. p \in pdf[d] /\ q \in pdf[d] BY <1>1, <2>2
    <3> QED BY <3>1 DEF IInv, OnePdf
  <2> QED BY <2>1, <2>2
<1> QED BY <1>1, <1>2, <1>3, <1>5

LEMMA CommitKeeps ==
  ASSUME IInv, NEW r \in Requests, Commit(r)
  PROVE  IInv'
<1> DEFINE made(d) == IF d = r /\ tx[r].new # Nil THEN tx[r].new
                      ELSE IF tx[r].acts[d] # Nil THEN [doc[d] EXCEPT !.actual = tx[r].acts[d]]
                      ELSE doc[d]
<1>1. /\ At(r, "commit")
      /\ doc' = IF r \in Deletions THEN NoActs ELSE [d \in Docs |-> made(d)]
      /\ pdf' = [d \in Docs |-> {q \in pdf[d] : [of |-> d, by |-> q] \notin tx[r].gone}
                                \cup (IF tx[r].stored /\ d = tx[r].of THEN {r} ELSE {})]
      /\ there' = (there /\ r \notin Deletions)
      /\ tx' = [tx EXCEPT ![r] = [Fresh EXCEPT !.ended = TRUE]] /\ Release(r) /\ before' = before
  BY DEF Commit
<1>2. /\ tx[r] \in TxRec /\ Suits(r, tx[r]) /\ Holds(r, tx[r], owner) /\ tx[r].todo # {}
      /\ tx[r].acts \in [Docs -> BOOLEAN \cup {Nil}] /\ tx[r].new \in DocRec \cup {Nil}
  BY <1>1, AtFirst, PointsAre DEF TxRec
<1>3. tx[r].todo = {"commit"}
  <2>1. ASSUME NEW q \in tx[r].todo PROVE q = "commit"
    <3>1. q \in Points /\ Rank["commit"] <= Rank[q] BY <1>1, <1>2, <2>1 DEF At, TxRec
    <3> QED BY <3>1, PointsAre DEF Rank
  <2> QED BY <1>1, <2>1 DEF At
<1>4. \A d \in Docs : tx[r].acts[d] # Nil => owner[d] = r /\ doc[d] # Nil
  BY <1>2, <1>3 DEF Holds
<1>5. tx[r].new # Nil => owner[r] = r BY <1>2, <1>3 DEF Holds
<1>6. /\ pdf' \in [Docs -> SUBSET (Requests \cup {Old})] /\ OnePdf'
      /\ \A d \in Docs : pdf'[d] \subseteq pdf[d] \cup (IF tx[r].stored /\ d = tx[r].of THEN {r} ELSE {})
      /\ \A d \in tx[r].wiped \cap Docs : ~(tx[r].stored /\ d = tx[r].of) => pdf'[d] = {}
  BY <1>1, <1>2, PdfsCommitted
<1>7. \A d \in Docs : doc[d] = Nil => pdf[d] = {} BY DEF IInv, TablesTyped
<1>8. CASE r \in Deletions
  <2>1. /\ Present \subseteq tx[r].wiped /\ ~tx[r].stored
        /\ \A d \in Docs : owner[d] = IF doc[d] # Nil THEN r ELSE Nil
    BY <1>2, <1>3, <1>8 DEF Holds, Suits
  <2>2. \A d \in Docs : doc'[d] = Nil BY <1>1, <1>8 DEF NoActs
  <2>3. \A d \in Docs : pdf'[d] = {} BY <1>6, <1>7, <2>1 DEF Present
  <2>4. TablesTyped'
    BY <1>1, <1>6, <1>8, <2>3, FreshTyped DEF TablesTyped, IInv, NoActs
  <2>5. HistoryTyped'
    <3>1. maker' = [d \in Docs |-> maker[d]] BY <2>2 DEF Commit
    <3> QED BY <1>1, <3>1 DEF IInv, HistoryTyped
  <2>6. \A d \in Docs : owner[d] # r => doc'[d] = doc[d] BY <2>1, <2>2
  <2> QED BY <1>1, <1>2, <1>6, <2>4, <2>5, <2>6, EndKeeps
<1>9. CASE r \notin Deletions
  <2>1. \A d \in Docs : doc'[d] = made(d) BY <1>1, <1>9
  <2>2. ASSUME NEW d \in Docs
        PROVE  /\ made(d) \in DocRec \cup {Nil}
               /\ made(d) = Nil => doc[d] = Nil
               /\ owner[d] # r => made(d) = doc[d]
    <3>1. doc[d] \in DocRec \cup {Nil} BY DEF IInv, TablesTyped
    <3>2. CASE d = r /\ tx[r].new # Nil BY <1>2, <1>5, <3>2, Distinct
    <3>3. CASE ~(d = r /\ tx[r].new # Nil) /\ tx[r].acts[d] # Nil
      <4>1. [doc[d] EXCEPT !.actual = tx[r].acts[d]] \in DocRec
        BY <1>2, <1>4, <3>1, <3>3 DEF DocRec
      <4> QED BY <1>4, <3>3, <4>1, Distinct
    <3>4. CASE ~(d = r /\ tx[r].new # Nil) /\ tx[r].acts[d] = Nil BY <3>1, <3>4
    <3> QED BY <3>2, <3>3, <3>4
  <2> HIDE DEF made
  <2>3. doc' \in [Docs -> DocRec \cup {Nil}] BY <1>1, <1>9, <2>2
  <2>4. TablesTyped'
    <3>1. \A d \in Docs : doc'[d] = Nil => pdf'[d] = {}
      BY <1>2, <1>6, <1>7, <2>1, <2>2 DEF Holds
    <3> QED BY <1>1, <1>6, <2>3, <3>1 DEF TablesTyped, IInv
  <2>5. HistoryTyped'
    <3>1. maker' \in [Docs -> Requests \cup {Old}] BY DEF Commit, IInv, HistoryTyped
    <3> QED BY <1>1, <3>1 DEF IInv, HistoryTyped
  <2>6. \A d \in Docs : owner[d] # r => doc'[d] = doc[d] BY <2>1, <2>2
  <2> QED BY <1>1, <1>2, <1>6, <2>4, <2>5, <2>6, EndKeeps
<1> QED BY <1>8, <1>9

-----------------------------------------------------------------------------
LEMMA InitOK == Init => IInv
<1> SUFFICES ASSUME Init PROVE IInv OBVIOUS
<1>1. TablesTyped /\ HistoryTyped /\ OnePdf
  BY DEF Init, TablesTyped, HistoryTyped, OnePdf
<1>2. OwnersTyped BY DEF Init, OwnersTyped
<1>3. /\ Fresh.todo = {} /\ Fresh.new = Nil /\ Fresh.acts = NoActs /\ Fresh.wiped = {}
      /\ Fresh.stored = FALSE /\ Fresh.ended = FALSE /\ Fresh = [Fresh EXCEPT !.ended = Fresh.ended]
  BY DEF Fresh
<1>4. ASSUME NEW r \in Requests PROVE Suits(r, Fresh) /\ Holds(r, Fresh, owner)
  <2>1. Suits(r, Fresh) BY <1>3, FreshTyped, Distinct DEF Suits
  <2>2. \A d \in Docs : Fresh.acts[d] = Nil BY <1>3 DEF NoActs
  <2> QED BY <1>3, <2>1, <2>2 DEF Holds
<1>5. RequestsOK
  BY <1>3, <1>4, FreshTyped DEF Init, RequestsOK, Apart
<1> QED BY <1>1, <1>2, <1>5 DEF IInv

LEMMA NextOK == IInv /\ [Next]_vars => IInv'
<1> SUFFICES ASSUME IInv, [Next]_vars PROVE IInv' OBVIOUS
<1>1. CASE UNCHANGED vars
  BY <1>1 DEF vars, IInv, TablesTyped, HistoryTyped, OwnersTyped, RequestsOK, OnePdf, Suits, Holds,
              Apart, Present, Rows
<1>2. ASSUME NEW r \in Requests, Handle(r) PROVE IInv'
  BY <1>2, AddKeeps, UpdateKeeps, RemovePdfKeeps, ArchiveKeeps, DeleteOrganizationKeeps DEF Handle
<1>3. ASSUME NEW r \in Requests, Statement(r) PROVE IInv'
  BY <1>3, InsertKeeps, SaveKeeps, WipeKeeps, PutKeeps, ClearKeeps, EraseKeeps, DropKeeps, BuryKeeps
  DEF Statement
<1>4. ASSUME NEW r \in Requests, Commit(r) \/ Fail(r) PROVE IInv'
  BY <1>4, CommitKeeps, FailKeeps
<1> QED BY <1>1, <1>2, <1>3, <1>4 DEF Next

(* Types; what nobody works on is held by nobody; no PDF without its       *)
(* document.                                                               *)
THEOREM TypeCorrect == Spec => []TypeOK
<1>1. IInv => TypeOK
  BY DEF IInv, TablesTyped, HistoryTyped, OwnersTyped, RequestsOK, TypeOK
<1> QED BY <1>1, InitOK, NextOK, PTL DEF Spec

(* A document never has two PDFs, however many uploads, removals and       *)
(* deletions of the organization overlap.                                  *)
THEOREM OnePdfKept == Spec => []OnePdf
<1>1. IInv => OnePdf BY DEF IInv
<1> QED BY <1>1, InitOK, NextOK, PTL DEF Spec

(* No foreign key refuses the deletion of an organization once its PDFs    *)
(* are erased.                                                             *)
THEOREM DeletionKept == Spec => []DeletionNotRefused
<1>1. IInv => DeletionNotRefused
  <2> SUFFICES ASSUME IInv, NEW r \in Deletions,
                      At(r, "drop") \/ At(r, "bury") \/ At(r, "commit")
               PROVE  Orphaned(r) = {} /\ \A q \in Edits : tx[q].new # Nil => ~(owner[q] = q)
    BY DEF DeletionNotRefused
  <2>1. r \in Requests /\ tx[r].todo # {} /\ "erase" \notin tx[r].todo
    BY Distinct DEF At, Rank
  <2>2. /\ Present \subseteq tx[r].wiped /\ \A d \in tx[r].wiped : Rows(d) \subseteq tx[r].gone
        /\ \A d \in Docs : owner[d] = IF doc[d] # Nil THEN r ELSE Nil
    BY <2>1 DEF IInv, RequestsOK, Holds
  <2>3. \A q \in Edits : ~(owner[q] = q) BY <2>2, Distinct
  <2> QED BY <2>2, <2>3 DEF Orphaned
<1> QED BY <1>1, InitOK, NextOK, PTL DEF Spec

-----------------------------------------------------------------------------
(* What a running request n, before which b had ended, may rely on: a      *)
(* document it has read is there for good or for nobody, with its type,    *)
(* and one that is actual since before the request was read as actual.     *)
Looks(n, b) ==
  /\ Old \in b
  /\ \A d \in Docs : n.seen[d] # Nil =>
       (d \in Edits => tx[d].ended) /\ (doc[d] # Nil => doc[d].type = n.seen[d].type)
  /\ \A d \in Docs : doc[d] # Nil /\ doc[d].actual /\ maker[d] \in b =>
       n.seen[d] # Nil /\ n.seen[d].actual

Wanted(n) == IF n.new = Nil THEN n.seen[n.of].type ELSE n.new.type
Making(n) == n.new # Nil \/ \E d \in Docs : n.acts[d] = TRUE
Archives(n) ==
  \A d \in Docs \ {n.of} :
    n.seen[d] # Nil /\ n.seen[d].type = Wanted(n) /\ n.seen[d].actual => n.acts[d] = FALSE

(* The documents a request inserts, and makes actual.                      *)
Inserts(r, d) == d = r /\ tx[r].new # Nil
Makes(r, d) == Inserts(r, d) \/ tx[r].acts[d] = TRUE

(* A request makes its own document actual and no other, and the siblings  *)
(* it has read as actual are archived before it commits.                   *)
Sets(n) ==
  /\ \A d \in Docs : n.acts[d] = TRUE => d = n.of /\ n.seen[d] # Nil
  /\ Making(n) => "clear" \in n.todo \/ Archives(n)

JInv ==
  /\ \A r \in Requests : before[r] \subseteq Committed
  /\ \A d \in Docs : maker[d] \in Committed
  /\ \A r \in Requests : tx[r].todo # {} => Looks(tx[r], before[r]) /\ Sets(tx[r])
  /\ TwoActualOnlyByOverlap

(* A statement of a request: the tables stay, and the request goes on with *)
(* what it has read.                                                       *)
LEMMA StatementLooks ==
  ASSUME IInv, JInv, NEW r \in Requests, NEW n \in TxRec, tx' = [tx EXCEPT ![r] = n],
         UNCHANGED tables, UNCHANGED history, tx[r].todo # {}, ~tx[r].ended, ~n.ended,
         n.seen = tx[r].seen, Sets(n)
  PROVE  JInv'
<1>1. tx'[r] = n /\ \A q \in Requests \ {r} : tx'[q] = tx[q] BY DEF IInv, RequestsOK
<1>2. doc' = doc /\ maker' = maker /\ before' = before BY DEF tables, history
<1>3. \A q \in Requests : tx'[q].ended = tx[q].ended
  <2>1. tx[r].ended = FALSE /\ n.ended = FALSE BY DEF IInv, RequestsOK, TxRec
  <2> QED BY <1>1, <2>1
<1>4. Committed' = Committed BY <1>3 DEF Committed
<1>5. ASSUME NEW q \in Requests, tx'[q].todo # {}
      PROVE  Looks(tx[q], before[q])' /\ Sets(tx[q])'
  <2>1. Looks(tx[q], before[q]) /\ tx'[q].seen = tx[q].seen BY <1>1, <1>5 DEF JInv
  <2>2. Looks(tx[q], before[q])'
    <3>1. \A d \in Docs : d \in Edits => tx'[d].ended = tx[d].ended BY <1>3, Distinct
    <3> QED BY <1>2, <2>1, <3>1 DEF Looks
  <2>3. Sets(tx'[q]) BY <1>1, <1>5 DEF JInv
  <2>4. Sets(tx[q])' BY <2>3 DEF Sets, Making, Archives, Wanted
  <2> QED BY <2>2, <2>4
<1>6. TwoActualOnlyByOverlap' BY <1>2 DEF JInv, TwoActualOnlyByOverlap
<1>7. \A d \in Docs : maker'[d] \in Committed' BY <1>2, <1>4 DEF JInv
<1> QED BY <1>2, <1>4, <1>5, <1>6, <1>7 DEF JInv

(* Other statements than Clear change nothing that is to be written.       *)
LEMMA AdvanceLooks ==
  ASSUME IInv, JInv, NEW r \in Requests, NEW p \in Points \ {"clear"}, At(r, p), NEW n \in TxRec,
         tx' = [tx EXCEPT ![r] = n], UNCHANGED tables, UNCHANGED history,
         n.todo = tx[r].todo \ {p}, n.of = tx[r].of, n.new = tx[r].new, n.acts = tx[r].acts,
         n.seen = tx[r].seen, n.ended = tx[r].ended
  PROVE  JInv'
<1>1. ~tx[r].ended /\ tx[r].todo # {} BY AtFirst
<1>2. Sets(tx[r]) BY <1>1 DEF JInv
<1>3. Sets(n) BY <1>2 DEF Sets, Making, Archives, Wanted
<1> QED BY <1>1, <1>3, StatementLooks

LEMMA ClearLooks == ASSUME IInv, JInv, NEW r \in Requests, Clear(r) PROVE JInv'
<1> DEFINE f == [d \in Docs |-> IF d \in ToClear(r) THEN FALSE ELSE tx[r].acts[d]]
           n == [Advanced(r, "clear") EXCEPT !.acts = f]
<1>1. At(r, "clear") /\ UNCHANGED tables /\ UNCHANGED history BY DEF Clear
<1>2. tx[r] \in TxRec /\ ~tx[r].ended /\ tx[r].todo # {} BY <1>1, AtFirst, PointsAre
<1>3. tx' = [tx EXCEPT ![r] = n]
  <2>1. Advanced(r, "clear").acts = tx[r].acts BY <1>2 DEF Advanced, TxRec
  <2> QED BY <2>1 DEF Clear, Advanced
<1>4. f \in [Docs -> BOOLEAN \cup {Nil}] /\ \A d \in Docs : f[d] = TRUE => tx[r].acts[d] = TRUE
  BY <1>2 DEF TxRec
<1>5. \A d \in ToClear(r) : d \in Docs /\ f[d] = FALSE BY DEF ToClear, Siblings
<1> HIDE DEF f
<1>6. /\ n \in TxRec /\ n.of = tx[r].of /\ n.new = tx[r].new
      /\ n.acts = f /\ n.seen = tx[r].seen /\ n.ended = tx[r].ended
  BY <1>2, <1>4 DEF Advanced, TxRec
<1> HIDE DEF n
<1>7. Sets(tx[r]) BY <1>2 DEF JInv
<1>8. Archives(n)
  <2> SUFFICES ASSUME NEW d \in Docs \ {n.of}, n.seen[d] # Nil, n.seen[d].type = Wanted(n),
                      n.seen[d].actual
               PROVE  n.acts[d] = FALSE
    BY DEF Archives
  <2>1. Wanted(n) = TypeOf(r) BY <1>6 DEF Wanted, TypeOf
  <2>2. d \in ToClear(r) BY <1>6, <2>1 DEF ToClear, Siblings
  <2> QED BY <1>5, <1>6, <2>2
<1>9. Sets(n) BY <1>4, <1>6, <1>7, <1>8 DEF Sets
<1> QED BY <1>1, <1>2, <1>3, <1>6, <1>9, StatementLooks

LEMMA StatementsLook == ASSUME IInv, JInv, NEW r \in Requests, Statement(r) PROVE JInv'
<1>1. \A d \in Docs : Rows(d) \subseteq PdfRow BY DEF IInv, TablesTyped, Rows, PdfRow
<1>2. CASE Insert(r)
  <2> DEFINE n == Advanced(r, "insert")
  <2>1. At(r, "insert") /\ tx' = [tx EXCEPT ![r] = n] /\ UNCHANGED tables /\ UNCHANGED history
    BY <1>2 DEF Insert
  <2>2. "insert" \in Points \ {"clear"} /\ tx[r] \in TxRec BY <2>1, PointsAre, AtFirst
  <2>3. /\ n \in TxRec /\ n.todo = tx[r].todo \ {"insert"} /\ n.of = tx[r].of /\ n.new = tx[r].new
        /\ n.acts = tx[r].acts /\ n.seen = tx[r].seen /\ n.ended = tx[r].ended
    BY <2>2 DEF Advanced, TxRec
  <2> HIDE DEF n
  <2> QED BY <2>1, <2>2, <2>3, AdvanceLooks
<1>3. ASSUME NEW p \in {"save", "mark"}, Save(r, p) PROVE JInv'
  <2> DEFINE n == Advanced(r, p)
  <2>1. At(r, p) /\ tx' = [tx EXCEPT ![r] = n] /\ UNCHANGED tables /\ UNCHANGED history
    BY <1>3 DEF Save
  <2>2. p \in Points \ {"clear"} /\ tx[r] \in TxRec BY <2>1, PointsAre, AtFirst
  <2>3. /\ n \in TxRec /\ n.todo = tx[r].todo \ {p} /\ n.of = tx[r].of /\ n.new = tx[r].new
        /\ n.acts = tx[r].acts /\ n.seen = tx[r].seen /\ n.ended = tx[r].ended
    BY <2>2 DEF Advanced, TxRec
  <2> HIDE DEF n
  <2> QED BY <2>1, <2>2, <2>3, AdvanceLooks
<1>4. CASE Wipe(r)
  <2> DEFINE n == [Advanced(r, "wipe") EXCEPT !.wiped = {tx[r].of}, !.gone = Rows(tx[r].of)]
  <2>1. At(r, "wipe") /\ tx' = [tx EXCEPT ![r] = n] /\ UNCHANGED tables /\ UNCHANGED history
    BY <1>4 DEF Wipe
  <2>2. "wipe" \in Points \ {"clear"} /\ tx[r] \in TxRec /\ "wipe" \in tx[r].todo /\ Suits(r, tx[r])
    BY <2>1, PointsAre, AtFirst
  <2>3. tx[r].of \in Docs /\ Rows(tx[r].of) \in SUBSET PdfRow BY <1>1, <2>2, Distinct DEF Suits
  <2>4. /\ n \in TxRec /\ n.todo = tx[r].todo \ {"wipe"} /\ n.of = tx[r].of /\ n.new = tx[r].new
        /\ n.acts = tx[r].acts /\ n.seen = tx[r].seen /\ n.ended = tx[r].ended
    BY <2>2, <2>3 DEF Advanced, TxRec
  <2> HIDE DEF n
  <2> QED BY <2>1, <2>2, <2>4, AdvanceLooks
<1>5. CASE Put(r)
  <2> DEFINE n == [Advanced(r, "put") EXCEPT !.stored = TRUE]
  <2>1. At(r, "put") /\ tx' = [tx EXCEPT ![r] = n] /\ UNCHANGED tables /\ UNCHANGED history
    BY <1>5 DEF Put
  <2>2. "put" \in Points \ {"clear"} /\ tx[r] \in TxRec BY <2>1, PointsAre, AtFirst
  <2>3. /\ n \in TxRec /\ n.todo = tx[r].todo \ {"put"} /\ n.of = tx[r].of /\ n.new = tx[r].new
        /\ n.acts = tx[r].acts /\ n.seen = tx[r].seen /\ n.ended = tx[r].ended
    BY <2>2 DEF Advanced, TxRec
  <2> HIDE DEF n
  <2> QED BY <2>1, <2>2, <2>3, AdvanceLooks
<1>6. CASE Erase(r)
  <2> DEFINE g == UNION {Rows(d) : d \in Present}
             n == [Advanced(r, "erase") EXCEPT !.wiped = Present, !.gone = g]
  <2>1. At(r, "erase") /\ tx' = [tx EXCEPT ![r] = n] /\ UNCHANGED tables /\ UNCHANGED history
    BY <1>6 DEF Erase
  <2>2. "erase" \in Points \ {"clear"} /\ tx[r] \in TxRec BY <2>1, PointsAre, AtFirst
  <2>3. Present \in SUBSET Docs /\ g \in SUBSET PdfRow BY <1>1 DEF Present
  <2> HIDE DEF g
  <2>4. /\ n \in TxRec /\ n.todo = tx[r].todo \ {"erase"} /\ n.of = tx[r].of /\ n.new = tx[r].new
        /\ n.acts = tx[r].acts /\ n.seen = tx[r].seen /\ n.ended = tx[r].ended
    BY <2>2, <2>3 DEF Advanced, TxRec
  <2> HIDE DEF n
  <2> QED BY <2>1, <2>2, <2>4, AdvanceLooks
<1>7. CASE Drop(r)
  <2> DEFINE n == Advanced(r, "drop")
  <2>1. At(r, "drop") /\ tx' = [tx EXCEPT ![r] = n] /\ UNCHANGED tables /\ UNCHANGED history
    BY <1>7 DEF Drop
  <2>2. "drop" \in Points \ {"clear"} /\ tx[r] \in TxRec BY <2>1, PointsAre, AtFirst
  <2>3. /\ n \in TxRec /\ n.todo = tx[r].todo \ {"drop"} /\ n.of = tx[r].of /\ n.new = tx[r].new
        /\ n.acts = tx[r].acts /\ n.seen = tx[r].seen /\ n.ended = tx[r].ended
    BY <2>2 DEF Advanced, TxRec
  <2> HIDE DEF n
  <2> QED BY <2>1, <2>2, <2>3, AdvanceLooks
<1>8. CASE Bury(r)
  <2> DEFINE n == Advanced(r, "bury")
  <2>1. At(r, "bury") /\ tx' = [tx EXCEPT ![r] = n] /\ UNCHANGED tables /\ UNCHANGED history
    BY <1>8 DEF Bury
  <2>2. "bury" \in Points \ {"clear"} /\ tx[r] \in TxRec BY <2>1, PointsAre, AtFirst
  <2>3. /\ n \in TxRec /\ n.todo = tx[r].todo \ {"bury"} /\ n.of = tx[r].of /\ n.new = tx[r].new
        /\ n.acts = tx[r].acts /\ n.seen = tx[r].seen /\ n.ended = tx[r].ended
    BY <2>2 DEF Advanced, TxRec
  <2> HIDE DEF n
  <2> QED BY <2>1, <2>2, <2>3, AdvanceLooks
<1> QED BY <1>2, <1>3, <1>4, <1>5, <1>6, <1>7, <1>8, ClearLooks DEF Statement

-----------------------------------------------------------------------------
(* A request that begins sees the documents as they are.                   *)
LEMMA StartLooks ==
  ASSUME IInv, JInv, NEW r \in Requests, NEW n \in TxRec, Idle(r), Start(r, n),
         n.seen = doc, ~n.ended, Sets(n)
  PROVE  JInv'
<1>1. tx'[r] = n /\ \A q \in Requests \ {r} : tx'[q] = tx[q] BY DEF Start, IInv, RequestsOK
<1>2. doc' = doc /\ maker' = maker BY DEF Start, tables
<1>3. before'[r] = Committed /\ \A q \in Requests \ {r} : before'[q] = before[q]
  BY DEF Start, IInv, HistoryTyped
<1>4. \A q \in Requests : tx'[q].ended = tx[q].ended
  <2>1. tx[r].ended = FALSE /\ n.ended = FALSE BY DEF Idle, Fresh, TxRec
  <2> QED BY <1>1, <2>1
<1>5. Committed' = Committed BY <1>4 DEF Committed
<1>6. tx[r].todo = {} BY DEF Idle, Fresh
<1>7. \A d \in Docs : d \in Edits => tx'[d].ended = tx[d].ended BY <1>4, Distinct
<1>8. ASSUME NEW q \in Requests, tx'[q].todo # {}
      PROVE  Looks(tx[q], before[q])' /\ Sets(tx[q])'
  <2>1. CASE q = r
    <3>1. Looks(n, Committed)
      BY Distinct DEF Looks, Committed, IInv, RequestsOK
    <3>2. Looks(tx[r], before[r])' BY <1>1, <1>2, <1>3, <1>7, <3>1 DEF Looks
    <3>3. Sets(tx[r])' BY <1>1 DEF Sets, Making, Archives, Wanted
    <3> QED BY <2>1, <3>2, <3>3
  <2>2. CASE q # r
    <3>1. Looks(tx[q], before[q]) /\ Sets(tx[q]) /\ tx'[q] = tx[q] /\ before'[q] = before[q]
      BY <1>1, <1>3, <1>8, <2>2 DEF JInv
    <3>2. Looks(tx[q], before[q])' BY <1>2, <1>7, <3>1 DEF Looks
    <3>3. Sets(tx[q])' BY <3>1 DEF Sets, Making, Archives, Wanted
    <3> QED BY <3>2, <3>3
  <2> QED BY <2>1, <2>2
<1>9. \A q \in Requests : before'[q] \subseteq Committed'
  BY <1>3, <1>5 DEF JInv
<1>10. TwoActualOnlyByOverlap'
  <2> SUFFICES ASSUME NEW d \in Docs, NEW e \in Docs, d # e, doc[d] # Nil, doc[e] # Nil,
                      doc[d].type = doc[e].type, doc[d].actual, doc[e].actual
               PROVE  maker[e] # Old /\ maker[d] \notin before'[maker[e]]
    BY <1>2 DEF TwoActualOnlyByOverlap
  <2>1. maker[e] # Old /\ maker[d] \notin before[maker[e]] BY DEF JInv, TwoActualOnlyByOverlap
  <2>2. maker[e] \in Requests BY <2>1 DEF IInv, HistoryTyped
  <2>3. maker[e] # r
    <3>1. maker[e] \in Committed /\ ~tx[r].ended BY DEF JInv, Idle, Fresh
    <3> QED BY <2>1, <3>1 DEF Committed
  <2> QED BY <1>3, <2>1, <2>2, <2>3
<1>11. \A d \in Docs : maker'[d] \in Committed' BY <1>2, <1>5 DEF JInv
<1> QED BY <1>8, <1>9, <1>10, <1>11 DEF JInv

(* A request that makes nothing actual, or has its siblings to clear.      *)
LEMMA StartSets ==
  ASSUME IInv, JInv, NEW r \in Requests, NEW n \in TxRec, Idle(r), Start(r, n),
         n.seen = doc, n.ended = FALSE,
         \A d \in Docs : n.acts[d] = TRUE => d = n.of /\ doc[d] # Nil /\ "clear" \in n.todo,
         n.new # Nil => "clear" \in n.todo
  PROVE  JInv'
<1>1. Sets(n) BY DEF Sets, Making
<1> QED BY <1>1, StartLooks

LEMMA HandlesLook == ASSUME IInv, JInv, NEW r \in Requests, Handle(r) PROVE JInv'
<1>1. \A d \in Docs : NoActs[d] = Nil /\ Nil # TRUE BY NameAssumption DEF NoActs
<1>2. ASSUME NEW t \in Types, Add(r, t) PROVE JInv'
  <2> DEFINE todo == {"insert", "clear", "commit"}
             m == Begin(r, r, todo)
             new == [type |-> t, actual |-> TRUE]
             n == [m EXCEPT !.new = new]
  <2>1. r \in Docs /\ Idle(r) /\ Start(r, n) BY <1>2, Distinct DEF Add
  <2>2. todo \in SUBSET Points /\ "clear" \in todo BY PointsAre
  <2> HIDE DEF todo
  <2>3. /\ m \in TxRec /\ m.seen = doc /\ m.todo = todo /\ m.ended = FALSE /\ m.of = r
        /\ m.acts = NoActs
    <3>1. m \in TxRec BY <2>1, <2>2, Snapshot
    <3> QED BY <3>1 DEF Begin, Fresh
  <2>4. new \in DocRec BY DEF DocRec
  <2> HIDE DEF m, new
  <2>5. /\ n \in TxRec /\ n.seen = doc /\ n.todo = todo /\ n.ended = FALSE /\ n.of = r
        /\ n.acts = NoActs
    BY <2>3, <2>4 DEF TxRec
  <2> HIDE DEF n
  <2> QED BY StartSets, <1>1, <2>1, <2>2, <2>5
<1>3. ASSUME NEW d \in Docs, NEW actual \in BOOLEAN, NEW upload \in BOOLEAN,
             Update(r, d, actual, upload)
      PROVE  JInv'
  <2> DEFINE todo == {"save", "commit"} \cup (IF upload THEN {"wipe", "put"} ELSE {})
                                        \cup (IF actual THEN {"clear"} ELSE {})
             m == Begin(r, d, todo)
             a == IF doc[d].actual = actual THEN Nil ELSE actual
             n == [m EXCEPT !.acts[d] = a]
  <2>1. Idle(r) /\ Start(r, n) /\ doc[d] # Nil BY <1>3 DEF Update
  <2>2. todo \in SUBSET Points /\ (actual = TRUE => "clear" \in todo) BY PointsAre
  <2> HIDE DEF todo
  <2>3. /\ m \in TxRec /\ m.seen = doc /\ m.todo = todo /\ m.ended = FALSE /\ m.of = d
        /\ m.new = Nil /\ m.acts = NoActs
    <3>1. m \in TxRec BY <2>1, <2>2, Snapshot
    <3> QED BY <3>1 DEF Begin, Fresh
  <2>4. a \in BOOLEAN \cup {Nil} /\ (a = TRUE => actual = TRUE) BY NameAssumption
  <2> HIDE DEF m, a
  <2>5. /\ n \in TxRec /\ n.seen = doc /\ n.todo = todo /\ n.ended = FALSE /\ n.of = d
        /\ n.new = Nil /\ n.acts[d] = a /\ \A e \in Docs \ {d} : n.acts[e] = Nil
    BY <1>1, <2>3, <2>4 DEF TxRec
  <2> HIDE DEF n
  <2>6. \A e \in Docs : n.acts[e] = TRUE => e = d /\ a = TRUE BY <1>1, <2>5
  <2> QED BY StartSets, <2>1, <2>2, <2>4, <2>5, <2>6
<1>4. ASSUME NEW d \in Docs, RemovePdf(r, d) PROVE JInv'
  <2> DEFINE todo == {"wipe", "mark", "commit"}
             n == Begin(r, d, todo)
  <2>1. Idle(r) /\ Start(r, n) BY <1>4 DEF RemovePdf
  <2>2. todo \in SUBSET Points BY PointsAre
  <2> HIDE DEF todo
  <2>3. /\ n \in TxRec /\ n.seen = doc /\ n.todo = todo /\ n.ended = FALSE /\ n.of = d
        /\ n.new = Nil /\ n.acts = NoActs
    <3>1. n \in TxRec BY <2>1, <2>2, Snapshot
    <3> QED BY <3>1 DEF Begin, Fresh
  <2> HIDE DEF n
  <2> QED BY StartSets, <1>1, <2>1, <2>2, <2>3
<1>5. ASSUME NEW d \in Docs, Archive(r, d) PROVE JInv'
  <2> DEFINE todo == {"save", "commit"}
             m == Begin(r, d, todo)
             a == IF doc[d].actual THEN FALSE ELSE Nil
             n == [m EXCEPT !.acts[d] = a]
  <2>1. Idle(r) /\ Start(r, n) /\ doc[d] # Nil BY <1>5 DEF Archive
  <2>2. todo \in SUBSET Points BY PointsAre
  <2> HIDE DEF todo
  <2>3. /\ m \in TxRec /\ m.seen = doc /\ m.todo = todo /\ m.ended = FALSE /\ m.of = d
        /\ m.new = Nil /\ m.acts = NoActs
    <3>1. m \in TxRec BY <2>1, <2>2, Snapshot
    <3> QED BY <3>1 DEF Begin, Fresh
  <2>4. a \in BOOLEAN \cup {Nil} /\ a # TRUE BY NameAssumption
  <2> HIDE DEF m, a
  <2>5. /\ n \in TxRec /\ n.seen = doc /\ n.todo = todo /\ n.ended = FALSE /\ n.of = d
        /\ n.new = Nil /\ n.acts[d] = a /\ \A e \in Docs \ {d} : n.acts[e] = Nil
    BY <1>1, <2>3, <2>4 DEF TxRec
  <2> HIDE DEF n
  <2>6. \A e \in Docs : n.acts[e] = TRUE => e = d /\ a = TRUE BY <1>1, <2>5
  <2> QED BY StartSets, <2>1, <2>2, <2>4, <2>5, <2>6
<1>6. CASE DeleteOrganization(r)
  <2> DEFINE todo == {"erase", "drop", "bury", "commit"}
             n == Begin(r, Nil, todo)
  <2>1. Idle(r) /\ Start(r, n) BY <1>6 DEF DeleteOrganization
  <2>2. todo \in SUBSET Points BY PointsAre
  <2> HIDE DEF todo
  <2>3. /\ n \in TxRec /\ n.seen = doc /\ n.todo = todo /\ n.ended = FALSE /\ n.of = Nil
        /\ n.new = Nil /\ n.acts = NoActs
    <3>1. n \in TxRec BY <2>1, <2>2, Snapshot
    <3> QED BY <3>1 DEF Begin, Fresh
  <2> HIDE DEF n
  <2> QED BY StartSets, <1>1, <2>1, <2>2, <2>3
<1> QED BY <1>2, <1>3, <1>4, <1>5, <1>6 DEF Handle

-----------------------------------------------------------------------------
(* The end of a request, for the others: no document changes its type, and *)
(* what has become actual is the request's own.                            *)
LEMMA EndLooks ==
  ASSUME IInv, JInv, NEW r \in Requests, tx[r].todo # {},
         tx' = [tx EXCEPT ![r] = [Fresh EXCEPT !.ended = TRUE]], before' = before,
         \A d \in Docs : doc'[d] # Nil =>
           \/ doc[d] # Nil /\ doc'[d].type = doc[d].type
           \/ doc[d] = Nil /\ d = r,
         \A d \in Docs : maker'[d] \in {r, maker[d]},
         \A d \in Docs : doc'[d] # Nil /\ doc'[d].actual =>
           maker'[d] = r \/ (maker'[d] = maker[d] /\ doc'[d] = doc[d]),
         TwoActualOnlyByOverlap'
  PROVE  JInv'
<1> DEFINE done == [Fresh EXCEPT !.ended = TRUE]
<1>1. done \in TxRec /\ done.todo = {} /\ done.ended = TRUE BY FreshTyped DEF Fresh
<1> HIDE DEF done
<1>2. tx'[r] = done /\ \A q \in Requests \ {r} : tx'[q] = tx[q]
  BY DEF done, IInv, RequestsOK
<1>3. ~tx[r].ended BY DEF IInv, RequestsOK, Suits
<1>4. Committed' = Committed \cup {r} /\ r \notin Committed
  BY <1>1, <1>2, <1>3, Distinct DEF Committed
<1>5. ASSUME NEW q \in Requests, tx'[q].todo # {}
      PROVE  Looks(tx[q], before[q])' /\ Sets(tx[q])'
  <2>1. q # r /\ tx'[q] = tx[q] /\ Looks(tx[q], before[q]) /\ Sets(tx[q])
    BY <1>1, <1>2, <1>5 DEF JInv
  <2>2. r \notin before[q] BY <1>4 DEF JInv
  <2>3. ASSUME NEW d \in Docs, tx[q].seen[d] # Nil
        PROVE  /\ d \in Edits => tx'[d].ended
               /\ doc'[d] # Nil => doc'[d].type = tx[q].seen[d].type
    <3>1. /\ d \in Edits => tx[d].ended
          /\ doc[d] # Nil => doc[d].type = tx[q].seen[d].type
      BY <2>1, <2>3 DEF Looks
    <3>2. d \in Edits => d \in Requests BY Distinct
    <3>3. d \in Edits => tx'[d].ended BY <1>1, <1>2, <3>1, <3>2
    <3>4. ASSUME doc'[d] # Nil PROVE doc[d] # Nil /\ doc'[d].type = doc[d].type
      <4>1. d # r
        <5> SUFFICES ASSUME d = r PROVE FALSE OBVIOUS
        <5> QED BY <1>3, <3>1, Distinct
      <4> QED BY <3>4, <4>1
    <3> QED BY <3>1, <3>3, <3>4
  <2>4. ASSUME NEW d \in Docs, doc'[d] # Nil, doc'[d].actual, maker'[d] \in before[q]
        PROVE  tx[q].seen[d] # Nil /\ tx[q].seen[d].actual
    <3>1. maker'[d] = maker[d] /\ doc'[d] = doc[d] BY <2>2, <2>4
    <3> QED BY <2>1, <2>4, <3>1 DEF Looks
  <2>5. Looks(tx[q], before[q])' BY <2>1, <2>3, <2>4 DEF Looks
  <2>6. Sets(tx[q])' BY <2>1 DEF Sets, Making, Archives, Wanted
  <2> QED BY <2>5, <2>6
<1>6. /\ \A q \in Requests : before'[q] \subseteq Committed'
      /\ \A d \in Docs : maker'[d] \in Committed'
  BY <1>4 DEF JInv
<1> QED BY <1>5, <1>6 DEF JInv

LEMMA FailLooks == ASSUME IInv, JInv, NEW r \in Requests, Fail(r) PROVE JInv'
<1>1. doc' = doc /\ maker' = maker /\ before' = before /\ tx[r].todo # {}
      /\ tx' = [tx EXCEPT ![r] = [Fresh EXCEPT !.ended = TRUE]]
  BY DEF Fail, tables, history
<1>2. TwoActualOnlyByOverlap' BY <1>1 DEF JInv, TwoActualOnlyByOverlap
<1> QED BY <1>1, <1>2, EndLooks

-----------------------------------------------------------------------------
(* What becomes of a document when an edit commits: it is made by the edit *)
(* or stays as it is, unless it is archived.                               *)
LEMMA CommitMakes ==
  ASSUME IInv, NEW r \in Requests, Commit(r), r \notin Deletions, NEW d \in Docs
  PROVE  /\ maker'[d] \in {r, maker[d]}
         /\ doc'[d] # Nil =>
              \/ doc[d] # Nil /\ ~Inserts(r, d) /\ doc'[d].type = doc[d].type
              \/ doc[d] = Nil /\ Inserts(r, d) /\ doc'[d].type = tx[r].new.type
         /\ doc'[d] # Nil /\ doc'[d].actual =>
              \/ Makes(r, d) /\ maker'[d] = r
              \/ /\ ~Makes(r, d) /\ tx[r].acts[d] = Nil
                 /\ maker'[d] = maker[d] /\ doc'[d] = doc[d]
<1>1. At(r, "commit") BY DEF Commit
<1>2. tx[r] \in TxRec /\ Suits(r, tx[r]) /\ Holds(r, tx[r], owner) /\ ~tx[r].ended
  BY <1>1, AtFirst, PointsAre
<1>3. "save" \notin tx[r].todo BY <1>1, <1>2 DEF At, Rank
<1>4. /\ doc'[d] = IF Inserts(r, d) THEN tx[r].new
                   ELSE IF tx[r].acts[d] # Nil THEN [doc[d] EXCEPT !.actual = tx[r].acts[d]]
                   ELSE doc[d]
      /\ maker'[d] = IF doc'[d] # Nil /\ doc'[d].actual /\ (tx[r].acts[d] = TRUE \/ Inserts(r, d))
                     THEN r ELSE maker[d]
  BY DEF Commit, Inserts
<1>5. tx[r].acts[d] \in BOOLEAN \cup {Nil} /\ doc[d] \in DocRec \cup {Nil}
  BY <1>2 DEF TxRec, IInv, TablesTyped
<1>6. maker'[d] \in {r, maker[d]} BY <1>4
<1>7. CASE Inserts(r, d)
  <2>1. doc[d] = Nil BY <1>2, <1>7, Distinct DEF IInv, RequestsOK, Inserts
  <2> QED BY <1>4, <1>6, <1>7, <2>1 DEF Makes
<1>8. CASE ~Inserts(r, d) /\ tx[r].acts[d] # Nil
  <2>1. doc[d] # Nil BY <1>2, <1>3, <1>8 DEF Holds
  <2>2. doc'[d].type = doc[d].type /\ doc'[d].actual = tx[r].acts[d]
    BY <1>4, <1>5, <1>8, <2>1 DEF DocRec
  <2>3. tx[r].acts[d] \in BOOLEAN BY <1>5, <1>8
  <2>4. doc'[d].actual => tx[r].acts[d] = TRUE BY <2>2, <2>3
  <2>5. doc'[d] # Nil /\ doc'[d].actual => tx[r].acts[d] = TRUE /\ maker'[d] = r
    BY <1>4, <2>4
  <2>6. doc[d] # Nil /\ ~Inserts(r, d) /\ doc'[d].type = doc[d].type BY <1>8, <2>1, <2>2
  <2>7. doc'[d] # Nil /\ doc'[d].actual => Makes(r, d) /\ maker'[d] = r BY <2>5 DEF Makes
  <2> QED BY <1>6, <2>6, <2>7
<1>9. CASE ~Inserts(r, d) /\ tx[r].acts[d] = Nil
  <2>1. ~Makes(r, d) BY <1>9, NameAssumption DEF Makes
  <2>2. doc'[d] = doc[d] BY <1>4, <1>9
  <2>3. maker'[d] = maker[d] BY <1>4, <2>1 DEF Makes
  <2>4. tx[r].acts[d] = Nil /\ ~Inserts(r, d) BY <1>9
  <2> QED BY <1>6, <2>1, <2>2, <2>3, <2>4
<1> QED BY <1>7, <1>8, <1>9

(* What is actual beside a document an edit has made so was made so by     *)
(* somebody who had not ended when the edit began.                         *)
LEMMA RivalsOverlap ==
  ASSUME IInv, JInv, NEW r \in Requests, Commit(r), r \notin Deletions,
         NEW d \in Docs, NEW e \in Docs, d # e, doc'[d] # Nil, doc'[e] # Nil,
         doc'[d].type = doc'[e].type, doc'[d].actual, doc'[e].actual,
         Makes(r, d)
  PROVE  maker'[d] = r /\ maker'[e] = maker[e] /\ maker[e] \notin before[r]
<1>1. At(r, "commit") BY DEF Commit
<1>2. tx[r] \in TxRec /\ Suits(r, tx[r]) /\ ~tx[r].ended /\ tx[r].todo # {}
  BY <1>1, AtFirst, PointsAre
<1>3. "clear" \notin tx[r].todo BY <1>1, <1>2 DEF At, Rank
<1>4. Looks(tx[r], before[r]) /\ Sets(tx[r]) BY <1>2 DEF JInv
<1>5. tx[r].new # Nil => tx[r].of = r BY <1>2, Distinct DEF Suits
<1>6. d = tx[r].of BY <1>4, <1>5 DEF Sets, Makes, Inserts
<1>7. Archives(tx[r]) BY <1>3, <1>4 DEF Sets, Making, Makes, Inserts
<1>8. maker'[d] = r BY CommitMakes
<1>9. ~Makes(r, e) BY <1>4, <1>5, <1>6 DEF Sets, Makes, Inserts
<1>10. tx[r].acts[e] = Nil /\ maker'[e] = maker[e] /\ doc'[e] = doc[e]
  BY <1>9, CommitMakes
<1>11. Wanted(tx[r]) = doc'[d].type
  <2>1. CASE tx[r].new # Nil
    <3>1. Inserts(r, d) BY <1>5, <1>6, <2>1 DEF Inserts
    <3>2. doc'[d].type = tx[r].new.type BY <3>1, CommitMakes
    <3> QED BY <2>1, <3>2 DEF Wanted
  <2>2. CASE tx[r].new = Nil
    <3>1. tx[r].seen[d] # Nil BY <1>4, <2>2 DEF Sets, Makes, Inserts
    <3>2. doc[d] # Nil /\ doc'[d].type = doc[d].type BY <2>2, CommitMakes DEF Inserts
    <3>3. doc[d].type = tx[r].seen[d].type BY <1>4, <3>1, <3>2 DEF Looks
    <3> QED BY <1>6, <2>2, <3>2, <3>3 DEF Wanted
  <2> QED BY <2>1, <2>2
<1>12. ASSUME maker[e] \in before[r] PROVE FALSE
  <2>1. tx[r].seen[e] # Nil /\ tx[r].seen[e].actual /\ tx[r].seen[e].type = doc[e].type
    BY <1>4, <1>10, <1>12 DEF Looks
  <2>2. tx[r].acts[e] = FALSE BY <1>6, <1>7, <1>10, <1>11, <2>1 DEF Archives
  <2> QED BY <1>10, <2>2, NameAssumption
<1> QED BY <1>8, <1>10, <1>12

LEMMA CommitLooks == ASSUME IInv, JInv, NEW r \in Requests, Commit(r) PROVE JInv'
<1>1. /\ At(r, "commit") /\ before' = before
      /\ tx' = [tx EXCEPT ![r] = [Fresh EXCEPT !.ended = TRUE]]
  BY DEF Commit
<1>2. tx[r].todo # {} /\ ~tx[r].ended BY <1>1, AtFirst, PointsAre
<1>3. CASE r \in Deletions
  <2>1. \A d \in Docs : doc'[d] = Nil /\ maker'[d] \in {r, maker[d]}
    BY <1>3 DEF Commit, NoActs
  <2>2. TwoActualOnlyByOverlap' BY <2>1 DEF TwoActualOnlyByOverlap
  <2> QED BY <1>1, <1>2, <2>1, <2>2, EndLooks
<1>4. CASE r \notin Deletions
  <2>1. ASSUME NEW d \in Docs
        PROVE  /\ maker'[d] \in {r, maker[d]}
               /\ doc'[d] # Nil => \/ doc[d] # Nil /\ doc'[d].type = doc[d].type
                                   \/ doc[d] = Nil /\ d = r
               /\ doc'[d] # Nil /\ doc'[d].actual =>
                    maker'[d] = r \/ (maker'[d] = maker[d] /\ doc'[d] = doc[d])
    BY <1>4, CommitMakes DEF Inserts
  <2>2. TwoActualOnlyByOverlap'
    <3> SUFFICES ASSUME NEW d \in Docs, NEW e \in Docs, d # e, doc'[d] # Nil, doc'[e] # Nil,
                        doc'[d].type = doc'[e].type, doc'[d].actual, doc'[e].actual
                 PROVE  maker'[e] # Old /\ maker'[d] \notin before[maker'[e]]
      BY <1>1 DEF TwoActualOnlyByOverlap
    <3>1. CASE Makes(r, e)
      <4>1. maker'[e] = r /\ maker'[d] = maker[d] /\ maker[d] \notin before[r]
        BY <1>4, <3>1, RivalsOverlap
      <4> QED BY <4>1, Distinct
    <3>2. CASE Makes(r, d)
      <4>1. maker'[d] = r /\ maker'[e] = maker[e] /\ maker[e] \notin before[r]
        BY <1>4, <3>2, RivalsOverlap
      <4>2. maker[e] # Old BY <1>2, <4>1 DEF JInv, Looks
      <4>3. maker[e] \in Requests BY <4>2 DEF IInv, HistoryTyped
      <4>4. r \notin before[maker[e]] BY <1>2, <4>3, Distinct DEF JInv, Committed
      <4> QED BY <4>1, <4>2, <4>4
    <3>3. CASE ~Makes(r, d) /\ ~Makes(r, e)
      <4>1. maker'[d] = maker[d] /\ doc'[d] = doc[d] BY <1>4, <3>3, CommitMakes
      <4>2. maker'[e] = maker[e] /\ doc'[e] = doc[e] BY <1>4, <3>3, CommitMakes
      <4> QED BY <4>1, <4>2 DEF JInv, TwoActualOnlyByOverlap
    <3> QED BY <3>1, <3>2, <3>3
  <2> QED BY <1>1, <1>2, <2>1, <2>2, EndLooks
<1> QED BY <1>3, <1>4

LEMMA InitLooks == Init => JInv
<1> SUFFICES ASSUME Init PROVE JInv OBVIOUS
<1>1. \A r \in Requests : tx[r].todo = {} /\ before[r] = {} BY DEF Init, Fresh
<1>2. \A d \in Docs : maker[d] \in Committed BY DEF Init, Committed
<1>3. TwoActualOnlyByOverlap
  <2>1. \A d \in Docs : doc[d] # Nil => d \in OldDocs BY DEF Init, Docs
  <2> QED BY <2>1 DEF Init, TwoActualOnlyByOverlap
<1> QED BY <1>1, <1>2, <1>3 DEF JInv

LEMMA NextLooks == IInv /\ JInv /\ [Next]_vars => JInv'
<1> SUFFICES ASSUME IInv, JInv, [Next]_vars PROVE JInv' OBVIOUS
<1>1. CASE UNCHANGED vars
  BY <1>1 DEF vars, JInv, Looks, Sets, Making, Archives, Wanted, Committed, TwoActualOnlyByOverlap
<1>2. ASSUME NEW r \in Requests, Handle(r) \/ Statement(r) \/ Commit(r) \/ Fail(r) PROVE JInv'
  BY <1>2, HandlesLook, StatementsLook, CommitLooks, FailLooks
<1> QED BY <1>1, <1>2 DEF Next

(* However many requests overlap, two documents of a type are both actual  *)
(* only if the two requests that made them so overlapped.                  *)
THEOREM TwoActualsByOverlap == Spec => []TwoActualOnlyByOverlap
<1>1. JInv => TwoActualOnlyByOverlap BY DEF JInv
<1> QED BY <1>1, InitOK, NextOK, InitLooks, NextLooks, PTL DEF Spec
=============================================================================
