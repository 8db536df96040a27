------------------------------ MODULE Documents -----------------------------
(***************************************************************************)
(* The documents of an organization and their PDF files                    *)
(* (services/organization_card_write.py), with the deletion of the         *)
(* organization.  Documents of different organizations never meet, so      *)
(* there is one organization.                                              *)
(*                                                                         *)
(* Each request is a MySQL transaction at REPEATABLE READ.  Its SELECTs    *)
(* see the documents as they were when it first read; its statements that  *)
(* write meet them as they are, and wait for rows and gaps that others     *)
(* hold.  SQLAlchemy writes a column only if it differs from what was      *)
(* read, and the statements of one flush are one step.                     *)
(***************************************************************************)
EXTENDS Integers, FiniteSets

CONSTANTS
  Edits, Deletions,   \* bound: each is one transaction
  Types,              \* contract_datatype
  OldDocs,            \* documents the organization came with
  Old,                \* who made what was there before
  Nil

Requests == Edits \cup Deletions
Docs == OldDocs \cup Edits        \* a new document is named after its request

ASSUME NameAssumption ==
  /\ Edits \cap Deletions = {} /\ OldDocs \cap Requests = {} /\ IsFiniteSet(Requests)
  /\ {Old, Nil} \cap (Requests \cup OldDocs) = {} /\ Old # Nil
  /\ Nil \notin [type : Types, actual : BOOLEAN] /\ Nil \notin BOOLEAN

VARIABLES
  doc,      \* a document, or Nil
  pdf,      \* the rows of contract_pdfdocument of each document, by who stored them
  there,    \* the organization exists
  tx,
  owner,    \* who holds the row of a document
  maker,    \* history: who last made a document actual
  before    \* history: who had committed when a request began

vars == <<doc, pdf, there, tx, owner, maker, before>>
tables == <<doc, pdf, there>>
history == <<maker, before>>

-----------------------------------------------------------------------------
(* The statements a handler may have to make, in their order.              *)
Rank == [insert |-> 1, save |-> 2, wipe |-> 3, put |-> 4, mark |-> 5, clear |-> 6,
         erase |-> 1, drop |-> 2, bury |-> 3, commit |-> 7]
Points == DOMAIN Rank
DocRec == [type : Types, actual : BOOLEAN]
PdfRow == [of : Docs, by : Requests \cup {Old}]

(* todo is what the handler still has to do, new the document it inserts,  *)
(* acts what it writes into is_actual, gone the PDF rows it has deleted.   *)
TxRec == [todo : SUBSET Points, of : Docs \cup {Nil}, seen : [Docs -> DocRec \cup {Nil}],
          new : DocRec \cup {Nil}, acts : [Docs -> BOOLEAN \cup {Nil}],
          wiped : SUBSET Docs, gone : SUBSET PdfRow, stored : BOOLEAN, ended : BOOLEAN]

NoActs == [d \in Docs |-> Nil]
Fresh == [todo |-> {}, of |-> Nil, seen |-> NoActs, new |-> Nil, acts |-> NoActs,
          wiped |-> {}, gone |-> {}, stored |-> FALSE, ended |-> FALSE]

Others(r) == Requests \ {r}
Idle(r) == tx[r] = Fresh
At(r, p) == p \in tx[r].todo /\ \A q \in tx[r].todo : Rank[p] <= Rank[q]
Advanced(r, p) == [tx[r] EXCEPT !.todo = @ \ {p}]
Begin(r, of, todo) == [Fresh EXCEPT !.todo = todo, !.of = of, !.seen = doc]
Committed == {r \in Requests : tx[r].ended} \cup {Old}

RowFree(r, d) == owner[d] \in {Nil, r}
Take(r, ds) == owner' = [d \in Docs |-> IF d \in ds THEN r ELSE owner[d]]
Release(r) == owner' = [d \in Docs |-> IF owner[d] = r THEN Nil ELSE owner[d]]

(* An UPDATE of documents finds their rows, once nobody else holds them.   *)
Updatable(r, ds) == \A d \in ds : RowFree(r, d) /\ doc[d] # Nil

Rows(d) == {[of |-> d, by |-> q] : q \in pdf[d]}

(* A DELETE by contract_id waits for rows that others have inserted or     *)
(* deleted, and then locks the gap.                                        *)
Wipeable(r, d) == \A q \in Others(r) : tx[q].gone \cap Rows(d) = {}
                                       /\ ~(tx[q].stored /\ tx[q].of = d)
GapFree(r, d) == \A q \in Others(r) : d \notin tx[q].wiped

(* The deletion of an organization locks the gap of its documents.         *)
Erasing(q) == q \in Deletions /\ tx[q].todo # {} /\ "erase" \notin tx[q].todo
Erased == \E q \in Requests : Erasing(q)

-----------------------------------------------------------------------------
Start(r, rec) ==
  /\ tx' = [tx EXCEPT ![r] = rec]
  /\ before' = [before EXCEPT ![r] = Committed]
  /\ UNCHANGED <<tables, owner, maker>>

(* add_organization_document *)
Add(r, t) ==
  /\ r \in Edits /\ Idle(r) /\ there
  /\ Start(r, [Begin(r, r, {"insert", "clear", "commit"}) EXCEPT
                 !.new = [type |-> t, actual |-> TRUE]])

(* update_organization_document *)
Update(r, d, actual, upload) ==
  /\ r \in Edits /\ Idle(r) /\ doc[d] # Nil
  /\ Start(r, [Begin(r, d, {"save", "commit"} \cup (IF upload THEN {"wipe", "put"} ELSE {})
                                              \cup (IF actual THEN {"clear"} ELSE {})) EXCEPT
                 !.acts[d] = IF doc[d].actual = actual THEN Nil ELSE actual])

(* delete_organization_document_pdf *)
RemovePdf(r, d) ==
  /\ r \in Edits /\ Idle(r) /\ doc[d] # Nil /\ pdf[d] # {}
  /\ Start(r, Begin(r, d, {"wipe", "mark", "commit"}))

(* archive_organization_document *)
Archive(r, d) ==
  /\ r \in Edits /\ Idle(r) /\ doc[d] # Nil
  /\ Start(r, [Begin(r, d, {"save", "commit"}) EXCEPT
                 !.acts[d] = IF doc[d].actual THEN FALSE ELSE Nil])

(* delete_organization_safely *)
DeleteOrganization(r) ==
  /\ r \in Deletions /\ Idle(r) /\ there
  /\ Start(r, Begin(r, Nil, {"erase", "drop", "bury", "commit"}))

-----------------------------------------------------------------------------
(* INSERT of the document.                                                 *)
Insert(r) ==
  /\ At(r, "insert") /\ there /\ ~Erased
  /\ tx' = [tx EXCEPT ![r] = Advanced(r, "insert")]
  /\ Take(r, {r})
  /\ UNCHANGED <<tables, history>>

(* UPDATE of the document itself, if any of its columns has changed: of    *)
(* its fields, or of the name of its PDF.                                  *)
Save(r, p) ==
  LET d == tx[r].of IN
  /\ At(r, p)
  /\ \/ tx[r].acts[d] = Nil /\ UNCHANGED owner
     \/ Updatable(r, {d}) /\ Take(r, {d})
  /\ tx' = [tx EXCEPT ![r] = Advanced(r, p)]
  /\ UNCHANGED <<tables, history>>

(* A bug: the row is read and deleted by its id, which locks no gap.       *)
WipeSeen(r) ==
  LET d == tx[r].of IN
  /\ At(r, "wipe") /\ Wipeable(r, d)
  /\ tx' = [tx EXCEPT ![r] = [Advanced(r, "wipe") EXCEPT !.gone = Rows(d)]]
  /\ UNCHANGED <<tables, owner, history>>

(* DELETE FROM contract_pdfdocument WHERE contract_id = ...                *)
Wipe(r) ==
  LET d == tx[r].of IN
  /\ At(r, "wipe") /\ Wipeable(r, d)
  /\ tx' = [tx EXCEPT ![r] = [Advanced(r, "wipe") EXCEPT !.wiped = {d}, !.gone = Rows(d)]]
  /\ UNCHANGED <<tables, owner, history>>

(* INSERT of the PDF, which shares the row of its document.                *)
Put(r) ==
  LET d == tx[r].of IN
  /\ At(r, "put") /\ GapFree(r, d) /\ Updatable(r, {d})
  /\ tx' = [tx EXCEPT ![r] = [Advanced(r, "put") EXCEPT !.stored = TRUE]]
  /\ Take(r, {d})
  /\ UNCHANGED <<tables, history>>

(* _sync_actual_document_with_type *)
TypeOf(r) == IF tx[r].new = Nil THEN tx[r].seen[tx[r].of].type ELSE tx[r].new.type
Siblings(r) ==
  {d \in Docs \ {tx[r].of} : tx[r].seen[d] # Nil /\ tx[r].seen[d].type = TypeOf(r)}

(* A bug: only the documents older than this request's are siblings.       *)
ClearOld(r) == {d \in Siblings(r) \cap OldDocs : tx[r].seen[d].actual}

ToClear(r) == {d \in Siblings(r) : tx[r].seen[d].actual}

Clear(r) ==
  /\ At(r, "clear") /\ Updatable(r, ToClear(r))
  /\ tx' = [tx EXCEPT ![r] = [Advanced(r, "clear") EXCEPT
              !.acts = [d \in Docs |-> IF d \in ToClear(r) THEN FALSE ELSE @[d]]]]
  /\ Take(r, ToClear(r))
  /\ UNCHANGED <<tables, history>>

-----------------------------------------------------------------------------
(* The PDFs of all documents of the organization; the documents; itself.   *)
Present == {d \in Docs : doc[d] # Nil}

(* A bug: the PDFs are those of the documents read before.                 *)
EraseSeen(r) ==
  LET ds == {d \in Docs : tx[r].seen[d] # Nil} IN
  /\ At(r, "erase") /\ \A d \in ds : RowFree(r, d) /\ Wipeable(r, d)
  /\ tx' = [tx EXCEPT ![r] = [Advanced(r, "erase") EXCEPT
              !.wiped = ds, !.gone = UNION {Rows(d) : d \in ds}]]
  /\ Take(r, ds)
  /\ UNCHANGED <<tables, history>>

Erase(r) ==
  /\ At(r, "erase")
  /\ \A d \in Docs : RowFree(r, d) /\ (d \in Present => Wipeable(r, d))
  /\ tx' = [tx EXCEPT ![r] = [Advanced(r, "erase") EXCEPT
              !.wiped = Present, !.gone = UNION {Rows(d) : d \in Present}]]
  /\ Take(r, Present)
  /\ UNCHANGED <<tables, history>>

Orphaned(r) == {d \in Present : \E row \in Rows(d) : row \notin tx[r].gone}

Drop(r) ==
  /\ At(r, "drop") /\ \A d \in Present : RowFree(r, d)
  /\ Orphaned(r) = {}
  /\ tx' = [tx EXCEPT ![r] = Advanced(r, "drop")]
  /\ Take(r, Present)
  /\ UNCHANGED <<tables, history>>

Bury(r) ==
  /\ At(r, "bury")
  /\ tx' = [tx EXCEPT ![r] = Advanced(r, "bury")]
  /\ UNCHANGED <<tables, owner, history>>

Commit(r) ==
  /\ At(r, "commit")
  /\ doc' = IF r \in Deletions THEN NoActs
            ELSE [d \in Docs |-> IF d = r /\ tx[r].new # Nil THEN tx[r].new
                                 ELSE IF tx[r].acts[d] # Nil THEN [doc[d] EXCEPT !.actual = tx[r].acts[d]]
                                 ELSE doc[d]]
  /\ pdf' = [d \in Docs |-> {q \in pdf[d] : [of |-> d, by |-> q] \notin tx[r].gone}
                            \cup (IF tx[r].stored /\ d = tx[r].of THEN {r} ELSE {})]
  /\ there' = (there /\ r \notin Deletions)
  /\ maker' = [d \in Docs |-> IF doc'[d] # Nil /\ doc'[d].actual
                                 /\ (tx[r].acts[d] = TRUE \/ (d = r /\ tx[r].new # Nil))
                              THEN r ELSE maker[d]]
  /\ tx' = [tx EXCEPT ![r] = [Fresh EXCEPT !.ended = TRUE]]
  /\ Release(r)
  /\ UNCHANGED before

(* A bug: an error without the rollback.                                   *)
FailHolding(r) ==
  /\ tx[r].todo # {}
  /\ tx' = [tx EXCEPT ![r] = [Fresh EXCEPT !.ended = TRUE]]
  /\ UNCHANGED <<tables, owner, history>>

(* A check that fails, a row that is gone, a deadlock, a timeout.          *)
Fail(r) ==
  /\ tx[r].todo # {}
  /\ tx' = [tx EXCEPT ![r] = [Fresh EXCEPT !.ended = TRUE]]
  /\ Release(r)
  /\ UNCHANGED <<tables, history>>

Init ==
  /\ doc \in [Docs -> DocRec \cup {Nil}]
  /\ \A r \in Edits : doc[r] = Nil
  /\ \A d, e \in OldDocs : d # e /\ doc[d] # Nil /\ doc[e] # Nil
       /\ doc[d].type = doc[e].type => ~(doc[d].actual /\ doc[e].actual)
  /\ pdf \in [Docs -> {{}, {Old}}]
  /\ \A d \in Docs : doc[d] = Nil => pdf[d] = {}
  /\ there = TRUE
  /\ tx = [r \in Requests |-> Fresh]
  /\ owner = [d \in Docs |-> Nil]
  /\ maker = [d \in Docs |-> Old]
  /\ before = [r \in Requests |-> {}]

Handle(r) ==
  \/ \E t \in Types : Add(r, t)
  \/ \E d \in Docs, actual, upload \in BOOLEAN : Update(r, d, actual, upload)
  \/ \E d \in Docs : RemovePdf(r, d) \/ Archive(r, d)
  \/ DeleteOrganization(r)

Statement(r) ==
  \/ Insert(r) \/ Save(r, "save") \/ Wipe(r) \/ Put(r) \/ Save(r, "mark") \/ Clear(r)
  \/ Erase(r) \/ Drop(r) \/ Bury(r)

Next == \E r \in Requests : Handle(r) \/ Statement(r) \/ Commit(r) \/ Fail(r)

Spec == Init /\ [][Next]_vars

-----------------------------------------------------------------------------
(* Types; what nobody is working on is held by nobody, and there is no PDF *)
(* without its document.                                                   *)
TypeOK ==
  /\ doc \in [Docs -> DocRec \cup {Nil}]
  /\ pdf \in [Docs -> SUBSET (Requests \cup {Old})]
  /\ there \in BOOLEAN
  /\ tx \in [Requests -> TxRec]
  /\ owner \in [Docs -> Requests \cup {Nil}]
  /\ maker \in [Docs -> Requests \cup {Old}]
  /\ before \in [Requests -> SUBSET (Requests \cup {Old})]
  /\ \A d \in Docs : (owner[d] # Nil => tx[owner[d]].todo # {}) /\ (doc[d] = Nil => pdf[d] = {})

(* A document never has two PDFs, whatever uploads and removals overlap.   *)
OnePdf == \A d \in Docs : \A p, q \in pdf[d] : p = q

(* If two documents of a type are actual, the requests that made them so   *)
(* overlapped: one that began after the other had committed has archived   *)
(* its document.                                                           *)
TwoActualOnlyByOverlap ==
  \A d, e \in Docs :
    /\ d # e /\ doc[d] # Nil /\ doc[e] # Nil
    /\ doc[d].type = doc[e].type /\ doc[d].actual /\ doc[e].actual
    => maker[e] # Old /\ maker[d] \notin before[maker[e]]

(* Once the PDFs are erased, none comes back to keep the documents, and no *)
(* document comes back to keep the organization: the deletion is not       *)
(* refused by a foreign key.                                               *)
DeletionNotRefused ==
  \A r \in Deletions :
    /\ At(r, "drop") => Orphaned(r) = {}
    /\ At(r, "bury") \/ At(r, "commit") => \A q \in Edits : tx[q].new # Nil => ~(owner[q] = q)
=============================================================================
