------------------------------- MODULE CardSync -----------------------------
(***************************************************************************)
(* save_organization_card (services/organization_card_write.py) on the     *)
(* rows that hang on one card: contacts and the persons they belong to,    *)
(* study fields, and the settlement it names.  The leaders' contacts have  *)
(* tables of their own and the same reconciliation.                        *)
(*                                                                         *)
(* Each save is a MySQL transaction at REPEATABLE READ: what it decides,   *)
(* it decides in the snapshot of its first read; its INSERTs, UPDATEs and  *)
(* DELETEs meet the tables as they are.  A card whose own columns do not   *)
(* change is not written, so saves of one card do not wait for each other. *)
(* One that moves the card to a new settlement writes it, and others that  *)
(* do wait for its end; the model lets them go on, which adds nothing to   *)
(* what they can leave, decided as it is in snapshots taken before.        *)
(***************************************************************************)
EXTENDS Integers, FiniteSets

CONSTANTS
  Saves,        \* bound: each adds at most one contact
  AtOnce,       \* bound: saves running at a time
  OldRows,      \* contacts the card came with
  OldEntities,  \* the persons they belong to
  Fields,       \* university_studyfield
  Old, Nil

Rows == OldRows \cup Saves             \* a new contact is named after its save
Entities == OldEntities \cup Saves     \* and so is a new person

ASSUME CardAssumption ==
  /\ OldRows \cap Saves = {} /\ OldEntities \cap Saves = {}
  /\ Old \notin Saves /\ Nil \notin Entities
  /\ IsFiniteSet(Saves) /\ AtOnce \in Nat

VARIABLES
  ent,     \* organization_detailcontactentity
  row,     \* organization_detailcontactdata: whose contact it is, or Nil
  study,   \* organization_detailstudyfield
  town,    \* the rows of detailname_settlement with one new name, by who made them
  tx,
  before   \* history: the saves that had committed when a save began

vars == <<ent, row, study, town, tx, before>>
tables == <<ent, row, study, town>>

-----------------------------------------------------------------------------
Points == {"idle", "write", "prune", "commit", "done"}
StudyRec == [field : Fields, by : Saves \cup {Old}]
SeenRec == [ent : SUBSET Entities, row : [Rows -> Entities \cup {Nil}],
            study : SUBSET StudyRec, town : SUBSET Saves]
Nothing == [ent |-> {}, row |-> [d \in Rows |-> Nil], study |-> {}, town |-> {}]

(* keep are the contacts the payload names, edited those it changes, to    *)
(* whom it adds one, chosen its study fields.  touched are the persons who *)
(* lose a contact.                                                         *)
TxRec == [at : Points, seen : SeenRec, keep : SUBSET Rows, edited : SUBSET Rows,
          to : Entities \cup {Nil}, chosen : SUBSET Fields, touched : SUBSET Entities]

Idle == [at |-> "idle", seen |-> Nothing, keep |-> {}, edited |-> {}, to |-> Nil,
         chosen |-> {}, touched |-> {}]

Others(s) == Saves \ {s}
At(s, p) == tx[s].at = p
Past(s, points) == tx[s].at \in points
Over == {s \in Saves : At(s, "done")}
Shown(r) == {d \in Rows : r[d] # Nil}

(* _sync_contacts: what the payload does not name is deleted.              *)
Dropped(s) == Shown(tx[s].seen.row) \ tx[s].keep

(* A bug: persons are looked for before the DELETEs are flushed.           *)
PrunedUnflushed(s) ==
  {e \in tx[s].seen.ent : tx[s].to # e /\ \A d \in Rows : tx[s].seen.row[d] # e}

(* _sync_contacts, orphan_entities: persons without a contact, as the      *)
(* transaction sees them.                                                  *)
Pruned(s) ==
  {e \in tx[s].seen.ent : tx[s].to # e /\ \A d \in tx[s].keep : tx[s].seen.row[d] # e}

(* Locks: contacts that others have changed or deleted, persons that       *)
(* others have deleted, or added a contact to.                             *)
RowHeld(s, d) == \E q \in Others(s) :
  Past(q, {"prune", "commit"}) /\ d \in tx[q].edited \cup Dropped(q)
Added(q, e) == Past(q, {"prune", "commit"}) /\ tx[q].to = e
Removed(q, e) == At(q, "commit") /\ e \in Pruned(q)

(* A bug: a person goes though another save has just added a contact.      *)
UnlinkedSeen(s, e) == \A d \in Rows \ Dropped(s) : tx[s].seen.row[d] # e

(* The foreign key of a contact: no other one may refer to the person.     *)
Unlinked(s, e) ==
  /\ \A d \in Rows \ Dropped(s) : row[d] # e
  /\ \A q \in Others(s) : ~Added(q, e)

-----------------------------------------------------------------------------
(* _sync_contacts checks the ids of the payload against what it sees.      *)
Begin(s, keep, edited, to) ==
  /\ At(s, "idle") /\ Cardinality({q \in Saves : ~At(q, "idle") /\ ~At(q, "done")}) < AtOnce
  /\ edited \subseteq keep /\ keep \subseteq Shown(row) /\ to \in ent \cup {s, Nil}
  /\ tx' = [tx EXCEPT ![s] =
       [Idle EXCEPT !.at = "write", !.keep = keep, !.edited = edited, !.to = to,
          !.seen = [ent |-> ent, row |-> row, study |-> study, town |-> town]]]
  /\ before' = [before EXCEPT ![s] = Over]
  /\ UNCHANGED tables

(* INSERTs, UPDATEs and DELETEs of contacts.  A foreign key without its    *)
(* person and an UPDATE that meets no row are errors, a DELETE that meets  *)
(* none is passed over.                                                    *)
Write(s) ==
  LET e == tx[s].to IN
  /\ At(s, "write")
  /\ e \in {s, Nil} \/ (e \in ent /\ \A q \in Others(s) : ~Removed(q, e))
  /\ \A d \in tx[s].edited : row[d] # Nil
  /\ \A d \in tx[s].edited \cup Dropped(s) : ~RowHeld(s, d)
  /\ tx' = [tx EXCEPT ![s].at = "prune"]
  /\ UNCHANGED <<tables, before>>

(* DELETE of the persons.                                                  *)
Prune(s) ==
  /\ At(s, "prune")
  /\ \A e \in Pruned(s) : Unlinked(s, e) /\ \A q \in Others(s) : ~Removed(q, e)
  /\ tx' = [tx EXCEPT ![s].at = "commit"]
  /\ UNCHANGED <<tables, before>>

(* A bug: rows already there are not looked for.                           *)
NewAlways(s, chosen) == {[field |-> f, by |-> s] : f \in chosen}

(* _sync_study_fields: what is added to the rows seen, and what is deleted *)
(* of them, one row of a field.                                            *)
New(s, chosen) == {[field |-> f, by |-> s] : f \in chosen \ {c.field : c \in tx[s].seen.study}}
OneOfEach(rows) == {pick \in SUBSET rows :
  \A f \in {c.field : c \in rows} : Cardinality({c \in pick : c.field = f}) = 1}

(* _resolve_settlement_id, where two rows of one name are an error;        *)
(* _sync_study_fields; and COMMIT.  Their rows stand in nobody's way, and  *)
(* nobody sees them before the COMMIT.                                     *)
Resolvable(s) == Cardinality(tx[s].seen.town) <= 1
Commit(s, chosen, pick, named) ==
  /\ At(s, "commit")
  /\ named => Resolvable(s)
  /\ study' = (study \ {c \in pick : c.field \notin chosen}) \cup New(s, chosen)
  /\ row' = [d \in Rows |-> IF d = s THEN tx[s].to ELSE
                            IF d \in Dropped(s) THEN Nil ELSE row[d]]
  /\ ent' = (ent \cup ({tx[s].to} \cap {s})) \ Pruned(s)
  /\ town' = town \cup (IF named /\ tx[s].seen.town = {} THEN {s} ELSE {})
  /\ tx' = [tx EXCEPT ![s] =
       [Idle EXCEPT !.at = "done", !.chosen = chosen, !.touched = {tx[s].seen.row[d] : d \in Dropped(s)}]]
  /\ UNCHANGED before

(* An error, a deadlock or a timeout: nothing has happened.                *)
Fail(s) ==
  /\ ~At(s, "idle") /\ ~At(s, "done")
  /\ tx' = [tx EXCEPT ![s] = Idle]
  /\ before' = [before EXCEPT ![s] = {}]
  /\ UNCHANGED tables

-----------------------------------------------------------------------------
Init ==
  /\ row \in [Rows -> OldEntities \cup {Nil}] /\ \A s \in Saves : row[s] = Nil
  /\ ent = {row[d] : d \in Rows} \ {Nil}
  /\ study \in SUBSET [field : Fields, by : {Old}]
  /\ town = {}
  /\ tx = [s \in Saves |-> Idle]
  /\ before = [s \in Saves |-> {}]

Save(s) ==
  \/ \E keep \in SUBSET Shown(row), to \in ent \cup {s, Nil} :
       \E edited \in {{}, keep} : Begin(s, keep, edited, to)
  \/ Write(s) \/ Prune(s)
  \/ \E chosen \in SUBSET Fields, named \in BOOLEAN, pick \in OneOfEach(tx[s].seen.study) :
       Commit(s, chosen, pick, named)
  \/ Fail(s)

Next == \E s \in Saves : Save(s)

Spec == Init /\ [][Next]_vars

-----------------------------------------------------------------------------
(* Tables and saves keep their types, and every contact has its person.    *)
TypeOK ==
  /\ ent \in SUBSET Entities
  /\ row \in [Rows -> Entities \cup {Nil}]
  /\ study \in SUBSET StudyRec
  /\ town \in SUBSET Saves
  /\ tx \in [Saves -> TxRec]
  /\ before \in [Saves -> SUBSET Saves]
  /\ \A d \in Rows : row[d] \in ent \cup {Nil}

(* The card as its page shows it: the persons, each with his contacts      *)
(* (_fetch_contact_rows, _group_contact_rows).                             *)
Card == [e \in ent |-> {d \in Rows : row[d] = e}]

Chosen(rows) == {c.field : c \in rows}
Twice(rows) == {f \in Fields : Cardinality({c \in rows : c.field = f}) > 1}

(* A save that no other overlapped leaves the contacts of its payload and  *)
(* the persons they belong to, whatever earlier saves have left behind;    *)
(* and the study fields of its payload, but for a field of which earlier   *)
(* saves had stored two rows (_sync_contacts, _sync_study_fields).         *)
LoneSaveExact ==
  [][\A s \in Saves : At(s, "commit") /\ At(s, "done")' /\ Over \subseteq before[s] =>
       /\ Shown(row') = tx[s].keep \cup (IF tx[s].to = Nil THEN {} ELSE {s})
       /\ \A e \in ent' : Card'[e] # {}
       /\ tx'[s].chosen \subseteq Chosen(study')
       /\ Chosen(study') \ tx'[s].chosen \subseteq Twice(study)]_vars

Overlapped(q, s) == {q, s} \subseteq Saves /\ q # s /\ q \notin before[s] /\ s \notin before[q]

(* A person without contacts, a study field stored twice and a settlement  *)
(* stored twice, which makes every save that names it fail, come from      *)
(* saves that overlapped, and from nothing else (_sync_contacts,           *)
(* _sync_study_fields, _resolve_settlement_id).                            *)
StrayOnlyByOverlap ==
  /\ \A e \in ent : (\A d \in Rows : row[d] # e) =>
       \E q, s \in Over : Overlapped(q, s) /\ e \in tx[q].touched \cap tx[s].touched
  /\ \A c, o \in study : c # o /\ c.field = o.field => Overlapped(c.by, o.by)
  /\ \A q, s \in town : q # s => Overlapped(q, s)
=============================================================================
