----------------------------- MODULE InnRegistry ----------------------------
(***************************************************************************)
(* The INN of the organizations: saving a card and deleting an             *)
(* organization (services/organization_card_write.py) and refreshing the   *)
(* cards of one INN from Dadata (services/dadata/sync.py), each a MySQL    *)
(* transaction at REPEATABLE READ.                                         *)
(*                                                                         *)
(* An INN is kept twice, in organization.inn and in the requisites of type *)
(* INN.  A plain SELECT sees what was committed when the transaction first *)
(* read; UPDATE, DELETE, INSERT and SELECT ... FOR UPDATE meet the tables  *)
(* as they are and wait for the locks of others.  What a transaction has   *)
(* written stays in its record until it commits, and with it the locks     *)
(* that follow from what it has done: on a requisite it wrote, on the      *)
(* organization a requisite of its refers to (shared), and on the gap at   *)
(* an INN it has looked for with FOR UPDATE.  SQLAlchemy writes only what  *)
(* differs from what it read.  The statements of one flush are one step.   *)
(***************************************************************************)
EXTENDS Integers, FiniteSets

CONSTANTS
  Orgs, Inns,
  Saves, Refreshes, Deletions,   \* bound: each is one transaction
  Nil,                           \* no value, no holder
  Same,                          \* not written
  Old,                           \* the requisite an organization came with
  Unborn, Gone                   \* an organization not yet created, or deleted

Requests == Saves \cup Refreshes \cup Deletions
RowIds == Requests \cup {Old}    \* a requisite is named after who inserted it
Values == Inns \cup {Nil}

ASSUME RequestAssumption ==
  /\ Saves \cap Refreshes = {} /\ Saves \cap Deletions = {} /\ Refreshes \cap Deletions = {}
  /\ Old \notin Requests /\ Nil \notin Requests /\ IsFiniteSet(Requests)
ASSUME ValueAssumption ==
  /\ Nil # Same /\ Unborn # Gone /\ {Nil, Same} \cap {Unborn, Gone} = {}
  /\ Inns \cap {Nil, Same, Unborn, Gone} = {}

VARIABLES
  inn,     \* organization.inn, or Unborn or Gone
  rows,    \* the INN requisites of each organization, Nil where there is none
  tx,
  owner,   \* who holds the exclusive lock of an organization
  keys     \* who holds the row of organization_inn_lock

vars == <<inn, rows, tx, owner, keys>>
tables == <<inn, rows>>
locks == <<owner, keys>>

-----------------------------------------------------------------------------
Points == {"start", "key", "flush", "rows", "sync", "put",   \* save_organization_card
           "answer", "group", "read", "apply",               \* refresh_organization_from_dadata
           "erase", "bury",                                  \* delete_organization_safely
           "commit", "done"}

NoRow == [i \in RowIds |-> Nil]
Untouched == [i \in RowIds |-> Same]
NoWrites == [o \in Orgs |-> Untouched]

Rest(p) == [at |-> p, org |-> Nil, group |-> {}, old |-> Nil, val |-> Nil,
            view |-> NoRow, writes |-> NoWrites]
TxRec == [at : Points, org : Orgs \cup {Nil}, group : SUBSET Orgs,
          old : Values, val : Values,              \* the INN read and the INN wanted
          view : [RowIds -> Values],               \* its own card's requisites, as it sees them
          writes : [Orgs -> [RowIds -> Values \cup {Same}]]]

At(r, p) == tx[r].at = p
Goto(r, p) == tx' = [tx EXCEPT ![r].at = p]
Exists(o) == inn[o] \in Values

(* The locks that follow from what a transaction has done.                 *)
Wrote(r) == tx[r].at \in {"sync", "put", "bury", "commit"}
RowLock(r, o, i) == Wrote(r) /\ tx[r].writes[o][i] # Same
Inserted(r, o) == Wrote(r) /\ tx[r].writes[o][r] \in Inns
Changing(r) == r \in Saves /\ tx[r].val # tx[r].old
Putting(r, o, v) == Changing(r) /\ At(r, "commit") /\ tx[r].org = o /\ tx[r].val = v
GapLock(r, v) ==
  /\ v \in Inns /\ tx[r].val = v
  /\ \/ Changing(r) /\ tx[r].at \in {"put", "commit"}
     \/ r \in Refreshes /\ tx[r].at \in {"read", "apply", "commit"}

Others(r) == Requests \ {r}

(* r may lock the organization exclusively.                                *)
Lockable(r, o) == owner[o] \in {Nil, r} /\ \A q \in Others(r) : ~Inserted(q, o)

(* A SELECT ... FOR UPDATE by INN waits for whoever holds a row that has   *)
(* it or is getting it.                                                    *)
Matching(v) == {o \in Orgs : inn[o] = v \/ \E q \in Requests : Putting(q, o, v)}
Searchable(r, v) == \A o \in Matching(v) : Lockable(r, o)

Take(r, os) == owner' = [o \in Orgs |-> IF o \in os THEN r ELSE owner[o]]
Release(r) ==
  /\ owner' = [o \in Orgs |-> IF owner[o] = r THEN Nil ELSE owner[o]]
  /\ keys' = [v \in Inns |-> IF keys[v] = r THEN Nil ELSE keys[v]]

(* A flush of requisites: an UPDATE finds its row, an INSERT its           *)
(* organization, and nobody else holds either.                             *)
RowWritable(r, o, i, value) ==
  /\ \A q \in Others(r) : ~RowLock(q, o, i)
  /\ value \in Inns =>
       IF i = r THEN owner[o] \in {Nil, r} /\ (Exists(o) \/ owner[o] = r)
                ELSE rows[o][i] # Nil
Writable(r, w) ==
  \A o \in Orgs, i \in RowIds : w[o][i] # Same => RowWritable(r, o, i, w[o][i])

-----------------------------------------------------------------------------
(* save_organization_card.  The payload has the requisites that the page   *)
(* showed, with new values (Nil deletes one, or changes its type), those   *)
(* in typed with their type, and perhaps a new one.                        *)
Payload(r, o, edit, typed, new) ==
  LET entries == {i \in typed : edit[i] # Nil} \cup (IF new = Nil THEN {} ELSE {r})
      view == [i \in RowIds |-> IF i \in DOMAIN edit THEN edit[i] ELSE IF i = r THEN new ELSE Nil]
      pending == IF entries = {} THEN Nil ELSE view[CHOOSE i \in entries : TRUE]
      old == IF Exists(o) THEN inn[o] ELSE Nil
  IN /\ Cardinality(entries) <= 1          \* _prepare_inn_from_payload
     /\ tx' = [tx EXCEPT ![r] =
          [Rest(IF pending \in Inns \ {old} THEN "key" ELSE "flush") EXCEPT
             !.org = o, !.old = old, !.val = pending, !.view = view,
             !.writes[o] = [i \in RowIds |-> IF view[i] = rows[o][i] THEN Same ELSE view[i]]]]

Shown(o) == {i \in RowIds : rows[o][i] # Nil}

Edit(r, o) ==
  /\ r \in Saves /\ At(r, "start") /\ Exists(o)
  /\ \E edit \in [Shown(o) -> Values], typed \in SUBSET Shown(o), new \in Values :
       Payload(r, o, edit, typed, new)
  /\ UNCHANGED <<tables, locks>>

(* The row of a new organization is its own from the start.                *)
Create(r, o) ==
  /\ r \in Saves /\ At(r, "start") /\ inn[o] = Unborn /\ owner[o] = Nil
  /\ \E new \in Inns : Payload(r, o, [i \in {} |-> Nil], {}, new)  \* _validate_create_required_requisites
  /\ Take(r, {o})
  /\ UNCHANGED <<tables, keys>>

(* _lock_inn_for_manual_write *)
TakeKey(r) ==
  /\ At(r, "key")
  /\ keys[tx[r].val] = Nil /\ keys' = [keys EXCEPT ![tx[r].val] = r]
  /\ Goto(r, "flush")
  /\ UNCHANGED <<tables, owner>>

(* The columns of the card, if any has changed.                            *)
Flush(r) ==
  /\ At(r, "flush")
  /\ \/ UNCHANGED owner
     \/ Lockable(r, tx[r].org) /\ inn[tx[r].org] # Gone /\ Take(r, {tx[r].org})
  /\ Goto(r, "rows")
  /\ UNCHANGED <<tables, keys>>

(* _sync_requisites *)
WriteRows(r) ==
  /\ At(r, "rows") /\ Writable(r, tx[r].writes)
  /\ Goto(r, "sync")
  /\ UNCHANGED <<tables, locks>>

(* A bug: the look for another card goes.                                  *)
Unchecked(r, v) == TRUE

Unique(r, v) == \A o \in Orgs \ {tx[r].org} : inn[o] # v

(* _sync_organization_inn: one requisite at most; a new INN must be free.  *)
SyncInn(r) ==
  LET present == {i \in RowIds : tx[r].view[i] # Nil}
      v == IF present = {} THEN Nil ELSE tx[r].view[CHOOSE i \in present : TRUE]
  IN /\ At(r, "sync") /\ Cardinality(present) <= 1
     /\ IF v \in Inns /\ v # tx[r].old
        THEN Searchable(r, v) /\ Unique(r, v) /\ Take(r, Matching(v))
        ELSE UNCHANGED owner
     /\ tx' = [tx EXCEPT ![r].at = IF v = tx[r].old THEN "commit" ELSE "put",
                         ![r].val = v, ![r].view = NoRow]
     /\ UNCHANGED <<tables, keys>>

(* UPDATE organization SET inn, if it has changed.                         *)
Put(r) ==
  /\ At(r, "put") /\ Lockable(r, tx[r].org) /\ inn[tx[r].org] # Gone
  /\ \A q \in Others(r) : ~GapLock(q, tx[r].val)
  /\ Take(r, {tx[r].org}) /\ Goto(r, "commit")
  /\ UNCHANGED <<tables, keys>>

-----------------------------------------------------------------------------
(* refresh_organization_from_dadata, up to the rollback before the call.   *)
Ask(r, o) ==
  /\ r \in Refreshes /\ At(r, "start") /\ inn[o] \in Inns
  /\ tx' = [tx EXCEPT ![r] = [Rest("answer") EXCEPT !.org = o, !.val = inn[o]]]
  /\ UNCHANGED <<tables, locks>>

(* The answer is there: lock the card and look whether it has changed.     *)
LockCard(r) ==
  /\ At(r, "answer") /\ Lockable(r, tx[r].org) /\ inn[tx[r].org] = tx[r].val
  /\ Take(r, {tx[r].org}) /\ Goto(r, "group")
  /\ UNCHANGED <<tables, keys>>

(* A bug: an early return without the rollback.                            *)
SkipHolding(r) ==
  /\ At(r, "answer") /\ Lockable(r, tx[r].org) /\ inn[tx[r].org] # tx[r].val
  /\ tx' = [tx EXCEPT ![r] = Rest("done")]
  /\ Take(r, {tx[r].org})
  /\ UNCHANGED <<tables, keys>>

Skip(r) ==
  /\ At(r, "answer") /\ Lockable(r, tx[r].org) /\ inn[tx[r].org] # tx[r].val
  /\ tx' = [tx EXCEPT ![r] = Rest("done")]
  /\ Release(r)
  /\ UNCHANGED tables

Group(v) == {o \in Orgs : inn[o] = v}

(* A bug: the cards of the group are read without FOR UPDATE.              *)
ReadGroup(r) ==
  /\ At(r, "group")
  /\ tx' = [tx EXCEPT ![r].at = "read", ![r].group = Group(tx[r].val)]
  /\ UNCHANGED <<tables, locks>>

LockGroup(r) ==
  /\ At(r, "group") /\ Searchable(r, tx[r].val)
  /\ tx' = [tx EXCEPT ![r].at = "read", ![r].group = Group(tx[r].val)]
  /\ Take(r, Matching(tx[r].val))
  /\ UNCHANGED <<tables, keys>>

(* _upsert_requisite, for a card whose requisite found is i, if any.       *)
Upsert(r, o, i) ==
  [Untouched EXCEPT ![i] = IF rows[o][i] = tx[r].val THEN Same ELSE tx[r].val]

ReadRows(r) ==
  /\ At(r, "read")
  /\ \E found \in [Orgs -> RowIds] :
       /\ \A o \in Orgs : IF Shown(o) = {} THEN found[o] = r ELSE found[o] \in Shown(o)
       /\ tx' = [tx EXCEPT ![r].at = "apply",
                   ![r].writes = [o \in Orgs |-> IF o \in tx[r].group THEN Upsert(r, o, found[o])
                                                 ELSE Untouched]]
  /\ UNCHANGED <<tables, locks>>

Apply(r) ==
  /\ At(r, "apply") /\ Writable(r, tx[r].writes)
  /\ Goto(r, "commit")
  /\ UNCHANGED <<tables, locks>>

-----------------------------------------------------------------------------
(* delete_organization_safely; the requisites stand for all that hangs on  *)
(* the organization.  The DELETE by organization_id also locks the gap.    *)
Erase(r, o) ==
  /\ r \in Deletions /\ At(r, "start") /\ Exists(o)
  /\ \A i \in RowIds, q \in Others(r) : ~RowLock(q, o, i)
  /\ tx' = [tx EXCEPT ![r] = [Rest("bury") EXCEPT !.org = o, !.writes[o] = NoRow]]
  /\ UNCHANGED <<tables, locks>>

Bury(r) ==
  /\ At(r, "bury") /\ Lockable(r, tx[r].org)
  /\ \A i \in RowIds : rows[tx[r].org][i] # Nil => tx[r].writes[tx[r].org][i] = Nil
  /\ Take(r, {tx[r].org}) /\ Goto(r, "commit")
  /\ UNCHANGED <<tables, keys>>

-----------------------------------------------------------------------------
Written(r, o) ==
  [i \in RowIds |-> IF tx[r].writes[o][i] = Same THEN rows[o][i] ELSE tx[r].writes[o][i]]

Commit(r) ==
  /\ At(r, "commit")
  /\ rows' = [o \in Orgs |-> Written(r, o)]
  /\ inn' = IF r \in Deletions THEN [inn EXCEPT ![tx[r].org] = Gone]
            ELSE IF Changing(r) THEN [inn EXCEPT ![tx[r].org] = tx[r].val]
            ELSE inn
  /\ tx' = [tx EXCEPT ![r] = Rest("done")]
  /\ Release(r)

(* A check that fails, a row that is gone, a deadlock, a timeout, a lost   *)
(* connection.                                                             *)
Fail(r) ==
  /\ tx[r].at \notin {"start", "done"}
  /\ tx' = [tx EXCEPT ![r] = Rest("done")]
  /\ Release(r)
  /\ UNCHANGED tables

Init ==
  /\ inn \in [Orgs -> Values \cup {Unborn}]
  /\ rows = [o \in Orgs |-> [NoRow EXCEPT ![Old] = IF inn[o] \in Inns THEN inn[o] ELSE Nil]]
  /\ tx = [r \in Requests |-> Rest("start")]
  /\ owner = [o \in Orgs |-> Nil]
  /\ keys = [v \in Inns |-> Nil]

Save(r) ==
  \/ \E o \in Orgs : Edit(r, o) \/ Create(r, o)
  \/ TakeKey(r) \/ Flush(r) \/ WriteRows(r) \/ SyncInn(r) \/ Put(r)
Refresh(r) ==
  \/ \E o \in Orgs : Ask(r, o)
  \/ LockCard(r) \/ Skip(r) \/ LockGroup(r) \/ ReadRows(r) \/ Apply(r)
Deletion(r) == (\E o \in Orgs : Erase(r, o)) \/ Bury(r)

Next == \E r \in Requests : Save(r) \/ Refresh(r) \/ Deletion(r) \/ Commit(r) \/ Fail(r)

Spec == Init /\ [][Next]_vars

-----------------------------------------------------------------------------
(* Types; a lock is held by a transaction that is under way.               *)
TypeOK ==
  /\ inn \in [Orgs -> Values \cup {Unborn, Gone}]
  /\ rows \in [Orgs -> [RowIds -> Values]]
  /\ tx \in [Requests -> TxRec]
  /\ owner \in [Orgs -> Requests \cup {Nil}]
  /\ keys \in [Inns -> Requests \cup {Nil}]
  /\ \A r \in Requests, o \in Orgs : owner[o] = r => tx[r].at \notin {"start", "done"}

(* No step gives a card an INN that another card has: cards that share one *)
(* have shared it from the start.                                          *)
NoNewDuplicate ==
  [][\A o, p \in Orgs :
       inn'[o] \in Inns /\ inn'[o] # inn[o] /\ p # o => inn'[p] # inn'[o]]_vars

(* A refresh about to commit writes to exactly the cards that have the INN *)
(* it asked for, its own among them: none that was changed or deleted      *)
(* while the answer was on its way, and none forgotten, so that whether it *)
(* writes the names too (a single card) is decided rightly.                *)
AnswerForGroup ==
  \A r \in Refreshes :
    At(r, "commit") => tx[r].org \in tx[r].group /\ tx[r].group = Group(tx[r].val)
=============================================================================
