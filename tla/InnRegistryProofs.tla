-------------------------- MODULE InnRegistryProofs -------------------------
(***************************************************************************)
(* Proofs about InnRegistry, for any organizations, INNs and requests.     *)
(***************************************************************************)
EXTENDS InnRegistry, TLAPS

(* What a transaction has made sure of, when its record is n and own says  *)
(* who holds the organizations.  A save that is to write a new INN is the  *)
(* only one to do so, and no other card has it; a refresh holds the cards  *)
(* of its group, and nobody is about to join them.                         *)
NoPut(r, v) ==
  \A q \in Others(r) : q \in Saves /\ At(q, "commit") /\ tx[q].val # tx[q].old => tx[q].val # v

SaveKept(r, n, own) ==
  n.at \in {"put", "commit"} /\ n.val # n.old =>
    /\ n.at = "commit" => own[n.org] = r
    /\ n.val \in Inns => NoPut(r, n.val) /\ \A p \in Orgs \ {n.org} : inn[p] # n.val

RefreshKept(r, n, own) ==
  /\ n.at = "group" => own[n.org] = r /\ inn[n.org] = n.val
  /\ n.at \in {"read", "apply", "commit"} =>
       /\ n.group = Group(n.val) /\ n.org \in n.group
       /\ NoPut(r, n.val) /\ \A p \in n.group : own[p] = r

Kept(r, n, own) ==
  /\ r \in Saves => SaveKept(r, n, own)
  /\ r \in Refreshes => RefreshKept(r, n, own)
  /\ r \in Deletions => (n.at = "commit" => own[n.org] = r)

(* Which points a transaction passes, and what it has set on its way.      *)
Active(n) == n.at \notin {"start", "done"}
Suits(r, n) ==
  /\ n \in TxRec
  /\ r \in Saves => n.at \in {"start", "key", "flush", "rows", "sync", "put", "commit", "done"}
  /\ r \in Refreshes => n.at \in {"start", "answer", "group", "read", "apply", "commit", "done"}
  /\ r \in Deletions => n.at \in {"start", "bury", "commit", "done"}
  /\ Active(n) => n.org \in Orgs /\ (r \in Refreshes => n.val \in Inns)

TablesTyped ==
  /\ inn \in [Orgs -> Values \cup {Unborn, Gone}]
  /\ rows \in [Orgs -> [RowIds -> Values]]
  /\ keys \in [Inns -> Requests \cup {Nil}]
OwnersTyped ==
  /\ owner \in [Orgs -> Requests \cup {Nil}]
  /\ \A r \in Requests, o \in Orgs : owner[o] = r => Active(tx[r])

IInv ==
  /\ TablesTyped /\ OwnersTyped
  /\ tx \in [Requests -> TxRec]
  /\ \A r \in Requests : Suits(r, tx[r]) /\ Kept(r, tx[r], owner)

LEMMA Distinct ==
  /\ Nil # Same /\ Nil \notin Inns /\ Same \notin Inns /\ Unborn \notin Inns /\ Gone \notin Inns
  /\ Nil \notin Requests
  BY RequestAssumption, ValueAssumption

-----------------------------------------------------------------------------
(* Nobody loses an organization but by its own release.                    *)
Gained(r) ==
  \A o \in Orgs : owner'[o] = owner[o] \/ (owner[o] \in {Nil, r} /\ owner'[o] \in {Nil, r})

LEMMA Keeps ==
  ASSUME IInv, NEW r \in Requests, Gained(r), NEW q \in Others(r), NEW o \in Orgs, owner[o] = q
  PROVE  owner'[o] = q
  BY Distinct DEF Gained, Others

LEMMA TakeGains ==
  ASSUME IInv, NEW r \in Requests, NEW os \in SUBSET Orgs, Take(r, os),
         \A o \in os : owner[o] \in {Nil, r}
  PROVE  /\ Gained(r) /\ owner' \in [Orgs -> Requests \cup {Nil}]
         /\ \A o \in os : owner'[o] = r
         /\ \A o \in Orgs : owner'[o] = r \/ owner'[o] = owner[o]
  BY DEF Take, Gained, IInv, OwnersTyped

LEMMA ReleaseGains ==
  ASSUME IInv, NEW r \in Requests, Release(r)
  PROVE  /\ Gained(r) /\ owner' \in [Orgs -> Requests \cup {Nil}]
         /\ \A o \in Orgs : owner'[o] # r
         /\ \A o \in Orgs : owner'[o] = Nil \/ owner'[o] = owner[o]
         /\ keys' \in [Inns -> Requests \cup {Nil}]
  BY Distinct DEF Release, Gained, IInv, OwnersTyped, TablesTyped

LEMMA RestTyped ==
  ASSUME NEW p \in Points
  PROVE  /\ Rest(p) \in TxRec
         /\ Rest(p).at = p /\ Rest(p).org = Nil /\ Rest(p).val = Nil /\ Rest(p).old = Nil
  BY DEF Rest, TxRec, NoRow, NoWrites, Untouched, Values

(* The others keep what they have made sure of, when no INN changes and r  *)
(* does not come to write one that somebody has locked.                    *)
LEMMA OthersKept ==
  ASSUME IInv, NEW r \in Requests, NEW n \in TxRec, tx' = [tx EXCEPT ![r] = n],
         inn' = inn, Gained(r),
         r \in Saves /\ n.at = "commit" /\ n.val # n.old /\ n.val \in Inns
           => \A q \in Others(r) : ~GapLock(q, n.val),
         NEW q \in Others(r)
  PROVE  tx'[q] = tx[q] /\ Suits(q, tx[q]) /\ Kept(q, tx[q], owner)'
<1> q \in Requests /\ q # r
  BY DEF Others
<1>1. tx'[q] = tx[q] /\ tx'[r] = n /\ Suits(q, tx[q]) /\ Kept(q, tx[q], owner)
  BY DEF IInv
<1>2. \A o \in Orgs : owner[o] = q => owner'[o] = q
  BY Keeps
<1>3. ASSUME NEW v \in Inns, GapLock(q, v), NoPut(q, v)
      PROVE  NoPut(q, v)'
  <2> SUFFICES ASSUME NEW s \in Others(q), s \in Saves, At(s, "commit")', tx'[s].val # tx'[s].old
               PROVE  tx'[s].val # v
    BY DEF NoPut, Others
  <2>1. CASE s = r
    BY <1>1, <1>3, <2>1 DEF At
  <2>2. CASE s # r
    <3>1. s \in Requests /\ tx'[s] = tx[s]
      BY <2>2 DEF Others, IInv
    <3> QED BY <3>1, <1>3 DEF NoPut, At
  <2> QED BY <2>1, <2>2
<1>4. q \in Saves => SaveKept(q, tx[q], owner)'
  <2> SUFFICES ASSUME q \in Saves, tx[q].at \in {"put", "commit"}, tx[q].val # tx[q].old
               PROVE  /\ tx[q].at = "commit" => owner'[tx[q].org] = q
                      /\ tx[q].val \in Inns => /\ NoPut(q, tx[q].val)'
                                               /\ \A p \in Orgs \ {tx[q].org} : inn'[p] # tx[q].val
    BY <1>1 DEF SaveKept, NoPut
  <2> tx[q].org \in Orgs
    BY <1>1 DEF Suits, Active
  <2>1. tx[q].at = "commit" => owner'[tx[q].org] = q
    BY <1>1, <1>2 DEF Kept, SaveKept
  <2>2. ASSUME tx[q].val \in Inns PROVE NoPut(q, tx[q].val)'
    <3> PICK v \in Inns : v = tx[q].val
      BY <2>2
    <3>1. GapLock(q, v) /\ NoPut(q, v)
      BY <1>1 DEF Kept, SaveKept, GapLock, Changing
    <3>2. NoPut(q, v)'
      BY <1>3, <3>1
    <3> QED BY <3>2, <1>1 DEF NoPut
  <2> QED BY <2>1, <2>2, <1>1 DEF Kept, SaveKept
<1>5. q \in Refreshes => RefreshKept(q, tx[q], owner)'
  <2> SUFFICES ASSUME q \in Refreshes PROVE RefreshKept(q, tx[q], owner)'
    OBVIOUS
  <2>1. tx[q].at = "group" => owner'[tx[q].org] = q /\ inn'[tx[q].org] = tx[q].val
    BY <1>1, <1>2 DEF Kept, RefreshKept, Suits, Active
  <2>2. ASSUME tx[q].at \in {"read", "apply", "commit"}
        PROVE  /\ tx[q].group = Group(tx[q].val) /\ tx[q].org \in tx[q].group
               /\ NoPut(q, tx[q].val)' /\ \A p \in tx[q].group : owner'[p] = q
    <3> PICK v \in Inns : v = tx[q].val
      BY <1>1, <2>2 DEF Suits, Active
    <3>1. GapLock(q, v) /\ NoPut(q, v)
      BY <1>1, <2>2 DEF Kept, RefreshKept, GapLock
    <3>2. NoPut(q, v)'
      BY <1>3, <3>1
    <3>3. NoPut(q, tx[q].val)'
      BY <3>2, <1>1 DEF NoPut
    <3> QED BY <3>3, <1>1, <1>2, <2>2 DEF Kept, RefreshKept, Group
  <2>3. \A x : Group(x)' = Group(x)
    BY DEF Group
  <2> QED BY <1>1, <2>1, <2>2, <2>3 DEF RefreshKept, Group, NoPut
<1>6. q \in Deletions /\ tx[q].at = "commit" => owner'[tx[q].org] = q
  BY <1>1, <1>2 DEF Kept, Suits, Active
<1> QED BY <1>1, <1>4, <1>5, <1>6 DEF Kept, SaveKept, RefreshKept, NoPut, Group

-----------------------------------------------------------------------------
(* A step of r that goes on: its new record n suits it, and what n has     *)
(* made sure of holds.                                                     *)
LEMMA Advance ==
  ASSUME IInv, NEW r \in Requests, NEW n, Suits(r, n), Active(n), tx' = [tx EXCEPT ![r] = n],
         inn' = inn, rows' = rows, keys' \in [Inns -> Requests \cup {Nil}],
         Gained(r), owner' \in [Orgs -> Requests \cup {Nil}],
         r \in Saves /\ n.at = "commit" /\ n.val # n.old /\ n.val \in Inns
           => \A q \in Others(r) : ~GapLock(q, n.val),
         Kept(r, n, owner')
  PROVE  IInv'
<1>1. n \in TxRec /\ tx' \in [Requests -> TxRec] /\ tx'[r] = n
  BY DEF IInv, Suits
<1>2. TablesTyped'
  BY DEF IInv, TablesTyped
<1>3. OwnersTyped'
  BY <1>1, Distinct DEF IInv, OwnersTyped, Gained, Active
<1>4. \A x : NoPut(r, x)' <=> NoPut(r, x)
  <2>1. \A q \in Others(r) : tx'[q] = tx[q]
    BY DEF Others, IInv
  <2> QED BY <2>1 DEF NoPut, At
<1>5. \A x : Group(x)' = Group(x)
  BY DEF Group
<1>6. Kept(r, tx[r], owner)'
  BY <1>1, <1>4, <1>5 DEF Kept, SaveKept, RefreshKept
<1>7. ASSUME NEW q \in Requests PROVE Suits(q, tx'[q]) /\ Kept(q, tx[q], owner)'
  <2>1. CASE q = r
    BY <1>1, <1>6, <2>1
  <2>2. CASE q # r
    BY <1>1, <2>2, OthersKept DEF Others
  <2> QED BY <2>1, <2>2
<1>8. \A q \in Requests : Suits(q, tx[q])'
  BY <1>7 DEF Suits, Active
<1> QED BY <1>1, <1>2, <1>3, <1>7, <1>8 DEF IInv

(* A step that ends r without a change to the tables.                      *)
LEMMA Finish ==
  ASSUME IInv, NEW r \in Requests, tx' = [tx EXCEPT ![r] = Rest("done")],
         Release(r), UNCHANGED tables
  PROVE  IInv'
<1>1. Rest("done") \in TxRec /\ Rest("done").at = "done"
  BY RestTyped DEF Points
<1>2. tx' \in [Requests -> TxRec] /\ tx'[r] = Rest("done")
  BY <1>1 DEF IInv
<1>3. /\ Gained(r) /\ owner' \in [Orgs -> Requests \cup {Nil}]
      /\ \A o \in Orgs : owner'[o] # r
      /\ \A o \in Orgs : owner'[o] = Nil \/ owner'[o] = owner[o]
      /\ keys' \in [Inns -> Requests \cup {Nil}]
  BY ReleaseGains
<1>4. TablesTyped'
  BY <1>3 DEF IInv, TablesTyped, tables
<1>5. OwnersTyped'
  BY <1>2, <1>3, Distinct DEF IInv, OwnersTyped, Active
<1>6. Suits(r, tx'[r]) /\ Kept(r, tx[r], owner)'
  BY <1>1, <1>2 DEF Suits, Kept, SaveKept, RefreshKept, Active
<1>7. ASSUME NEW q \in Requests PROVE Suits(q, tx'[q]) /\ Kept(q, tx[q], owner)'
  <2>1. CASE q = r
    BY <1>6, <2>1
  <2>2. CASE q # r
    BY <1>1, <1>3, <2>2, OthersKept DEF Others, tables
  <2> QED BY <2>1, <2>2
<1>8. \A q \in Requests : Suits(q, tx[q])'
  BY <1>7 DEF Suits, Active
<1> QED BY <1>2, <1>4, <1>5, <1>7, <1>8 DEF IInv

(* r moves to point p and changes nothing else in its record.              *)
LEMMA Moved ==
  ASSUME IInv, NEW r \in Requests, NEW p \in Points, Goto(r, p),
         Suits(r, [tx[r] EXCEPT !.at = p])
  PROVE  /\ tx' = [tx EXCEPT ![r] = [tx[r] EXCEPT !.at = p]]
         /\ [tx[r] EXCEPT !.at = p] \in TxRec
  BY DEF IInv, Goto, Suits

-----------------------------------------------------------------------------
(* The steps of a save.                                                    *)
LEMMA PayloadSuits ==
  ASSUME IInv, NEW r \in Saves, NEW o \in Orgs, NEW D \in SUBSET RowIds,
         NEW edit \in [D -> Values], NEW typed \in SUBSET D, NEW new \in Values,
         Payload(r, o, edit, typed, new)
  PROVE  \E n : /\ tx' = [tx EXCEPT ![r] = n] /\ Suits(r, n)
               /\ n.at \in {"key", "flush"} /\ n.org = o
<1> DEFINE entries == {i \in typed : edit[i] # Nil} \cup (IF new = Nil THEN {} ELSE {r})
           view == [i \in RowIds |-> IF i \in DOMAIN edit THEN edit[i] ELSE IF i = r THEN new ELSE Nil]
           pending == IF entries = {} THEN Nil ELSE view[CHOOSE i \in entries : TRUE]
           old == IF Exists(o) THEN inn[o] ELSE Nil
           ws == [i \in RowIds |-> IF view[i] = rows[o][i] THEN Same ELSE view[i]]
           p == IF pending \in Inns \ {old} THEN "key" ELSE "flush"
           n == [Rest(p) EXCEPT !.org = o, !.old = old, !.val = pending, !.view = view,
                                !.writes[o] = ws]
<1>1. r \in RowIds /\ r \in Requests /\ r \notin Refreshes /\ r \notin Deletions
  BY RequestAssumption DEF RowIds, Requests
<1>2. view \in [RowIds -> Values] /\ entries \subseteq RowIds
  BY <1>1 DEF Values
<1>3. pending \in Values
  <2>1. CASE entries = {}
    BY <2>1 DEF Values
  <2>2. CASE entries # {}
    <3>1. (CHOOSE i \in entries : TRUE) \in entries
      BY <2>2
    <3> HIDE DEF entries, view
    <3> QED BY <1>2, <2>2, <3>1
  <2> QED BY <2>1, <2>2
<1>4. old \in Values
  BY DEF Exists, Values
<1>5. ws \in [RowIds -> Values \cup {Same}]
  BY <1>2
<1>6. p \in Points /\ p \in {"key", "flush"}
  BY DEF Points
<1>7. tx' = [tx EXCEPT ![r] = n]
  BY DEF Payload
<1> HIDE DEF entries, view, pending, old, ws, p
<1>8. n \in TxRec /\ n.at = p /\ n.org = o
  BY <1>2, <1>3, <1>4, <1>5, <1>6 DEF Rest, TxRec, NoRow, NoWrites, Untouched, Values
<1>9. Suits(r, n)
  BY <1>1, <1>6, <1>8 DEF Suits, Active
<1> QED BY <1>6, <1>7, <1>8, <1>9

LEMMA Ungained ==
  ASSUME IInv, NEW r \in Requests, UNCHANGED owner
  PROVE  Gained(r) /\ owner' \in [Orgs -> Requests \cup {Nil}]
  BY DEF Gained, IInv, OwnersTyped

LEMMA EditKeeps ==
  ASSUME IInv, NEW r \in Requests, NEW o \in Orgs, Edit(r, o)
  PROVE  IInv'
<1>1. r \in Saves /\ UNCHANGED <<tables, locks>>
  BY DEF Edit
<1>2. PICK edit \in [Shown(o) -> Values], typed \in SUBSET Shown(o), new \in Values :
        Payload(r, o, edit, typed, new)
  BY DEF Edit
<1>3. Shown(o) \subseteq RowIds
  BY DEF Shown
<1>4. PICK n : /\ tx' = [tx EXCEPT ![r] = n] /\ Suits(r, n)
               /\ n.at \in {"key", "flush"} /\ n.org = o
  BY <1>1, <1>2, <1>3, PayloadSuits
<1>5. inn' = inn /\ rows' = rows /\ keys' = keys /\ owner' = owner
  BY <1>1 DEF tables, locks
<1>6. Kept(r, n, owner')
  BY <1>1, <1>4, RequestAssumption DEF Kept, SaveKept
<1> QED BY <1>4, <1>5, <1>6, Ungained, Advance DEF Active, IInv, TablesTyped

LEMMA CreateKeeps ==
  ASSUME IInv, NEW r \in Requests, NEW o \in Orgs, Create(r, o)
  PROVE  IInv'
<1>1. r \in Saves /\ owner[o] = Nil /\ Take(r, {o}) /\ UNCHANGED <<tables, keys>>
  BY DEF Create
<1>2. PICK new \in Values : Payload(r, o, [i \in {} |-> Nil], {}, new)
  BY DEF Create, Values
<1>3. [i \in {} |-> Nil] \in [{} -> Values] /\ {} \in SUBSET RowIds
  OBVIOUS
<1>4. PICK n : /\ tx' = [tx EXCEPT ![r] = n] /\ Suits(r, n)
               /\ n.at \in {"key", "flush"} /\ n.org = o
  BY <1>1, <1>2, <1>3, PayloadSuits
<1>5. Gained(r) /\ owner' \in [Orgs -> Requests \cup {Nil}]
  BY <1>1, TakeGains
<1>6. inn' = inn /\ rows' = rows /\ keys' = keys
  BY <1>1 DEF tables
<1>7. Kept(r, n, owner')
  BY <1>1, <1>4, RequestAssumption DEF Kept, SaveKept
<1> QED BY <1>4, <1>5, <1>6, <1>7, Advance DEF Active, IInv, TablesTyped

(* Who is where.                                                           *)
LEMMA Kinds ==
  ASSUME IInv, NEW r \in Requests
  PROVE  /\ Suits(r, tx[r]) /\ Kept(r, tx[r], owner)
         /\ tx[r].at \in {"key", "flush", "rows", "sync", "put"}
              => r \in Saves /\ r \notin Refreshes /\ r \notin Deletions
         /\ tx[r].at \in {"answer", "group", "read", "apply"}
              => r \in Refreshes /\ r \notin Saves /\ r \notin Deletions
         /\ tx[r].at = "bury" => r \in Deletions /\ r \notin Saves /\ r \notin Refreshes
  BY RequestAssumption DEF IInv, Suits, Requests

(* r moves, and nothing but locks changes.                                 *)
LEMMA MoveKeeps ==
  ASSUME IInv, NEW r \in Requests, NEW p \in Points, Goto(r, p), Active(tx[r]), p \notin {"start", "done"},
         Suits(r, [tx[r] EXCEPT !.at = p]),
         inn' = inn, rows' = rows, keys' \in [Inns -> Requests \cup {Nil}],
         Gained(r), owner' \in [Orgs -> Requests \cup {Nil}],
         r \in Saves /\ p = "commit" /\ Changing(r) /\ tx[r].val \in Inns
           => \A q \in Others(r) : ~GapLock(q, tx[r].val),
         Kept(r, [tx[r] EXCEPT !.at = p], owner')
  PROVE  IInv'
<1> DEFINE n == [tx[r] EXCEPT !.at = p]
<1>1. tx[r] \in TxRec
  BY DEF IInv
<1>2. n.at = p /\ n.org = tx[r].org /\ n.val = tx[r].val /\ n.old = tx[r].old
  BY <1>1 DEF TxRec
<1>3. tx' = [tx EXCEPT ![r] = n]
  BY Moved
<1>4. Suits(r, n) /\ Active(n) /\ Kept(r, n, owner')
  BY <1>2 DEF Active
<1>5. r \in Saves /\ n.at = "commit" /\ n.val # n.old /\ n.val \in Inns
           => \A q \in Others(r) : ~GapLock(q, n.val)
  BY <1>2 DEF Changing
<1> HIDE DEF n
<1> QED BY <1>3, <1>4, <1>5, Advance

(* A move that makes sure of nothing new.                                  *)
LEMMA PlainMoveSuits ==
  ASSUME IInv, NEW r \in Saves, Active(tx[r]), NEW p \in {"flush", "rows", "sync"}
  PROVE  /\ Suits(r, [tx[r] EXCEPT !.at = p]) /\ Kept(r, [tx[r] EXCEPT !.at = p], owner')
         /\ p \in Points /\ p # "commit" /\ p \notin {"start", "done"} /\ r \in Requests
<1>1. r \in Requests /\ r \notin Refreshes /\ r \notin Deletions
  BY RequestAssumption DEF Requests
<1>2. tx[r] \in TxRec /\ Suits(r, tx[r])
  BY <1>1 DEF IInv
<1>3. [tx[r] EXCEPT !.at = p] \in TxRec
  BY <1>2 DEF TxRec, Points
<1> QED BY <1>1, <1>2, <1>3 DEF Suits, Kept, SaveKept, Active, Points, TxRec

LEMMA TakeKeyKeeps ==
  ASSUME IInv, NEW r \in Requests, TakeKey(r)
  PROVE  IInv'
<1>1. /\ tx[r].at = "key" /\ Goto(r, "flush") /\ UNCHANGED <<tables, owner>>
      /\ keys' = [keys EXCEPT ![tx[r].val] = r]
  BY DEF TakeKey, At
<1>2. r \in Saves /\ Active(tx[r])
  BY <1>1, Kinds DEF Active
<1>3. inn' = inn /\ rows' = rows /\ owner' = owner /\ keys' \in [Inns -> Requests \cup {Nil}]
  BY <1>1 DEF tables, IInv, TablesTyped
<1> QED BY <1>1, <1>2, <1>3, PlainMoveSuits, MoveKeeps, Ungained

LEMMA FlushKeeps ==
  ASSUME IInv, NEW r \in Requests, Flush(r)
  PROVE  IInv'
<1>1. tx[r].at = "flush" /\ Goto(r, "rows") /\ UNCHANGED <<tables, keys>>
  BY DEF Flush, At
<1>2. r \in Saves /\ Active(tx[r]) /\ tx[r].org \in Orgs
  BY <1>1, Kinds DEF Active, Suits
<1>3. inn' = inn /\ rows' = rows /\ keys' \in [Inns -> Requests \cup {Nil}]
  BY <1>1 DEF tables, IInv, TablesTyped
<1>4. Gained(r) /\ owner' \in [Orgs -> Requests \cup {Nil}]
  <2>1. CASE UNCHANGED owner
    BY <2>1, Ungained
  <2>2. CASE Lockable(r, tx[r].org) /\ Take(r, {tx[r].org})
    BY <1>2, <2>2, TakeGains DEF Lockable
  <2> QED BY <2>1, <2>2 DEF Flush
<1> QED BY <1>1, <1>2, <1>3, <1>4, PlainMoveSuits, MoveKeeps

LEMMA WriteRowsKeeps ==
  ASSUME IInv, NEW r \in Requests, WriteRows(r)
  PROVE  IInv'
<1>1. tx[r].at = "rows" /\ Goto(r, "sync") /\ UNCHANGED <<tables, locks>>
  BY DEF WriteRows, At
<1>2. r \in Saves /\ Active(tx[r])
  BY <1>1, Kinds DEF Active
<1>3. inn' = inn /\ rows' = rows /\ owner' = owner /\ keys' \in [Inns -> Requests \cup {Nil}]
  BY <1>1 DEF tables, locks, IInv, TablesTyped
<1> QED BY <1>1, <1>2, <1>3, PlainMoveSuits, MoveKeeps, Ungained

(* Whoever may look for an INN with FOR UPDATE finds nobody about to write *)
(* it: the writer holds the card.                                          *)
LEMMA SearchFindsNoPut ==
  ASSUME IInv, NEW r \in Requests, NEW v \in Inns, Searchable(r, v)
  PROVE  /\ NoPut(r, v)
         /\ \A o \in Matching(v) : owner[o] \in {Nil, r}
         /\ Matching(v) \subseteq Orgs
<1>1. \A o \in Matching(v) : owner[o] \in {Nil, r}
  BY DEF Searchable, Lockable
<1>2. SUFFICES ASSUME NEW q \in Others(r), q \in Saves, At(q, "commit"), tx[q].val # tx[q].old,
                      tx[q].val = v
               PROVE  FALSE
  BY <1>1 DEF NoPut, Matching
<1>3. q \in Requests /\ q # r /\ q # Nil
  BY Distinct DEF Others
<1>4. Suits(q, tx[q]) /\ Kept(q, tx[q], owner)
  BY <1>3, Kinds
<1>5. tx[q].org \in Orgs /\ owner[tx[q].org] = q
  BY <1>2, <1>4 DEF Suits, Active, Kept, SaveKept, At
<1>6. tx[q].org \in Matching(v)
  BY <1>2, <1>3, <1>5 DEF Matching, Putting, Changing
<1> QED BY <1>1, <1>3, <1>5, <1>6

LEMMA SyncInnKeeps ==
  ASSUME IInv, NEW r \in Requests, SyncInn(r)
  PROVE  IInv'
<1> DEFINE present == {i \in RowIds : tx[r].view[i] # Nil}
           v == IF present = {} THEN Nil ELSE tx[r].view[CHOOSE i \in present : TRUE]
           p == IF v = tx[r].old THEN "commit" ELSE "put"
           n == [tx[r] EXCEPT !.at = p, !.val = v, !.view = NoRow]
<1>1. /\ tx[r].at = "sync" /\ UNCHANGED <<tables, keys>>
      /\ IF v \in Inns /\ v # tx[r].old
         THEN Searchable(r, v) /\ Unique(r, v) /\ Take(r, Matching(v))
         ELSE UNCHANGED owner
      /\ tx' = [tx EXCEPT ![r].at = p, ![r].val = v, ![r].view = NoRow]
  BY DEF SyncInn, At
<1>2. /\ r \in Saves /\ r \notin Refreshes /\ r \notin Deletions /\ Active(tx[r])
      /\ tx[r].org \in Orgs /\ tx[r] \in TxRec
  BY <1>1, Kinds DEF Active, Suits
<1>3. v \in Values
  <2>1. CASE present = {}
    BY <2>1 DEF Values
  <2>2. CASE present # {}
    <3>1. (CHOOSE i \in present : TRUE) \in present
      BY <2>2
    <3>2. (CHOOSE i \in present : TRUE) \in RowIds
      BY <3>1
    <3> HIDE DEF present
    <3> QED BY <1>2, <2>2, <3>2 DEF TxRec
  <2> QED BY <2>1, <2>2
<1>4. p \in {"commit", "put"} /\ (p = "put" <=> v # tx[r].old)
  OBVIOUS
<1> HIDE DEF present, v, p
<1>5. tx' = [tx EXCEPT ![r] = n]
  BY <1>1 DEF IInv
<1>6. /\ n \in TxRec /\ n.at = p /\ n.val = v /\ n.old = tx[r].old /\ n.org = tx[r].org
  BY <1>2, <1>3, <1>4 DEF TxRec, Points, NoRow, Values
<1>7. Suits(r, n) /\ Active(n)
  BY <1>2, <1>4, <1>6 DEF Suits, Active
<1>8. inn' = inn /\ rows' = rows /\ keys' = keys
  BY <1>1 DEF tables
<1>9. Gained(r) /\ owner' \in [Orgs -> Requests \cup {Nil}]
  <2>1. CASE v \in Inns /\ v # tx[r].old
    BY <1>1, <2>1, SearchFindsNoPut, TakeGains
  <2>2. CASE ~(v \in Inns /\ v # tx[r].old)
    BY <1>1, <2>2, Ungained
  <2> QED BY <2>1, <2>2
<1>10. v \in Inns /\ v # tx[r].old => NoPut(r, v) /\ \A o \in Orgs \ {tx[r].org} : inn[o] # v
  BY <1>1, SearchFindsNoPut DEF Unique
<1>11. Kept(r, n, owner')
  BY <1>2, <1>4, <1>6, <1>10 DEF Kept, SaveKept
<1>12. n.at = "commit" => n.val = n.old
  BY <1>4, <1>6
<1> HIDE DEF n
<1> QED BY <1>5, <1>7, <1>8, <1>9, <1>11, <1>12, Advance DEF IInv, TablesTyped

LEMMA PutKeeps ==
  ASSUME IInv, NEW r \in Requests, Put(r)
  PROVE  IInv'
<1>1. /\ tx[r].at = "put" /\ Lockable(r, tx[r].org) /\ Take(r, {tx[r].org}) /\ Goto(r, "commit")
      /\ \A q \in Others(r) : ~GapLock(q, tx[r].val)
      /\ UNCHANGED <<tables, keys>>
  BY DEF Put, At
<1>2. /\ r \in Saves /\ r \notin Refreshes /\ r \notin Deletions /\ Active(tx[r])
      /\ tx[r].org \in Orgs /\ tx[r] \in TxRec /\ SaveKept(r, tx[r], owner) /\ Suits(r, tx[r])
  BY <1>1, Kinds DEF Active, Suits, Kept
<1>3. inn' = inn /\ rows' = rows /\ keys' \in [Inns -> Requests \cup {Nil}]
  BY <1>1 DEF tables, IInv, TablesTyped
<1>4. Gained(r) /\ owner' \in [Orgs -> Requests \cup {Nil}] /\ owner'[tx[r].org] = r
  BY <1>1, <1>2, TakeGains DEF Lockable
<1> DEFINE n == [tx[r] EXCEPT !.at = "commit"]
<1>5. n \in TxRec /\ n.at = "commit" /\ n.org = tx[r].org /\ n.val = tx[r].val /\ n.old = tx[r].old
  BY <1>2 DEF TxRec, Points
<1> HIDE DEF n
<1>6. Suits(r, n)
  BY <1>2, <1>5 DEF Suits, Active
<1>7. Kept(r, n, owner')
  BY <1>1, <1>2, <1>4, <1>5 DEF Kept, SaveKept
<1>8. "commit" \in Points
  BY DEF Points
<1> USE DEF n
<1> QED BY <1>1, <1>2, <1>3, <1>4, <1>6, <1>7, <1>8, MoveKeeps

-----------------------------------------------------------------------------
(* The steps of a refresh.                                                 *)
LEMMA AskKeeps ==
  ASSUME IInv, NEW r \in Requests, NEW o \in Orgs, Ask(r, o)
  PROVE  IInv'
<1> DEFINE n == [Rest("answer") EXCEPT !.org = o, !.val = inn[o]]
<1>1. /\ r \in Refreshes /\ r \notin Saves /\ r \notin Deletions /\ inn[o] \in Inns
      /\ tx' = [tx EXCEPT ![r] = n] /\ UNCHANGED <<tables, locks>>
  BY RequestAssumption DEF Ask
<1>2. n \in TxRec /\ n.at = "answer" /\ n.org = o /\ n.val = inn[o]
  BY <1>1 DEF Rest, TxRec, NoRow, NoWrites, Untouched, Values, Points
<1> HIDE DEF n
<1>3. Suits(r, n) /\ Active(n) /\ Kept(r, n, owner')
  BY <1>1, <1>2 DEF Suits, Active, Kept, RefreshKept
<1>4. inn' = inn /\ rows' = rows /\ keys' = keys /\ owner' = owner
  BY <1>1 DEF tables, locks
<1> QED BY <1>1, <1>3, <1>4, Ungained, Advance DEF IInv, TablesTyped

LEMMA LockCardKeeps ==
  ASSUME IInv, NEW r \in Requests, LockCard(r)
  PROVE  IInv'
<1>1. /\ tx[r].at = "answer" /\ Lockable(r, tx[r].org) /\ inn[tx[r].org] = tx[r].val
      /\ Take(r, {tx[r].org}) /\ Goto(r, "group") /\ UNCHANGED <<tables, keys>>
  BY DEF LockCard, At
<1>2. /\ r \in Refreshes /\ r \notin Saves /\ r \notin Deletions /\ Active(tx[r])
      /\ tx[r].org \in Orgs /\ tx[r] \in TxRec /\ Suits(r, tx[r])
  BY <1>1, Kinds DEF Active, Suits
<1>3. inn' = inn /\ rows' = rows /\ keys' \in [Inns -> Requests \cup {Nil}]
  BY <1>1 DEF tables, IInv, TablesTyped
<1>4. Gained(r) /\ owner' \in [Orgs -> Requests \cup {Nil}] /\ owner'[tx[r].org] = r
  BY <1>1, <1>2, TakeGains DEF Lockable
<1> DEFINE n == [tx[r] EXCEPT !.at = "group"]
<1>5. n \in TxRec /\ n.at = "group" /\ n.org = tx[r].org /\ n.val = tx[r].val
  BY <1>2 DEF TxRec, Points
<1> HIDE DEF n
<1>6. Suits(r, n) /\ Kept(r, n, owner')
  BY <1>1, <1>2, <1>4, <1>5 DEF Suits, Active, Kept, RefreshKept
<1>7. "group" \in Points
  BY DEF Points
<1> USE DEF n
<1> QED BY <1>1, <1>2, <1>3, <1>4, <1>6, <1>7, MoveKeeps

LEMMA LockGroupKeeps ==
  ASSUME IInv, NEW r \in Requests, LockGroup(r)
  PROVE  IInv'
<1> DEFINE n == [tx[r] EXCEPT !.at = "read", !.group = Group(tx[r].val)]
<1>1. /\ tx[r].at = "group" /\ Searchable(r, tx[r].val) /\ Take(r, Matching(tx[r].val))
      /\ tx' = [tx EXCEPT ![r] = n] /\ UNCHANGED <<tables, keys>>
  BY DEF LockGroup, At, IInv
<1>2. /\ r \in Refreshes /\ r \notin Saves /\ r \notin Deletions
      /\ tx[r].org \in Orgs /\ tx[r].val \in Inns /\ tx[r] \in TxRec
      /\ inn[tx[r].org] = tx[r].val
  BY <1>1, Kinds DEF Active, Suits, Kept, RefreshKept
<1>3. Group(tx[r].val) \in SUBSET Orgs /\ tx[r].org \in Group(tx[r].val)
  BY <1>2 DEF Group
<1>4. /\ n \in TxRec /\ n.at = "read" /\ n.org = tx[r].org /\ n.val = tx[r].val
      /\ n.group = Group(tx[r].val)
  BY <1>2, <1>3 DEF TxRec, Points
<1> HIDE DEF n
<1>5. NoPut(r, tx[r].val) /\ Matching(tx[r].val) \in SUBSET Orgs
      /\ \A o \in Matching(tx[r].val) : owner[o] \in {Nil, r}
  BY <1>1, <1>2, SearchFindsNoPut
<1>6. /\ Gained(r) /\ owner' \in [Orgs -> Requests \cup {Nil}]
      /\ \A o \in Matching(tx[r].val) : owner'[o] = r
  BY <1>1, <1>5, TakeGains
<1>7. Group(tx[r].val) \subseteq Matching(tx[r].val)
  BY DEF Group, Matching
<1>8. Suits(r, n) /\ Active(n)
  BY <1>2, <1>4 DEF Suits, Active
<1>9. Kept(r, n, owner')
  BY <1>2, <1>3, <1>4, <1>5, <1>6, <1>7 DEF Kept, RefreshKept
<1>10. inn' = inn /\ rows' = rows /\ keys' = keys
  BY <1>1 DEF tables
<1> QED BY <1>1, <1>2, <1>6, <1>8, <1>9, <1>10, Advance DEF IInv, TablesTyped

LEMMA ReadRowsKeeps ==
  ASSUME IInv, NEW r \in Requests, ReadRows(r)
  PROVE  IInv'
<1>1. tx[r].at = "read" /\ UNCHANGED <<tables, locks>>
  BY DEF ReadRows, At
<1>2. PICK found \in [Orgs -> RowIds] :
        tx' = [tx EXCEPT ![r].at = "apply",
                 ![r].writes = [o \in Orgs |-> IF o \in tx[r].group THEN Upsert(r, o, found[o])
                                               ELSE Untouched]]
  BY DEF ReadRows
<1> DEFINE ws == [o \in Orgs |-> IF o \in tx[r].group THEN Upsert(r, o, found[o]) ELSE Untouched]
           n == [tx[r] EXCEPT !.at = "apply", !.writes = ws]
<1>3. /\ r \in Refreshes /\ r \notin Saves /\ r \notin Deletions
      /\ tx[r].org \in Orgs /\ tx[r].val \in Inns /\ tx[r] \in TxRec
      /\ RefreshKept(r, tx[r], owner)
  BY <1>1, Kinds DEF Active, Suits, Kept
<1>4. ws \in [Orgs -> [RowIds -> Values \cup {Same}]]
  <2>1. \A o \in Orgs : Upsert(r, o, found[o]) \in [RowIds -> Values \cup {Same}]
    BY <1>3 DEF Upsert, Untouched, Values
  <2>2. Untouched \in [RowIds -> Values \cup {Same}]
    BY DEF Untouched
  <2> QED BY <2>1, <2>2
<1>5. tx' = [tx EXCEPT ![r] = n]
  BY <1>2 DEF IInv
<1> HIDE DEF ws
<1>6. /\ n \in TxRec /\ n.at = "apply" /\ n.org = tx[r].org /\ n.val = tx[r].val
      /\ n.group = tx[r].group
  BY <1>3, <1>4 DEF TxRec, Points
<1> HIDE DEF n
<1>7. inn' = inn /\ rows' = rows /\ keys' = keys /\ owner' = owner
  BY <1>1 DEF tables, locks
<1>8. Suits(r, n) /\ Active(n) /\ Kept(r, n, owner')
  BY <1>1, <1>3, <1>6, <1>7 DEF Suits, Active, Kept, RefreshKept
<1> QED BY <1>3, <1>5, <1>7, <1>8, Ungained, Advance DEF IInv, TablesTyped

LEMMA ApplyKeeps ==
  ASSUME IInv, NEW r \in Requests, Apply(r)
  PROVE  IInv'
<1>1. tx[r].at = "apply" /\ Goto(r, "commit") /\ UNCHANGED <<tables, locks>>
  BY DEF Apply, At
<1>2. /\ r \in Refreshes /\ r \notin Saves /\ r \notin Deletions /\ Active(tx[r])
      /\ tx[r] \in TxRec /\ Suits(r, tx[r]) /\ RefreshKept(r, tx[r], owner)
  BY <1>1, Kinds DEF Active, Suits, Kept
<1>3. inn' = inn /\ rows' = rows /\ owner' = owner /\ keys' \in [Inns -> Requests \cup {Nil}]
  BY <1>1 DEF tables, locks, IInv, TablesTyped
<1> DEFINE n == [tx[r] EXCEPT !.at = "commit"]
<1>4. /\ n \in TxRec /\ n.at = "commit" /\ n.org = tx[r].org /\ n.val = tx[r].val
      /\ n.group = tx[r].group
  BY <1>2 DEF TxRec, Points
<1> HIDE DEF n
<1>5. Suits(r, n) /\ Kept(r, n, owner')
  BY <1>1, <1>2, <1>3, <1>4 DEF Suits, Active, Kept, RefreshKept
<1>6. "commit" \in Points
  BY DEF Points
<1> USE DEF n
<1> QED BY <1>1, <1>2, <1>3, <1>5, <1>6, Ungained, MoveKeeps

-----------------------------------------------------------------------------
(* The steps of a deletion.                                                *)
LEMMA EraseKeeps ==
  ASSUME IInv, NEW r \in Requests, NEW o \in Orgs, Erase(r, o)
  PROVE  IInv'
<1> DEFINE n == [Rest("bury") EXCEPT !.org = o, !.writes[o] = NoRow]
<1>1. /\ r \in Deletions /\ r \notin Saves /\ r \notin Refreshes
      /\ tx' = [tx EXCEPT ![r] = n] /\ UNCHANGED <<tables, locks>>
  BY RequestAssumption DEF Erase
<1>2. n \in TxRec /\ n.at = "bury" /\ n.org = o
  BY DEF Rest, TxRec, NoRow, NoWrites, Untouched, Values, Points
<1> HIDE DEF n
<1>3. Suits(r, n) /\ Active(n) /\ Kept(r, n, owner')
  BY <1>1, <1>2 DEF Suits, Active, Kept
<1>4. inn' = inn /\ rows' = rows /\ keys' = keys /\ owner' = owner
  BY <1>1 DEF tables, locks
<1> QED BY <1>1, <1>3, <1>4, Ungained, Advance DEF IInv, TablesTyped

LEMMA BuryKeeps ==
  ASSUME IInv, NEW r \in Requests, Bury(r)
  PROVE  IInv'
<1>1. /\ tx[r].at = "bury" /\ Lockable(r, tx[r].org) /\ Take(r, {tx[r].org}) /\ Goto(r, "commit")
      /\ UNCHANGED <<tables, keys>>
  BY DEF Bury, At
<1>2. /\ r \in Deletions /\ r \notin Saves /\ r \notin Refreshes /\ Active(tx[r])
      /\ tx[r].org \in Orgs /\ tx[r] \in TxRec /\ Suits(r, tx[r])
  BY <1>1, Kinds DEF Active, Suits
<1>3. inn' = inn /\ rows' = rows /\ keys' \in [Inns -> Requests \cup {Nil}]
  BY <1>1 DEF tables, IInv, TablesTyped
<1>4. Gained(r) /\ owner' \in [Orgs -> Requests \cup {Nil}] /\ owner'[tx[r].org] = r
  BY <1>1, <1>2, TakeGains DEF Lockable
<1> DEFINE n == [tx[r] EXCEPT !.at = "commit"]
<1>5. n \in TxRec /\ n.at = "commit" /\ n.org = tx[r].org
  BY <1>2 DEF TxRec, Points
<1> HIDE DEF n
<1>6. Suits(r, n) /\ Kept(r, n, owner')
  BY <1>2, <1>4, <1>5 DEF Suits, Active, Kept
<1>7. "commit" \in Points
  BY DEF Points
<1> USE DEF n
<1> QED BY <1>1, <1>2, <1>3, <1>4, <1>6, <1>7, MoveKeeps

-----------------------------------------------------------------------------
(* A commit changes the INN of at most one card, which the transaction     *)
(* holds; a new INN is one that no other card has, and that no other       *)
(* transaction has locked or is about to write.                            *)
LEMMA CommitChanges ==
  ASSUME IInv, NEW r \in Requests, Commit(r)
  PROVE  \/ inn' = inn
         \/ /\ tx[r].org \in Orgs /\ owner[tx[r].org] = r
            /\ \/ inn' = [inn EXCEPT ![tx[r].org] = Gone]
               \/ /\ inn' = [inn EXCEPT ![tx[r].org] = tx[r].val] /\ tx[r].val \in Values
                  /\ r \in Saves /\ At(r, "commit") /\ tx[r].val # tx[r].old
                  /\ tx[r].val \in Inns => /\ NoPut(r, tx[r].val)
                                           /\ \A p \in Orgs \ {tx[r].org} : inn[p] # tx[r].val
<1>1. tx[r].at = "commit"
  BY DEF Commit, At
<1>2. Suits(r, tx[r]) /\ Kept(r, tx[r], owner) /\ tx[r] \in TxRec
  BY Kinds DEF Suits
<1>3. tx[r].org \in Orgs /\ tx[r].val \in Values
  BY <1>1, <1>2 DEF Suits, Active, TxRec
<1>4. CASE r \in Deletions
  BY <1>1, <1>2, <1>3, <1>4 DEF Commit, Kept
<1>5. CASE r \notin Deletions /\ Changing(r)
  BY <1>1, <1>2, <1>3, <1>5 DEF Commit, Kept, SaveKept, Changing, At
<1>6. CASE r \notin Deletions /\ ~Changing(r)
  BY <1>6 DEF Commit
<1> QED BY <1>4, <1>5, <1>6

LEMMA CommitKeeps ==
  ASSUME IInv, NEW r \in Requests, Commit(r)
  PROVE  IInv'
<1>1. /\ tx[r].at = "commit" /\ tx' = [tx EXCEPT ![r] = Rest("done")] /\ Release(r)
      /\ rows' = [o \in Orgs |-> Written(r, o)]
  BY DEF Commit, At
<1>2. Rest("done") \in TxRec /\ Rest("done").at = "done"
  BY RestTyped DEF Points
<1>3. tx' \in [Requests -> TxRec] /\ tx'[r] = Rest("done") /\ \A q \in Others(r) : tx'[q] = tx[q]
  BY <1>1, <1>2 DEF IInv, Others
<1>4. /\ Gained(r) /\ owner' \in [Orgs -> Requests \cup {Nil}]
      /\ \A o \in Orgs : owner'[o] # r
      /\ \A o \in Orgs : owner'[o] = Nil \/ owner'[o] = owner[o]
      /\ keys' \in [Inns -> Requests \cup {Nil}]
  BY <1>1, ReleaseGains
<1>5. rows' \in [Orgs -> [RowIds -> Values]]
  <2>1. \A o \in Orgs : Written(r, o) \in [RowIds -> Values]
    <3> SUFFICES ASSUME NEW o \in Orgs PROVE Written(r, o) \in [RowIds -> Values]
      OBVIOUS
    <3>1. rows[o] \in [RowIds -> Values] /\ tx[r].writes[o] \in [RowIds -> Values \cup {Same}]
      BY DEF IInv, TablesTyped, TxRec
    <3> QED BY <3>1 DEF Written
  <2> QED BY <1>1, <2>1
<1>6. inn' \in [Orgs -> Values \cup {Unborn, Gone}]
  BY CommitChanges DEF IInv, TablesTyped
<1>7. OwnersTyped'
  BY <1>3, <1>4, Distinct DEF IInv, OwnersTyped, Active, Others
<1>8. \A q \in Others(r), x \in Inns : NoPut(q, x) => NoPut(q, x)'
  BY <1>2, <1>3 DEF NoPut, At, Others
<1>9. ASSUME NEW q \in Others(r)
      PROVE  /\ Suits(q, tx[q]) /\ Kept(q, tx[q], owner)
             /\ \A o \in Orgs : owner[o] = q => owner'[o] = q /\ inn'[o] = inn[o]
  <2>1. q \in Requests /\ q # r
    BY DEF Others
  <2>2. ASSUME NEW o \in Orgs, owner[o] = q PROVE owner'[o] = q /\ inn'[o] = inn[o]
    BY <1>4, <2>1, <2>2, Keeps, CommitChanges DEF IInv, TablesTyped
  <2> QED BY <2>1, <2>2, Kinds
(* What q has locked or is about to write is not what r has written.       *)
<1>10. ASSUME NEW q \in Others(r), NEW x \in Inns, NoPut(q, x), NEW o \in Orgs, inn'[o] = x
       PROVE  inn[o] = x
  <2>1. r \in Others(q) /\ Nil # x /\ Gone # x
    BY Distinct DEF Others
  <2> QED BY <1>10, <2>1, CommitChanges DEF NoPut, IInv, TablesTyped
<1>11. ASSUME NEW q \in Saves, q # r PROVE SaveKept(q, tx[q], owner)'
  <2>1. q \in Others(r) /\ q \in Requests
    BY <1>11 DEF Others, Requests
  <2>2. SaveKept(q, tx[q], owner) /\ Suits(q, tx[q]) /\ tx'[q] = tx[q]
    BY <1>3, <1>9, <2>1 DEF Kept
  <2> SUFFICES ASSUME tx[q].at \in {"put", "commit"}, tx[q].val # tx[q].old
               PROVE  /\ tx[q].at = "commit" => owner'[tx[q].org] = q
                      /\ tx[q].val \in Inns => /\ NoPut(q, tx[q].val)'
                                               /\ \A p \in Orgs \ {tx[q].org} : inn'[p] # tx[q].val
    BY <2>2 DEF SaveKept, NoPut
  <2>3. tx[q].at = "commit" => owner'[tx[q].org] = q
    BY <1>9, <2>1, <2>2 DEF SaveKept, Suits, Active
  <2>4. ASSUME tx[q].val \in Inns
        PROVE  NoPut(q, tx[q].val)' /\ \A p \in Orgs \ {tx[q].org} : inn'[p] # tx[q].val
    <3> PICK x \in Inns : x = tx[q].val
      BY <2>4
    <3>1. NoPut(q, x) /\ \A p \in Orgs \ {tx[q].org} : inn[p] # x
      BY <2>2 DEF SaveKept
    <3>2. NoPut(q, x)' /\ \A p \in Orgs \ {tx[q].org} : inn'[p] # x
      BY <1>8, <1>10, <2>1, <3>1
    <3> QED BY <2>2, <3>2 DEF NoPut
  <2> QED BY <2>3, <2>4
<1>12. ASSUME NEW q \in Refreshes, q # r PROVE RefreshKept(q, tx[q], owner)'
  <2>1. q \in Others(r) /\ q \in Requests
    BY <1>12 DEF Others, Requests
  <2>2. RefreshKept(q, tx[q], owner) /\ Suits(q, tx[q]) /\ tx'[q] = tx[q] /\ tx[q] \in TxRec
    BY <1>3, <1>9, <2>1 DEF Kept, Suits
  <2>3. tx[q].at = "group" => owner'[tx[q].org] = q /\ inn'[tx[q].org] = tx[q].val
    BY <1>9, <2>1, <2>2 DEF RefreshKept, Suits, Active
  <2>4. ASSUME tx[q].at \in {"read", "apply", "commit"}
        PROVE  /\ tx[q].group = Group(tx[q].val)' /\ tx[q].org \in tx[q].group
               /\ NoPut(q, tx[q].val)' /\ \A p \in tx[q].group : owner'[p] = q
    <3> PICK x \in Inns : x = tx[q].val
      BY <2>2, <2>4 DEF Suits, Active
    <3>1. /\ NoPut(q, x) /\ tx[q].group = Group(x) /\ tx[q].org \in tx[q].group
          /\ \A p \in tx[q].group : owner[p] = q
      BY <2>2, <2>4 DEF RefreshKept
    <3>2. \A p \in Group(x) : p \in Orgs /\ inn[p] = x /\ owner'[p] = q /\ inn'[p] = x
      BY <1>9, <2>1, <3>1 DEF Group
    <3>3. \A p \in Orgs : inn'[p] = x => inn[p] = x
      BY <1>10, <2>1, <3>1
    <3>4. Group(x)' = Group(x)
      BY <3>2, <3>3 DEF Group
    <3>5. NoPut(q, x)'
      BY <1>8, <2>1, <3>1
    <3> QED BY <2>2, <3>1, <3>2, <3>4, <3>5 DEF NoPut, Group
  <2> QED BY <2>2, <2>3, <2>4 DEF RefreshKept, Group, NoPut
<1>13. ASSUME NEW q \in Requests PROVE Suits(q, tx'[q]) /\ Kept(q, tx[q], owner)'
  <2>1. CASE q = r
    BY <1>2, <1>3, <2>1 DEF Suits, Active, Kept, SaveKept, RefreshKept
  <2>2. CASE q # r
    <3>1. q \in Others(r) /\ tx'[q] = tx[q] /\ Suits(q, tx[q])
      BY <1>3, <1>9, <2>2 DEF Others
    <3>2. q \in Deletions /\ tx[q].at = "commit" => owner'[tx[q].org] = q
      BY <1>9, <3>1 DEF Kept, Suits, Active
    <3> QED BY <1>11, <1>12, <2>2, <3>1, <3>2 DEF Kept
  <2> QED BY <2>1, <2>2
<1>14. \A q \in Requests : Suits(q, tx[q])'
  BY <1>13 DEF Suits, Active
<1> QED BY <1>3, <1>4, <1>5, <1>6, <1>7, <1>13, <1>14 DEF IInv, TablesTyped

-----------------------------------------------------------------------------
LEMMA InitOK == Init => IInv
<1> SUFFICES ASSUME Init PROVE IInv
  OBVIOUS
<1>1. TablesTyped /\ OwnersTyped
  BY Distinct DEF Init, TablesTyped, OwnersTyped, NoRow, Values, RowIds
<1>2. Rest("start") \in TxRec /\ Rest("start").at = "start"
  BY RestTyped DEF Points
<1>3. \A r \in Requests : tx[r] = Rest("start")
  BY DEF Init
<1>4. tx \in [Requests -> TxRec]
  BY <1>2 DEF Init
<1>5. \A r \in Requests : Suits(r, tx[r]) /\ Kept(r, tx[r], owner)
  BY <1>2, <1>3 DEF Suits, Active, Kept, SaveKept, RefreshKept
<1> QED BY <1>1, <1>4, <1>5 DEF IInv

LEMMA NextOK == IInv /\ [Next]_vars => IInv'
<1> SUFFICES ASSUME IInv, [Next]_vars PROVE IInv'
  OBVIOUS
<1>1. CASE Next
  <2>1. PICK r \in Requests : Save(r) \/ Refresh(r) \/ Deletion(r) \/ Commit(r) \/ Fail(r)
    BY <1>1 DEF Next
  <2>2. CASE Save(r)
    BY <2>2, EditKeeps, CreateKeeps, TakeKeyKeeps, FlushKeeps, WriteRowsKeeps, SyncInnKeeps,
       PutKeeps DEF Save
  <2>3. CASE Refresh(r)
    <3>1. Skip(r) => IInv'
      BY Finish DEF Skip
    <3> QED BY <2>3, <3>1, AskKeeps, LockCardKeeps, LockGroupKeeps, ReadRowsKeeps, ApplyKeeps
            DEF Refresh
  <2>4. CASE Deletion(r)
    BY <2>4, EraseKeeps, BuryKeeps DEF Deletion
  <2>5. CASE Commit(r)
    BY <2>5, CommitKeeps
  <2>6. CASE Fail(r)
    BY <2>6, Finish DEF Fail
  <2> QED BY <2>1, <2>2, <2>3, <2>4, <2>5, <2>6
<1>2. CASE UNCHANGED vars
  <2>1. inn' = inn /\ rows' = rows /\ tx' = tx /\ owner' = owner /\ keys' = keys
    BY <1>2 DEF vars
  <2> QED BY <2>1 DEF IInv, TablesTyped, OwnersTyped, Suits, Active, Kept, SaveKept, RefreshKept,
                      NoPut, At, Group
<1> QED BY <1>1, <1>2

LEMMA InvariantHolds == Spec => []IInv
  BY InitOK, NextOK, PTL DEF Spec

(* Every variable keeps its type, and only a transaction that is under way *)
(* holds the lock of an organization.                                      *)
THEOREM TypeCorrect == Spec => []TypeOK
<1>1. IInv => TypeOK
  BY DEF IInv, TablesTyped, OwnersTyped, Active, TypeOK
<1> QED BY <1>1, InvariantHolds, PTL

(* A refresh about to commit writes to exactly the cards that have the INN *)
(* it asked for: the locks it takes when the answer is there keep the      *)
(* group as it read it until the commit.                                   *)
THEOREM AnswerKept == Spec => []AnswerForGroup
<1>1. IInv => AnswerForGroup
  BY DEF IInv, Kept, RefreshKept, AnswerForGroup, At, Requests
<1> QED BY <1>1, InvariantHolds, PTL

(* No step gives a card an INN that another card has, whatever saves,      *)
(* creations, refreshes and deletions run at the same time.                *)
THEOREM NoNewDuplicates == Spec => NoNewDuplicate
<1>1. ASSUME IInv, [Next]_vars
      PROVE  [\A o, p \in Orgs :
                inn'[o] \in Inns /\ inn'[o] # inn[o] /\ p # o => inn'[p] # inn'[o]]_vars
  <2> SUFFICES ASSUME Next, NEW o \in Orgs, NEW p \in Orgs,
                      inn'[o] \in Inns, inn'[o] # inn[o], p # o
               PROVE  inn'[p] # inn'[o]
    BY <1>1
  <2>1. PICK r \in Requests : Save(r) \/ Refresh(r) \/ Deletion(r) \/ Commit(r) \/ Fail(r)
    BY DEF Next
  <2>2. Commit(r)
    BY <2>1 DEF Save, Refresh, Deletion, Fail, tables, Edit, Create, TakeKey, Flush, WriteRows,
                SyncInn, Put, Ask, LockCard, Skip, LockGroup, ReadRows, Apply, Erase, Bury
  <2> QED BY <1>1, <2>2, CommitChanges, Distinct DEF IInv, TablesTyped
<1> QED BY <1>1, InvariantHolds, PTL DEF Spec, NoNewDuplicate
=============================================================================
