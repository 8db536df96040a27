------------------------------ MODULE TablePage ------------------------------
(***************************************************************************)
(* A page that shows one of the tables: what the server answers            *)
(* (api/organizations_common.py, build_..._page_context) and what the page *)
(* does with answers that come in any order (static                        *)
(* /active_organizations_table.js), while others edit the registry.        *)
(***************************************************************************)
EXTENDS TableQueries

CONSTANTS
  Rows,      \* of each table: rows there can be
  Views,     \* and what a user may choose
  Limit,     \* rows of a page
  MaxSends,  \* bound: requests of the page
  MaxEdits   \* bound: rows that appear or go

(* What the schema of each table's filters admits, or more.                *)
Selections == [
  active |-> [by : ActiveColumns \cup {""}, down : BOOLEAN,
              dept : BOOLEAN, active : BOOLEAN, actual : BOOLEAN,
              picked : [{"name", "number", "type"} -> SUBSET Nat]],
  directions |-> [by : DirectionsColumns \cup {""}, down : BOOLEAN,
                  picked : [DirectionsColumns \ {"id"} -> SUBSET Nat]],
  groups |-> [by : GroupsColumns \cup {""}, down : BOOLEAN,
              picked : [{"semester"} -> SUBSET Nat]]]

ASSUME TableAssumption ==
  /\ Limit \in Nat \ {0} /\ MaxSends \in Nat /\ MaxEdits \in Nat
  /\ Semesters \subseteq Nat /\ IsFiniteSet(Semesters)
  /\ \A t \in Tables : /\ IsFiniteSet(Rows[t]) /\ \A r \in Rows[t] : DOMAIN r = Columns[t]
                       /\ Views[t] \subseteq Selections[t]

VARIABLES
  table,   \* which table the page shows
  data,    \* its rows in MySQL
  edits,
  view,    \* state.applied and state.table
  shown,   \* the rows of the page
  button,  \* "load more": the next offset, or 0, and the request it waits for, or 0
  reqs,    \* requests of the page, by number; tableRequestId is the last refresh
  last,
  gen,     \* history: the refresh that the page shows
  head,    \* history: the view and the data of its first rows
  own      \* history: whether the other rows were asked for under that view, from
           \* this table, and answered from that data

tableVars == <<table, data, edits, view, shown, button, reqs, last, gen, head, own>>

-----------------------------------------------------------------------------
Stages == {"unsent", "sent", "served", "over", "failed"}
Req == [at |-> "unsent"]
Requests == {i \in DOMAIN reqs : reqs[i].at # "unsent"}
Number == Cardinality(Requests) + 1
Under(i, stages) == reqs[i].at \in stages

(* refreshTable, after applyDraftFilters, handleSort or popstate: the      *)
(* choice is made before its rows are there.                               *)
Choose(v) ==
  /\ Number <= MaxSends
  /\ view' = Resolved(table, v, data) /\ last' = Number
  /\ reqs' = [reqs EXCEPT ![Number] =
       [at |-> "sent", kind |-> "refresh", view |-> view', offset |-> 0, gen |-> gen]]
  /\ UNCHANGED <<table, data, edits, shown, button, gen, head, own>>

(* loadMoreRows: the offset of the button, under the choice of now.        *)
LoadMore ==
  /\ Number <= MaxSends
  /\ button.next # 0 /\ button.waits = 0
  /\ button' = [button EXCEPT !.waits = Number]
  /\ reqs' = [reqs EXCEPT ![Number] =
       [at |-> "sent", kind |-> "more", view |-> view, offset |-> button.next, gen |-> gen]]
  /\ UNCHANGED <<table, data, edits, view, shown, last, gen, head, own>>

(* The server reads the rows of a page in one transaction.                 *)
ServeRows(i) ==
  /\ Under(i, {"sent"})
  /\ \E page \in Answers(table, reqs[i].view, data, reqs[i].offset, Limit) :
       reqs' = [reqs EXCEPT ![i] =
         [at |-> "served", kind |-> reqs[i].kind, view |-> reqs[i].view, gen |-> reqs[i].gen,
          data |-> data, page |-> page]]
  /\ UNCHANGED <<table, data, edits, view, shown, button, last, gen, head, own>>

Over(i) == reqs' = [reqs EXCEPT ![i] = [at |-> "over"]]

(* A bug: every answer is shown.                                           *)
IsKnown(i) == i <= last

(* refreshTable: the answer of any refresh but the last is dropped.        *)
IsLatest(i) == i = last

Replace(i) ==
  /\ Under(i, {"served"}) /\ reqs[i].kind = "refresh"
  /\ Over(i)
  /\ IF IsLatest(i)
     THEN /\ shown' = reqs[i].page.rows
          /\ button' = [next |-> reqs[i].page.next, waits |-> 0]
          /\ gen' = i /\ own' = TRUE
          /\ head' = [view |-> reqs[i].view, data |-> reqs[i].data]
     ELSE UNCHANGED <<shown, button, gen, head, own>>
  /\ UNCHANGED <<table, data, edits, view, last>>

(* appendRows and updateLoadMoreState, whatever table is there by now; an  *)
(* empty one has no place for rows or for a button.                        *)
Extend(i) ==
  /\ Under(i, {"served"}) /\ reqs[i].kind = "more"
  /\ Over(i)
  /\ IF shown = <<>> THEN UNCHANGED <<shown, button, own>>
     ELSE /\ shown' = shown \o reqs[i].page.rows
          /\ button' = [next |-> reqs[i].page.next, waits |-> 0]
          /\ own' = (own /\ reqs[i].gen = gen
                         /\ reqs[i].view = head.view /\ reqs[i].data = head.data)
  /\ UNCHANGED <<table, data, edits, view, last, gen, head>>

(* A request fails: the page stays, and its button is enabled again.       *)
Fail(i) ==
  /\ Under(i, {"sent", "served"})
  /\ reqs' = [reqs EXCEPT ![i] = [at |-> "failed"]]
  /\ button' = [button EXCEPT !.waits = IF @ = i THEN 0 ELSE @]
  /\ UNCHANGED <<table, data, edits, view, shown, last, gen, head, own>>

(* Another request of the site adds or removes a row.  Nothing in the      *)
(* program writes the tables of the groups.                                *)
EditRows(r) ==
  /\ edits < MaxEdits /\ table # "groups"
  /\ edits' = edits + 1
  /\ data' = IF r \in data THEN data \ {r} ELSE data \cup {r}
  /\ UNCHANGED <<table, view, shown, button, reqs, last, gen, head, own>>

-----------------------------------------------------------------------------
(* A page that has been loaded, or loaded again.  The server rendered the  *)
(* rows of the choice in the address; the choice of the page is the one    *)
(* that the browser's tab has stored, if any.  Where the two differ, a     *)
(* refresh is sent at once, but not by the page of the groups.             *)
TableInit ==
  /\ table \in Tables /\ data \in SUBSET Rows[table]
  /\ edits = 0 /\ gen = 0 /\ own = TRUE
  /\ \E named, stored \in Views[table] :
       /\ head = [view |-> Resolved(table, named, data), data |-> data]
       /\ view = Resolved(table, stored, data)
  /\ \E page \in Answers(table, head.view, data, 0, Limit) :
       /\ shown = page.rows
       /\ button = [next |-> page.next, waits |-> 0]
  /\ last = IF table # "groups" /\ view # head.view THEN 1 ELSE 0
  /\ last <= MaxSends
  /\ reqs = [i \in 1 .. MaxSends |-> IF i = last
                                    THEN [at |-> "sent", kind |-> "refresh", view |-> view,
                                          offset |-> 0, gen |-> 0]
                                    ELSE Req]

TableNext ==
  \/ \E v \in Views[table] : Choose(v)
  \/ LoadMore
  \/ \E i \in Requests : ServeRows(i) \/ Replace(i) \/ Extend(i) \/ Fail(i)
  \/ \E r \in Rows[table] : EditRows(r)

TableSpec == TableInit /\ [][TableNext]_tableVars

-----------------------------------------------------------------------------
(* A page of the groups that has just been loaded, and nothing chosen on   *)
(* it: the rows are those of the semester in the address, the choice may   *)
(* be another, stored one.                                                 *)
JustOpened == table = "groups" /\ last = 0

(* The page comes to show the last choice made, whatever the order of the  *)
(* answers, unless that refresh failed; a choice that was stored, too,     *)
(* unless it is one of a semester (refreshTable, readStoredState).         *)
LastChoiceShown ==
  /\ gen = last => head.view = view \/ JustOpened
  /\ (\E i \in Requests : Under(i, {"sent", "served"}) /\ reqs[i].kind = "refresh")
       \/ gen = last \/ Under(last, {"failed"})

(* As far as it has been scrolled, the page is the export: the same rows   *)
(* in the same order, none missing and none twice, and the button is there *)
(* exactly while there are more.  What makes it differ is one of four:     *)
(* rows that tie in the sort; rows that changed between two pages; a page  *)
(* asked for from a table that has been replaced since; or asked for under *)
(* a choice whose own rows are not there (fetch_..., loadMoreRows).        *)
ScrolledIsExport ==
  LET found == Found(table, head.view, head.data) IN
  own /\ ~Tied(found, Key(table, head.view)) =>
    \E s \in Exports(table, head.view, head.data) :
      /\ shown = SubSeq(s, 1, Len(shown))
      /\ button.next = IF Len(shown) < Len(s) THEN Len(shown) ELSE 0

ShowsChoice == LastChoiceShown /\ ScrolledIsExport

(* A menu offers exactly the values that lead to rows, were its column     *)
(* filtered by one of them alone; but among the departments it also offers *)
(* the numbers of contracts that are not signed, which lead to none        *)
(* (_build_filter_options_query).                                          *)
Alone(v, c, o) == [v EXCEPT !.picked[c] = {o}]
Leads(c, o) == Found(table, Alone(view, c, o), data) # {}
Unsigned(c, o) == table = "active" /\ view.dept /\ c = "number"
                    /\ \E r \in data : r.number = o /\ ~r.signed
MenusLead ==
  table # "groups" => \A c \in DOMAIN view.picked \ {"type"} :
    LET offered == Offered(table, view, data, c) IN
    /\ \A o \in offered : Leads(c, o) \/ Unsigned(c, o)
    /\ \A r \in data : r[c] # Null /\ Leads(c, r[c]) => r[c] \in offered
=============================================================================
