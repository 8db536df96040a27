---------------------------- MODULE TableQueries ----------------------------
(***************************************************************************)
(* The statements behind the three tables of the site: organizations and   *)
(* their contracts (services/active_organizations.py), the directions an   *)
(* organization takes students of (study_directions.py) and the groups     *)
(* distributed in a semester (group_distribution.py).  A row is a record   *)
(* of the columns that filter and sort it; columns that do neither are     *)
(* left out, and so are the columns of groups that sort like others.       *)
(***************************************************************************)
EXTENDS Integers, Sequences, FiniteSets

CONSTANTS
  Semesters,   \* university_studysemester, in the order of the menu
  Types        \* CONTRACT_DATATYPE_NAME_TO_ID

Tables == {"active", "directions", "groups"}
Null == 0              \* NULL, which MySQL sorts below everything

-----------------------------------------------------------------------------
(* build_base_..._stmt: an organization with each of its contracts, or     *)
(* with none; an active one with each of its directions and each           *)
(* department that teaches it; an organization's part of a group.          *)
ActiveColumns == {"name", "active", "dept", "contract", "number", "signed", "type", "actual",
                  "types"}   \* build_actual_datatype_count_subquery
DirectionsColumns == {"faculty", "department", "direction", "code", "name", "id"}
GroupsColumns == {"semester", "department", "code", "group", "name", "block"}
Columns == [active |-> ActiveColumns, directions |-> DirectionsColumns, groups |-> GroupsColumns]

(* What a user chose: the values ticked per column, and a sort, or "".     *)
(* Matches: one value of each ticked column; ex are columns left out.      *)
Matches(r, v, ex) ==
  \A c \in DOMAIN v.picked \ ex : v.picked[c] = {} \/ r[c] \in v.picked[c]

(* apply_filters of the organizations.  Departments of the university are  *)
(* shown whatever their contracts, unless contracts are filtered.  Types   *)
(* of contracts that are not known ask for a contract, but for none of     *)
(* their own.                                                              *)
Known(v) == [v EXCEPT !.picked.type = @ \cap Types]
Detailed(v, ex) == ~v.dept \/ \E c \in {"number", "type"} \ ex : v.picked[c] # {}
ActiveMatches(r, v, ex) ==
  /\ Detailed(v, ex) => r.number # Null /\ r.signed
  /\ IF v.dept THEN r.dept ELSE r.active = v.active /\ r.actual = v.actual
  /\ Matches(r, Known(v), ex)

(* resolve_group_distribution_filters: a semester that is not on the menu  *)
(* gives way to the latest one with records.                               *)
Latest(set) == CHOOSE s \in set : \A t \in set : t <= s
Default(rows) ==
  LET full == {s \in Semesters : \E r \in rows : r.semester = s}
  IN  Latest(IF full = {} THEN Semesters ELSE full)
Resolved(table, v, rows) ==
  IF table # "groups" \/ Semesters = {} \/ v.picked.semester \cap Semesters # {} THEN v
  ELSE [v EXCEPT !.picked.semester = {Default(rows)}]

Found(table, v, rows) ==
  {r \in rows : IF table = "active" THEN ActiveMatches(r, v, {}) ELSE Matches(r, v, {})}

-----------------------------------------------------------------------------
(* ORDER BY: columns, some of them downward.                               *)
Up(c) == [by |-> c, down |-> FALSE]
Down(c) == [by |-> c, down |-> TRUE]
Sort(v) == [by |-> v.by, down |-> v.down]
Ups(cs) == [i \in DOMAIN cs |-> Up(cs[i])]
Without(cs, c) == SelectSeq(cs, LAMBDA d : d # c)

(* apply_sorting of each table: by default, and with a column chosen.      *)
ActiveKey(v) ==
  CASE v.by = ""       -> <<Down("types"), Up("name"), Up("contract")>>
    [] v.by = "name"   -> <<Sort(v), Up("contract")>>
    [] v.by = "number" -> <<Sort(v), Up("name"), Up("number"), Up("contract")>>
    [] OTHER           -> <<Sort(v), Up("name"), Up("contract")>>

DirectionsTies == <<"faculty", "department", "direction", "code", "name", "id">>
DirectionsKey(v) ==
  CASE v.by = ""     -> Ups(<<"name", "direction", "department", "faculty", "id">>)
    [] v.by = "name" -> <<Sort(v)>> \o Ups(SubSeq(DirectionsTies, 1, 4))
    [] OTHER         -> <<Sort(v)>> \o Ups(Without(DirectionsTies, v.by))

GroupsTies == <<"department", "code", "group", "name", "block">>
GroupsKey(v) ==
  IF v.by = "" THEN Ups(GroupsTies) ELSE <<Sort(v)>> \o Ups(Without(GroupsTies, v.by))

Key(table, v) ==
  CASE table = "active" -> ActiveKey(v) [] table = "directions" -> DirectionsKey(v)
    [] table = "groups" -> GroupsKey(v)

Before(a, b, key) == \E i \in DOMAIN key :
  /\ LET c == key[i].by IN IF key[i].down THEN a[c] > b[c] ELSE a[c] < b[c]
  /\ \A j \in 1 .. i - 1 : a[key[j].by] = b[key[j].by]

(* Rows that tie come in any order, and in another one the next time.      *)
Tied(rows, key) == \E a, b \in rows : a # b /\ ~Before(a, b, key) /\ ~Before(b, a, key)
Orders(rows, key) ==
  {s \in [1 .. Cardinality(rows) -> rows] :
     \A i, j \in DOMAIN s : i < j => s[i] # s[j] /\ ~Before(s[j], s[i], key)}

-----------------------------------------------------------------------------
(* fetch_all_...: what an export holds; build_..._statement.               *)
Exports(table, v, rows) == Orders(Found(table, v, rows), Key(table, v))

(* fetch_... with one row more than the limit: the rows of a page and the  *)
(* offset of the next one, or 0.                                           *)
Upto(s, n) == IF n < Len(s) THEN n ELSE Len(s)
Page(s, offset, limit) ==
  LET got == SubSeq(s, offset + 1, Upto(s, offset + limit + 1))
  IN  IF Len(got) > limit
      THEN [rows |-> SubSeq(got, 1, limit), next |-> offset + limit]
      ELSE [rows |-> got, next |-> 0]

(* build_..._page_context: a semester that was replaced begins anew.       *)
Answers(table, v, rows, offset, limit) ==
  LET shown == Resolved(table, v, rows)
  IN  {Page(s, IF shown = v THEN offset ELSE 0, limit) : s \in Exports(table, shown, rows)}

(* A bug: a menu is narrowed by its own choice.                            *)
OfferedOfFound(table, v, rows, c) == {r[c] : r \in Found(table, v, rows)} \ {Null}

(* _build_filter_options_query: the values a menu offers.                  *)
Offered(table, v, rows, c) ==
  {r[c] : r \in {r \in rows : IF table = "active" THEN ActiveMatches(r, v, {c})
                              ELSE Matches(r, v, {c})}} \ {Null}
=============================================================================
