----------------------------- MODULE MCSitePages -----------------------------
(***************************************************************************)
(* Small instances of SitePages.  Two tabs share a session.  The tables    *)
(* have rows that share names, that tie in a sort or lack a contract, and  *)
(* choices that tell them apart, an unknown type of contracts and an       *)
(* unknown semester among them.  The statistics have two organizations of  *)
(* practice and one without a contract, counts by hand that differ from    *)
(* the orders, and a year no request may name.                             *)
(***************************************************************************)
EXTENDS SitePages, TLC

CONSTANTS t1, t2

MCTabs == {t1, t2}
Alike == Permutations(MCTabs)

Contract(c, name, number, signed) ==
  [contract |-> c, name |-> name, number |-> number, signed |-> signed, type |-> number,
   types |-> number, active |-> TRUE, actual |-> number # Null, dept |-> TRUE]
Direction(id, code, name) ==
  [faculty |-> 1, department |-> 1, direction |-> 1, code |-> code, name |-> name, id |-> id]
Group(block, code, semester) ==
  [department |-> 1, code |-> code, group |-> 1, name |-> 1, block |-> block, semester |-> semester]

MCRows == [
  active     |-> {Contract(1, 1, 1, TRUE), Contract(2, 2, 2, FALSE), Contract(0, 2, 0, FALSE)},
  directions |-> {Direction(1, 1, 1), Direction(1, 2, 1), Direction(2, 1, 1)},
  groups     |-> {Group(1, 1, 1), Group(2, 2, 1), Group(3, 1, 2)}]

Orgs(by, down, dept, names, types) ==
  [by |-> by, down |-> down, dept |-> dept, active |-> TRUE, actual |-> TRUE,
   picked |-> [name |-> names, number |-> {}, type |-> types]]
Dirs(by, down, codes) ==
  [by |-> by, down |-> down, picked |-> [faculty |-> {}, department |-> {}, direction |-> {}, code |-> codes, name |-> {}]]
Semester(by, down, s) == [by |-> by, down |-> down, picked |-> [semester |-> s]]

MCViews == [
  active     |-> {Orgs("", FALSE, TRUE, {}, {9}), Orgs("number", TRUE, TRUE, {2}, {}),
                  Orgs("name", TRUE, FALSE, {}, {1, 9})},
  directions |-> {Dirs("", FALSE, {}), Dirs("name", TRUE, {1})},
  groups     |-> {Semester("", FALSE, {1}), Semester("code", TRUE, {1}), Semester("", FALSE, {9})}]

-----------------------------------------------------------------------------

Org(o, name, active) == [org |-> o, name |-> name, active |-> active]
Deal(c, o, actual, signed) ==
  [contract |-> c, org |-> o, practice |-> TRUE, actual |-> actual, signed |-> signed]
Count(id, o, year, n) == [id |-> id, org |-> o, year |-> year, n |-> n]

Early == {Deal(1, 1, TRUE, 1), Deal(2, 2, FALSE, 2)}
Later == {Deal(3, 2, TRUE, 1), Deal(4, 3, TRUE, 1)}
MCContracts == Later \cup {[Deal(1, 1, TRUE, 1) EXCEPT !.practice = FALSE]}

Registry(contracts) ==
  [orgs |-> {Org(1, 1, TRUE), Org(2, 1, FALSE), Org(3, 2, TRUE)},
   contracts |-> contracts,
   blocks |-> {Count(1, 1, 1, 2), Count(2, 1, 1, 1), Count(3, 2, 2, 1), Count(4, 3, 9, 1),
               Count(5, 2, Null, 1), Count(6, 3, 2, 1)},
   stats |-> {Count(7, 1, 1, 1), Count(8, 2, 1, 0)}]

(* In the last one, no order has a date.                                   *)
Undated == [Registry(Early) EXCEPT !.blocks = {Count(5, 2, Null, 1)}, !.stats = {}]
MCDatabases == {Registry({}), Registry(Early), Registry(Early \cup Later), Undated}
Pick(a, b, f, n) == [from |-> a, to |-> b, filters |-> f, size |-> n]
MCPicks == {Pick(2, 1, [org |-> "all", contract |-> "all"], 2),
            Pick(9, 9, [org |-> "active", contract |-> "all"], 1),
            Pick(1, 9, [org |-> "all", contract |-> "without"], 1)}
=============================================================================
