-------------------------- MODULE DistributionStats --------------------------
(***************************************************************************)
(* How many students were sent to an organization in a year: what          *)
(* services/distribution_stats_repository.py collects from MySQL and the   *)
(* table and the chart services/distribution_stats.py makes of it.  Names  *)
(* and dates are numbers, 0 for NULL; a contract's number stands for its   *)
(* printed number and its id.                                              *)
(***************************************************************************)
EXTENDS Naturals, Sequences, FiniteSets, FiniteSetsExt, Functions

Unset == 0
NoPeriod == [from |-> Unset, to |-> Unset]
NoSort == [by |-> "", year |-> Unset, down |-> FALSE]
All == [org |-> "all", contract |-> "all"]

Students(rows) == SumFunction([r \in rows |-> r.n])

(* SELECT sum(...) GROUP BY organization and year; a year that is missing, *)
(* or cannot be read from the date of an order, counts nowhere.            *)
Summed(rows) ==
  [k \in {<<r.org, r.year>> : r \in {r \in rows : r.year # Unset}} |->
     Students({r \in rows : <<r.org, r.year>> = k})]

(* A bug: statistics are added to the orders.                              *)
AddedCounts(db) == Summed(db.blocks \cup db.stats)

(* _fetch_yearly_counts_by_organization: the orders of distribution, and   *)
(* statistics kept by hand in place of them.                               *)
Counts(db) ==
  LET kept == Summed(db.stats)
      sent == Summed(db.blocks)
  IN  [k \in DOMAIN kept \cup DOMAIN sent |-> IF k \in DOMAIN kept THEN kept[k] ELSE sent[k]]

(* _pick_preferred_contracts: an actual contract first, then the latest.   *)
Practice(db, o) == {c \in db.contracts : c.org = o /\ c.practice}
Better(c, d) ==
  \/ c.actual /\ ~d.actual
  \/ c.actual = d.actual /\ c.signed > d.signed
  \/ c.actual = d.actual /\ c.signed = d.signed /\ c.contract > d.contract
Preferred(db, o) ==
  CHOOSE c \in Practice(db, o) : \A d \in Practice(db, o) \ {c} : Better(c, d)

(* fetch_records: organizations with a count and such a contract.          *)
Records(db) ==
  LET counts   == Counts(db)
      years(o) == {k[2] : k \in {k \in DOMAIN counts : k[1] = o.org}}
      found    == {o \in db.orgs : years(o) # {} /\ Practice(db, o.org) # {}}
      record(o, c) ==
        [org |-> o.org, name |-> o.name, active |-> o.active, contract |-> c.contract,
         signed |-> c.signed, actual |-> c.actual,
         counts |-> [y \in years(o) |-> counts[<<o.org, y>>]]]
  IN  {record(o, Preferred(db, o.org)) : o \in found}

-----------------------------------------------------------------------------
Available(records) == UNION {DOMAIN r.counts : r \in records}

(* _resolve_years, and resolveRange of the pages: a year that is not       *)
(* offered gives way to the first or the last, and the two are put in      *)
(* order.                                                                  *)
ResolvedYears(available, period) ==
  IF available = {} THEN NoPeriod
  ELSE LET a == IF period.from \in available THEN period.from ELSE Min(available)
           b == IF period.to \in available THEN period.to ELSE Max(available)
       IN  [from |-> Min({a, b}), to |-> Max({a, b})]
Selected(available, period) == {y \in available : period.from <= y /\ y <= period.to}

MatchesFilters(r, filters) ==
  /\ filters.org # "all" => r.active = (filters.org = "active")
  /\ filters.contract # "all" => r.actual = (filters.contract = "with")

Row(r, years) ==
  LET cells == [y \in years |-> IF y \in DOMAIN r.counts THEN r.counts[y] ELSE 0] IN
  [org |-> r.org, name |-> r.name, contract |-> r.contract, signed |-> r.signed,
   cells |-> cells, total |-> SumFunction(cells)]

(* _sort_prepared_rows: sorted twice, stably, so that rows that tie stay   *)
(* in the default order, also downward.                                    *)
ByDefault(a, b) ==
  \/ a.name < b.name
  \/ a.name = b.name /\ a.signed < b.signed
  \/ a.name = b.name /\ a.signed = b.signed /\ a.contract < b.contract
SortKey(row, sort) ==
  CASE sort.by = "" -> Unset [] sort.by = "name" -> row.name
    [] sort.by = "signed" -> row.signed [] sort.by = "total" -> row.total
    [] sort.by = "year" -> row.cells[sort.year]
InOrder(rows, Precedes(_, _)) ==
  CHOOSE s \in [1 .. Cardinality(rows) -> rows] :
    \A i, j \in DOMAIN s : i < j => Precedes(s[i], s[j])
BySort(a, b, sort) ==
  LET x == SortKey(a, sort) y == SortKey(b, sort)
  IN  IF x = y THEN ByDefault(a, b) ELSE IF sort.down THEN x > y ELSE x < y
Sorted(rows, sort) == InOrder(rows, LAMBDA a, b : BySort(a, b, sort))

(* fetch_distribution_stats_table; a column that is not shown sorts        *)
(* nothing.                                                                *)
OnShown(sort, years) ==
  IF sort.by = "year" /\ sort.year \notin years THEN [sort EXCEPT !.by = "", !.year = Unset]
  ELSE sort
Filled(records, years, filters) ==
  {r \in {Row(r, years) : r \in {r \in records : MatchesFilters(r, filters)}} : r.total > 0}
TableOf(records, period, years, sort, q) ==
  [available |-> Available(records), period |-> period, filters |-> q.filters,
   sort |-> sort, years |-> years, rows |-> Sorted(Filled(records, years, q.filters), sort)]
Table(db, q) ==
  LET records == Records(db)
      period  == ResolvedYears(Available(records), q.period)
      years   == Selected(Available(records), period)
  IN  TableOf(records, period, years, OnShown(q.sort, years), q)

(* fetch_distribution_stats_chart: the largest totals first.               *)
ByTotal(a, b) == IF a.total = b.total THEN ByDefault(a, b) ELSE a.total > b.total
Chart(db, q) ==
  [Table(db, q) EXCEPT !.rows = InOrder({@[i] : i \in DOMAIN @}, ByTotal)]
=============================================================================
