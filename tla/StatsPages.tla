----------------------------- MODULE StatsPages -----------------------------
(***************************************************************************)
(* A tab of the browser that goes between the two pages of statistics,     *)
(* the table (static/distribution_stats.js) and the chart (static          *)
(* /timeline_stats.js).  They keep the period in sessionStorage; their     *)
(* requests carry no number, and answers are shown as they come.           *)
(***************************************************************************)
EXTENDS DistributionStats

CONSTANTS
  Databases,    \* what MySQL may hold at first
  Contracts,    \* contracts as the documents of cards may be saved
  Picks,        \* what a user chooses: [from, to, filters, size]
  DefaultSize,
  Accepted,     \* years a request may name: 1900 .. 2100
  MaxChanges,   \* bound: changes of the registry
  MaxOpens,     \* bound: pages opened after the first
  MaxLoads      \* bound: requests

VARIABLES
  db, changes,
  statsPage, opens,
  stored,    \* sessionStorage: the period, NoPeriod at first
  years,     \* yearsPayload.available_years
  choice,    \* currentRange, currentFilters, currentSort
  pageSize,  \* the windows of the chart
  pageOffset,
  payload,   \* currentPayload
  labels,    \* the labels over the rows of payload, or an error in place of both
  busy,      \* the buttons are disabled
  loads, sends,
  asked,     \* history: the last choice sent, and the one the payload answers
  answered,
  settled,   \* history: the last load to end was answered, and so was the first
  raced      \* history: a sort by keyboard overtook a load under way

statsVars == <<db, changes, statsPage, opens, stored, years, choice, pageSize, pageOffset, payload,
               labels, busy, loads, sends, asked, answered, settled, raced>>
registry == <<db, changes>>
chart == <<pageSize, pageOffset>>

-----------------------------------------------------------------------------
(* The rows MySQL may hold, by their types and keys.                       *)
OrgRows == [org : Nat, name : Nat, active : BOOLEAN]
ContractRows == [contract : Nat, org : Nat, practice : BOOLEAN, actual : BOOLEAN, signed : Nat]
CountRows == [id : Nat, org : Nat, year : Nat, n : Nat]
Sound(d) ==
  /\ d = [orgs |-> d.orgs, contracts |-> d.contracts, blocks |-> d.blocks, stats |-> d.stats]
  /\ d.orgs \subseteq OrgRows /\ \A o, p \in d.orgs : o.org = p.org => o = p
  /\ d.contracts \subseteq ContractRows
  /\ \A c, e \in d.contracts : c.contract = e.contract => c = e
  /\ d.blocks \subseteq CountRows /\ d.stats \subseteq CountRows
  /\ IsFiniteSet(d.orgs) /\ IsFiniteSet(d.contracts)
  /\ IsFiniteSet(d.blocks) /\ IsFiniteSet(d.stats)

ASSUME StatsAssumption ==
  /\ DefaultSize \in Nat \ {0} /\ \A c \in Picks : c.size \in Nat \ {0}
  /\ \A d \in Databases : Sound(d)
  /\ Contracts \subseteq ContractRows
  /\ MaxChanges \in Nat /\ MaxOpens \in Nat /\ MaxLoads \in Nat

(* The routes and the first rendering ask the same functions.              *)
StatsFor(p, q) == IF p = "table" THEN Table(db, q) ELSE Chart(db, q)
FirstStats(p) == StatsFor(p, [period |-> NoPeriod, filters |-> All, sort |-> NoSort])
Labels(c) == [at |-> "data", period |-> c.period, filters |-> c.filters]
Load(c) == [n |-> sends + 1, at |-> "sent", q |-> c]

(* A bug: the rendered rows are left there.                                *)
AlwaysFits(kept, first) == TRUE

(* The server renders the whole period; a page that remembers another one  *)
(* loads its rows at once.                                                 *)
Fits(kept, first) == kept = first.period

Remembered(first) == ResolvedYears(first.available, stored)

Rendered(p, first, kept) ==
  /\ statsPage' = p
  /\ years' = first.available /\ payload' = first
  /\ choice' = [period |-> kept, filters |-> All, sort |-> NoSort]
  /\ labels' = Labels(choice') /\ pageOffset' = 0
  /\ raced' = FALSE
  /\ asked' = choice' /\ answered' = [choice' EXCEPT !.period = first.period]
  /\ UNCHANGED <<registry, pageSize>>

Started(fits) ==
  IF fits THEN stored' = choice'.period /\ loads' = {} /\ UNCHANGED sends
  ELSE sends < MaxLoads /\ sends' = sends + 1 /\ loads' = {Load(choice')} /\ UNCHANGED stored

Open(p) ==
  /\ opens < MaxOpens /\ opens' = opens + 1
  /\ \E first \in {FirstStats(p)} :
       /\ Rendered(p, first, Remembered(first))
       /\ settled' = Fits(Remembered(first), first) /\ busy' = ~settled'
       /\ Started(settled')

(* loadTable and loadChart, up to the request.                             *)
SendLoad(c) ==
  /\ sends < MaxLoads /\ sends' = sends + 1
  /\ choice' = c /\ asked' = c
  /\ loads' = loads \cup {Load(c)} /\ busy' = TRUE
  /\ UNCHANGED <<registry, statsPage, opens, stored, years, payload, labels, answered, settled>>

(* A bug: the buttons stay enabled.                                        *)
Always == TRUE

Idle == ~busy

Resize(n) ==
  IF statsPage = "chart" THEN pageSize' = n /\ pageOffset' = 0 ELSE UNCHANGED chart

(* "Apply" and "Reset"; a menu without years gives none.                   *)
Apply(c) ==
  /\ Idle
  /\ years = {} \/ {c.from, c.to} \subseteq years
  /\ SendLoad([choice EXCEPT !.period = ResolvedYears(years, [from |-> c.from, to |-> c.to]),
                         !.filters = c.filters])
  /\ Resize(c.size)
  /\ raced' = (raced /\ loads # {})

Reset ==
  /\ Idle
  /\ SendLoad([period |-> ResolvedYears(years, NoPeriod), filters |-> All, sort |-> NoSort])
  /\ Resize(DefaultSize)
  /\ raced' = (raced /\ loads # {})

(* The header of a column: upward, downward, not at all.  Its style keeps  *)
(* the pointer away while the page is busy, but not the keyboard.          *)
Headers == {[by |-> c, year |-> Unset, down |-> FALSE] : c \in {"signed", "name", "total"}}
             \cup {[by |-> "year", year |-> y, down |-> FALSE] : y \in payload.years}
Turned(column) ==
  CASE payload.sort = column -> [column EXCEPT !.down = TRUE]
    [] payload.sort = [column EXCEPT !.down = TRUE] -> NoSort
    [] OTHER -> column
SortBy(column) ==
  /\ statsPage = "table" /\ labels.at = "data" /\ payload.rows # <<>>
  /\ SendLoad([choice EXCEPT !.sort = Turned(column)])
  /\ raced' = (loads # {})
  /\ UNCHANGED chart

-----------------------------------------------------------------------------
(* The routes; DistributionStatsFilters refuses a year out of its range.   *)
ServeStats(l) ==
  /\ l.at = "sent"
  /\ LET refused == {l.q.period.from, l.q.period.to} \ (Accepted \cup {Unset}) # {}
     IN  loads' = (loads \ {l}) \cup
           {IF refused THEN [n |-> l.n, at |-> "refused", q |-> l.q]
            ELSE [n |-> l.n, at |-> "served", q |-> l.q,
                  answer |-> StatsFor(statsPage, l.q), db |-> db]}
  /\ UNCHANGED <<registry, statsPage, opens, stored, years, choice, chart, payload, labels, busy,
                 sends, asked, answered, settled, raced>>

(* A bug: the period of an answer is taken as it is.                       *)
Unchecked(period) == period

OnMenu(period) == ResolvedYears(years, period)

(* loadTable and loadChart, an answer: it brings the choice it was for.    *)
TakeStats(l) ==
  /\ l.at = "served"
  /\ payload' = l.answer
  /\ choice' = [period |-> OnMenu(l.answer.period), filters |-> l.answer.filters,
                sort |-> l.answer.sort]
  /\ stored' = choice'.period
  /\ labels' = Labels(choice')
  /\ pageOffset' = 0
  /\ loads' = loads \ {l} /\ busy' = FALSE
  /\ answered' = l.q /\ settled' = TRUE
  /\ UNCHANGED <<registry, statsPage, opens, years, pageSize, sends, asked, raced>>

(* A load fails at any stage: the choice that was sent stays.              *)
FailLoad(l) ==
  /\ labels' = [at |-> "error"]
  /\ loads' = loads \ {l} /\ busy' = FALSE
  /\ settled' = FALSE
  /\ UNCHANGED <<registry, statsPage, opens, stored, years, choice, chart, payload, sends, asked,
                 answered, raced>>

(* The windows of the chart: renderChart with the payload that is there.   *)
Turn(to) ==
  /\ statsPage = "chart" /\ Idle /\ payload.rows # <<>>
  /\ pageOffset' = to /\ labels' = Labels(choice)
  /\ UNCHANGED <<registry, statsPage, opens, stored, years, choice, pageSize, payload, busy, loads,
                 sends, asked, answered, settled, raced>>

(* A bug: one window too many.                                             *)
NotPast(next) == next <= Len(payload.rows)

Within(next) == next < Len(payload.rows)
PreviousWindow ==
  pageOffset > 0 /\ Turn(IF pageOffset > pageSize THEN pageOffset - pageSize ELSE 0)
NextWindow == Within(pageOffset + pageSize) /\ Turn(pageOffset + pageSize)

-----------------------------------------------------------------------------
(* A document of a card is saved, or an organization is deleted.           *)
Edited(now) ==
  /\ changes < MaxChanges
  /\ changes' = changes + 1 /\ db' = now
  /\ UNCHANGED <<statsPage, opens, stored, years, choice, chart, payload, labels, busy, loads, sends,
                 asked, answered, settled, raced>>

(* A row is inserted or written anew; an actual one archives those of its  *)
(* type.                                                                   *)
Archives(c, d) == c.actual /\ d.org = c.org /\ d.practice = c.practice
SaveContract(c) ==
  /\ \E o \in db.orgs : o.org = c.org
  /\ LET others == {d \in db.contracts : d.contract # c.contract}
     IN  Edited([db EXCEPT !.contracts =
           {[d EXCEPT !.actual = @ /\ ~Archives(c, d)] : d \in others} \cup {c}])

DeleteOrganization(o) ==
  LET others(rows) == {r \in rows : r.org # o.org} IN
  Edited([orgs |-> others(db.orgs), contracts |-> others(db.contracts),
          blocks |-> others(db.blocks), stats |-> others(db.stats)])

StatsInit ==
  /\ db \in Databases /\ changes = 0
  /\ statsPage \in {"table", "chart"} /\ opens = 0
  /\ payload = FirstStats(statsPage)
  /\ years = payload.available
  /\ choice = [period |-> payload.period, filters |-> All, sort |-> NoSort]
  /\ stored = choice.period
  /\ pageSize = DefaultSize /\ pageOffset = 0
  /\ labels = Labels(choice)
  /\ busy = FALSE /\ loads = {} /\ sends = 0
  /\ asked = choice /\ answered = choice
  /\ settled = TRUE /\ raced = FALSE

StatsNext ==
  \/ \E p \in {"table", "chart"} : Open(p)
  \/ \E c \in Picks : Apply(c)
  \/ Reset
  \/ \E column \in Headers : SortBy(column)
  \/ \E l \in loads : ServeStats(l) \/ TakeStats(l) \/ FailLoad(l)
  \/ PreviousWindow \/ NextWindow
  \/ \E c \in Contracts : SaveContract(c)
  \/ \E o \in db.orgs : DeleteOrganization(o)

StatsSpec == StatsInit /\ [][StatsNext]_statsVars

-----------------------------------------------------------------------------
(* The period and the filters written over rows are those of the rows, and *)
(* the period is the one the next page will start from.  Rows are under    *)
(* other labels only while a page that remembers a period waits for its    *)
(* first load; in windows of a chart whose last load failed; and when the  *)
(* years with students have changed since the page was opened              *)
(* (renderTable, renderChart, resolveRange).                               *)
LabelsTell ==
  labels.at = "data" /\ payload.rows # <<>> /\ settled =>
    /\ payload.available = years => labels.period = payload.period
    /\ labels.filters = payload.filters
    /\ stored = ResolvedYears(years, payload.period)

(* A page at rest shows rows for the last choice made; only a sort made    *)
(* from the keyboard while another load was under way leaves it with an    *)
(* earlier one (loadTable has no request number, setBusy stands for it).   *)
LastAsked == loads = {} /\ settled /\ ~raced => answered = asked

(* The windows of the chart are the same wherever one comes from: none is  *)
(* empty and none overlaps another, through other sizes, answers with      *)
(* fewer items, and failures (the buttons of timeline_stats.js).           *)
WindowsTile ==
  /\ pageOffset % pageSize = 0
  /\ labels.at = "data" /\ payload.rows # <<>> => pageOffset < Len(payload.rows)

(* A load is refused only when a year that MySQL has is none a request may *)
(* name: periods that were remembered, chosen, or came with an answer are  *)
(* all of years on the menu (writeStoredRange, DistributionStatsFilters).  *)
OnlyOddYearsRefused ==
  \A l \in loads : l.at = "refused" => ~(years \subseteq Accepted)

(* The four together, of what the pages do (loadTable, loadChart).         *)
RowsTell == LabelsTell /\ LastAsked /\ WindowsTile /\ OnlyOddYearsRefused

(* An answer counts each student of the period once: an organization has   *)
(* one row, with the statistics of a year if there are any and the orders  *)
(* otherwise, exactly when it has a contract of practice, students in the  *)
(* period, and fits the filters; and it is listed as one without an actual *)
(* contract only if it has none (fetch_records, _matches_filters).         *)
SentIn(now, o, y) ==
  LET kept == {r \in now.stats : r.org = o /\ r.year = y}
  IN  Students(IF kept # {} THEN kept ELSE {r \in now.blocks : r.org = o /\ r.year = y})
Due(now, o, answer) ==
  LET actual == \E c \in Practice(now, o.org) : c.actual IN
  /\ Practice(now, o.org) # {}
  /\ answer.filters.org = "all" \/ o.active = (answer.filters.org = "active")
  /\ answer.filters.contract = "all" \/ actual = (answer.filters.contract = "with")
Once(now, answer) ==
  LET rows == answer.rows
      period == (answer.period.from .. answer.period.to) \ {Unset}
      total(o) == SumFunction([y \in period |-> SentIn(now, o.org, y)]) IN
  /\ \A i, j \in DOMAIN rows : rows[i].org = rows[j].org => i = j
  /\ \A o \in now.orgs :
       LET its == {i \in DOMAIN rows : rows[i].org = o.org} IN
       IF Due(now, o, answer) /\ total(o) > 0
       THEN \E i \in its : rows[i].total = total(o)
       ELSE its = {}
CountedOnce == \A l \in loads : l.at = "served" => Once(l.db, l.answer)
=============================================================================
