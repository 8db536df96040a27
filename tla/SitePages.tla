------------------------------ MODULE SitePages ------------------------------
(***************************************************************************)
(* The site in a browser: its session, with the forms and the changes that *)
(* its tabs send (WebSession), a tab with one of the three tables          *)
(* (TablePage), and a tab with the statistics (StatsPages).  The three     *)
(* share neither state nor requests: a page that lists is rendered for any *)
(* user, and each request reads the registry in a transaction of its own.  *)
(* So one of them is used, while the others, on which nothing depends, are *)
(* left as they began.                                                     *)
(***************************************************************************)
EXTENDS WebSession, TablePage, StatsPages

VARIABLE used   \* "session", or the page: "tables" or "statistics"

allVars == <<used, vars, tableVars, statsVars>>

-----------------------------------------------------------------------------
(* What is not used: any one state it can begin in.                        *)
SessionRests == account = "nobody"
TablesRest ==
  /\ table = "groups" /\ data = {}
  /\ view = Resolved(table, CHOOSE v \in Views[table] : TRUE, data) /\ head.view = view
StatsRest ==
  /\ statsPage = "table"
  /\ db = CHOOSE d \in Databases :
            \A e \in Databases : Cardinality(d.blocks) <= Cardinality(e.blocks)

SiteInit ==
  /\ Init /\ TableInit /\ StatsInit
  /\ used \in {"session", "tables", "statistics"}
  /\ used # "session" => SessionRests
  /\ used # "tables" => TablesRest
  /\ used # "statistics" => StatsRest

UseSession == used = "session" /\ Next /\ UNCHANGED <<used, tableVars, statsVars>>
UseTables == used = "tables" /\ TableNext /\ UNCHANGED <<used, vars, statsVars>>
UseStats == used = "statistics" /\ StatsNext /\ UNCHANGED <<used, vars, tableVars>>

SiteNext == UseSession \/ UseTables \/ UseStats

SiteSpec == SiteInit /\ [][SiteNext]_allVars

-----------------------------------------------------------------------------
(* On the pages of statistics, rows are shown under their own period and   *)
(* filters, for the last choice made, in windows that tile; a load is      *)
(* refused only for a year no request may name; and each student of the    *)
(* period is counted once.  StatsPages states the parts and what they      *)
(* except (loadTable, loadChart, fetch_distribution_stats_table).          *)
StatisticsTell == RowsTell /\ CountedOnce
=============================================================================
