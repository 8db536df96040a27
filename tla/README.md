# A verification project for the practice department's registry

The repository is a FastAPI application over MySQL and Redis that keeps a
university's registry of partner organizations: cards with contacts, requisites,
documents and logotypes, distribution statistics, and an integration with
Dadata that fills cards by INN. Most of it is read and written one request at a
time. The part that has a concurrent life of its own is the Dadata integration:
a job queue in Redis, workers that claim and retry jobs, a full refresh that
fans out into item jobs, and shared limits. The project starts there, and goes on
to what requests do to the same rows at once (INNs, documents, logotypes, the rows
of a card), to login, and to what a page shows of a table that others change.

## Inventory

| Component | State | Operations | Interacts with | What makes it correct |
|---|---|---|---|---|
| Dadata job queue (`services/dadata/runtime.py`) | job records, dedupe keys, the users' active sets, three streams with a consumer group, the lease set, the scheduled set | enqueue, claim, heartbeat, finish, requeue, promote, recover | API (enqueues, polls), workers | one open job per key, the user's quota, no lost job, one attempt with authority, a result is final and counted once, every job ends |
| Dadata worker (`scripts/dadata_worker.py`) | the set of background tasks, two timers, the job in hand | one loop: housekeeping, schedule, claim, run; stop | queue, full refresh | user jobs keep priority and are served, a stop gives jobs back |
| Full refresh (`services/dadata/sync.py`, `runtime.py`) | lock with a lease, day counter and last origin, last-run stamp, progress hash | lock, plan, enqueue batches, poll, verdict, mark, release | queue (items), workers (slots), midnight | one run at a time, the day's limit, a run recorded as done is clean, every run gets a verdict |
| Request limits (`runtime.py`) | `dadata_usage` row, sliding windows, fallback window | reserve, wait for a slot | client | the budget and its reserve, the rate in every window |
| Dadata client (`client.py`) | one pooled HTTP client | request with retries | limits | every attempt is paid for |
| Refresh of an INN group, card save (`sync.py`, `organization_card_write.py`) | `organization` rows, INN lock rows | lookup, refresh, save | workers and requests, through MySQL row locks | no new duplicate INN, no stale answer written |
| Documents, deletion (`organization_card_write.py`) | contracts, PDF blobs | add, replace, delete | requests, through MySQL | one actual document per type, one PDF, a deletion that is not refused |
| Logotypes and their cache (`organization_card_write.py`, `logotypes_batch.py`) | logotype rows, `organization.logotype_id`, data URLs in Redis | upload, remove, delete, fetch, invalidate | requests, pages, Redis | nobody loses a logotype, no orphan, no stale entry, a picture wherever there is one |
| Card child rows (`organization_card_write.py`) | contacts and persons, requisites, study fields, settlements | reconcile with a payload | other saves of the card | exactly the payload's rows remain |
| Login and its throttle (`services/auth.py`, `api/auth_pages.py`, `auth_dependencies.py`) | failures and blocks per host and name, the session cookie, the users | check, verify, record, clear, resolve | browser tabs, `manage_app_user` | a block after the limit of failures, no change without the right to it |
| CSRF (`services/csrf.py`, `main.py`, `csrf.js`) | the cookie, the token in a page | issue, submit, compare | browser tabs | a page can submit what it shows |
| Table pages and their queries (`active_organizations.py`, `study_directions.py`, `group_distribution.py`, `organizations_common.py`, `active_organizations_table.js`, `groups.js`) | rows on the page, the choice (in `sessionStorage` too), requests under way | filter, sort, load more, refresh, export | MySQL, answers in any order | the page shows the choice, all its rows once, menus lead to rows |
| Distribution statistics (`distribution_stats.py`, `distribution_stats_repository.py`, `distribution_stats.js`, `timeline_stats.js`, `distribution_stats_shared.js`) | orders, statistics and contracts in MySQL; the choice, the rows, the period in `sessionStorage` | count, choose a period, filter, sort, turn windows | MySQL, answers in any order, the other page | each student counted once, rows under their own labels, windows that tile |
| Other routes, search, workbooks, declarations | none, or the browser's | routes, SELECTs, layout | services | - |

Hard behaviours: commands of several processes interleave between any two
awaits; leases lapse while their owner lives; workers crash, are stopped and
come back; commands fail half way; a counter is read while it is incremented;
the day changes during a run; two transactions decide in snapshots that do not
contain each other; answers overtake each other. `PROJECT.json` lists each one at its line under
`hazards`, with the property that covers it or the reason why none does.

## Modules

    JobLifecycle        what the queue promises of a job
    JobQueue            the queue, command by command; implements JobLifecycle
    JobQueueProofs      proofs about JobQueue
    FullRefresh         the full refresh and the worker loops, over jobs as
                        JobLifecycle describes them
    FullRefreshProofs   proofs about FullRefresh
    RequestLimits       what a lookup passes before it may ask Dadata
    RequestLimitsProofs proofs about RequestLimits
    InnRegistry         the INNs of the organizations: saves, refreshes and deletions
                        as MySQL transactions
    InnRegistryProofs   proofs about InnRegistry
    Documents           the documents of an organization, their PDFs and its deletion,
                        as MySQL transactions
    DocumentsProofs     proofs about Documents
    Logotypes           logotypes, the requests that change them, the cache, the pages
    LogotypesProofs     proofs about Logotypes
    CardSync            the contacts, study fields and settlement of a card under saves
                        that overlap
    CardSyncProofs      proofs about CardSync
    LoginThrottle       the memory of failed logins
    WebSession          tabs of a browser against login, CSRF and rights; extends LoginThrottle
    TableQueries        filters, sorts, pages and menus of the three tables, as operators
    TablePage           a page that shows one of them; extends TableQueries
    BrowserProofs       proofs about WebSession, TablePage, StatsPages and SitePages
    DistributionStats   the counts of students and the table and chart made of them
    StatsPages          a tab that goes between the two pages; extends DistributionStats
    SitePages           extends WebSession, TablePage and StatsPages, one of which is used
    MCJobQueue, MCFullRefresh, MCRequestLimits, MCInnRegistry, MCDocuments, MCLogotypes,
    MCCardSync, MCSitePages
                        small sets and symmetry for TLC

### JobQueue

Redis runs a command, a MULTI pipeline or a Lua script atomically, so one
action is one of these, with the Python that runs between it and the next await. `line[w]` is
what Python holds between two commands (the entry read, the claim token, a
record about to be saved): that is how a record read, changed and written back
over somebody else's change shows up.

| Code | Actions |
|---|---|
| `enqueue_job` | `Attach`, `Create` (one script) |
| `claim_next_job` | `Deliver`, `Claim` or `ClaimRefused` and `AckRefused`, `SaveClaim` |
| `heartbeat_job`, `JOB_LEASE_SECONDS` | `Heartbeat`, `LeaseLapses` |
| `finish_job` | `Finish`, `FinishRefused`, `MetricRecorded` |
| `requeue_job` | `RequeueRead`, `RequeueSave`, `RequeuePush` |
| `promote_scheduled_jobs` | `Promote`, `PromoteRead`, `PromoteAdd`, `PromoteAddFails` |
| `recover_stale_jobs` | `AutoClaim`, `RecoverEntry`, `ReadStale`, `RecoverStale` |
| `process_job` | `RateLimited`, `RedisFails`, `Cancel`, and `Crash` at any point |

The three priority streams are merged, and the five terminal statuses are one,
because no script tells them apart.

### FullRefresh

One execution of `refresh_all_organizations_from_dadata` is an *attempt*; its
number is its lock token and its claim token. An attempt walks through `lock`,
`plan`, `init`, `enqueue`, `wait`, `total`, `mark`, `stamp`, `release`, `finish`
and `metric`, one Redis command to each step. `worker[w]` is a `run_worker` loop
with the tasks it has started: `loop = "manual"` while it awaits the job of a
user, `"slot"` while it waits in `asyncio.wait` with an item in its hand.

| Code | Actions |
|---|---|
| `queue_full_refresh`, under its dedupe key; the other routes | `Submit`, `UserAsks` |
| `_schedule_refresh_if_due` | `InitializeSchedule`, `ScheduledRefresh` |
| `run_worker` | `ClaimManual`, `ManualEnds`, `LoopGoesOn`, `ClaimParent`, `ClaimItem`, `SlotFree` |
| `process_job` of an item | `ItemEnds`, then `StaleEnds`; `ItemUnreported` |
| `full_refresh_lock` | `Acquire`, `Skip`, `Release`, `LockLapses`, `RenewalFails`, `LeaseLost` |
| `refresh_all_organizations_from_dadata` | `Plan`, `InitializeProgress`, `Enqueue`, `Wait`, `Total`, `Mark`, `Stamp` |
| `finish_job` of the parent | `FinishParent`, `TaskEnds` |
| `recover_stale_jobs` | `Recover` |
| errors, SIGTERM, a crash | `CommandFails`, `HeartbeatDies`, `Stop`, `Crash` |

The date is read before the lock script, and again before the pipeline that marks the run as done:
an attempt that comes to either notes the day (`since`), and the command may use the keys of any day
from then on (`Dates`). `late` records that a run has taken the lock with the keys of a day gone by.
Those have expired, and count as empty; that a life is counted in whole seconds, so that a key may
go up to a second early or late, is left out. After the script of `finish_job` its count is still to
be made (`record_metric`): a parent is then at `metric`, an item among the `stale`, whose claim is
spent, and a stop there gives a job back that has ended. Where the report of a result fails,
`process_job` reports a failure once more; where that fails too, the job is left as it is.

Here a claim, a heartbeat and a recovery are single steps: what they do inside
is the business of `JobQueue`. A worker whose claim has been recovered keeps a
*stale* item, whose result is refused. Faults are a crash, a stop (SIGTERM or an
error that ends the loop), a failed renewal of the lock, a failed heartbeat of a
parent, a failed command of an attempt, and a failed report of an item; all draw on one budget, `MaxFaults`.
`course` is a history: whether the progress of a parent has been initialized, once or
more often, or an item that had ended was given back (`disturbed`).

Two assumptions about time are built in. A Dadata call with its retries takes
less than `JOB_LEASE_SECONDS` (120 s), so a claim that waits for the slot of an
*item* does not lapse; one that waits for a parent may. A live attempt notices
that its renewal has failed (it looks every 0.2 s, or before each batch of 50)
before the lock's 15 minutes are over, so the lock of a live attempt does not
expire under it.

The groups do not change during a run. Rate limiting of items is part of their
being queued, and `rate_limited` and `not_found` count as `failed` and
`skipped`, as they do in the verdict.

### RequestLimits

A *caller* makes one call of `find_party_by_inn` at a time, in any process; those in
`Bulk` work for a full refresh. Every step between two awaits is an action.

| Code | Actions |
|---|---|
| `find_party_by_inn`, its retry loop | `Begin`, `Send` (an answer, or the next attempt) |
| `_post_party_request` | `Check` |
| `_wait_for_sliding_window_slot` | `ReadClock`, then the script: `RunScript` (`Granted` or `Full`) or `RedisGone` |
| `wait_for_fallback_rps_slot` | `TakeLock`, `LockTimesOut`, `Awake` |
| `_reserve_daily_request_in_database` | `ReadDay`, then the statement: `Reserved`, `BudgetSpent` or `DatabaseFails` |
| a cancelled task or a dead process | `Cancelled` at any point |
| time, Redis | `Tick`, `RedisDown`, `RedisUp` |

A second is `Window` ticks. A caller reads `time.time()` before the script runs, up to
`Delay` ticks before: scores enter a window out of order, and the window is exact only
over `Window - Delay`. The clocks of the callers agree. A pause between attempts may be
of any length, which covers every back-off. `granted`, `bulkUsed`, `sent` and `refused`
are histories for the properties; no guard reads them. Each window is exact on its own; as a
bulk call passes them one after the other, bulk calls admitted by their window in two different
seconds may meet in one second of the global window, and the model shows it. A window is the
sorted set the script keeps, of members that are each a score and a name of their own
(`Marks`); the script drops the scores that have left it (`Fresh`), counts, and adds one (`With`).

### InnRegistry

Each request is one MySQL transaction at REPEATABLE READ, MySQL's default, which
`database.py` leaves alone; `tx[r]` is its session: what it has read, and what it has
written and not yet committed.

| Code | Actions |
|---|---|
| `save_organization_card`, its reads | `Edit`, or `Create` for a new card |
| `_lock_inn_for_manual_write` | `TakeKey` |
| the flush of the columns, `_sync_requisites` | `Flush`, `WriteRows` |
| `_sync_organization_inn`, the flush of its column | `SyncInn`, `Put` |
| `refresh_organization_from_dadata` | `Ask`, then with the answer `LockCard` or `Skip`, `LockGroup`, `ReadRows`, `Apply` |
| `delete_organization_safely` | `Erase`, `Bury` |
| COMMIT; any error, deadlock or timeout | `Commit`, `Fail` |

A plain SELECT sees what was committed when the transaction first read, and its own
rows; a SELECT ... FOR UPDATE, an UPDATE and a DELETE meet the tables as they are. Only
the locks that are granted early are kept in variables (`owner`, `keys`); the others
follow from what a transaction has done: a requisite it wrote (`RowLock`), the
organization its new requisite refers to (`Inserted`), the gap at the INN it searched
for (`GapLock`). A step that has to wait is not enabled, and `Fail` covers the deadlocks
and timeouts of MySQL. A flush is one step, although it is several statements: it takes
no decision between them. A requisite is named after the request that inserted it, and
the INN requisites stand for all rows that hang on an organization. An answer of
another INN than the one asked for does not get here (`client.py:203`), so
`organization.inn = data.inn` leaves the INN as it is. Whether a refresh writes names is
decided by the size of the group, which is why `AnswerForGroup` demands the group to be
exact when the refresh commits.

### Documents

Transactions as in `InnRegistry`. Documents of different organizations never meet, so
there is one organization.

| Code | Actions |
|---|---|
| the handlers, up to their first statement that writes | `Add`, `Update`, `RemovePdf`, `Archive`, `DeleteOrganization` |
| the flush of a new document | `Insert` |
| UPDATE of the document itself | `Save` (before the PDF, or `mark` after its removal) |
| `_replace_document_pdf_blob`; its DELETE is also that of the removal | `Wipe`, `Put` |
| `_sync_actual_document_with_type` | `Clear` |
| `delete_organization_safely` | `Erase`, `Drop`, `Bury` |
| COMMIT; a failed check, a missing row, a deadlock or timeout | `Commit`, `Fail` |

A handler decides on what it sees in its snapshot (`seen`: which document, which
siblings, whether a column differs and is written at all), and `todo` holds the statements
it still has to make, whose order is `Rank`. An UPDATE by id that meets no row fails, as
SQLAlchemy makes it. `owner` is who holds the row of a document. What a DELETE locks
follows from `wiped`, `gone` and `stored`: the rows it deletes, the rows others insert,
and the gap at the `contract_id` (the foreign key has an index), into which nobody
inserts until the commit; two DELETEs may hold one gap, and their INSERTs then deadlock. The erase
holds the gap of the organization's documents too. The shared locks (of the document, by
the INSERT of its PDF; of the documents, by the subquery of the erase) are taken as
exclusive ones, which orders the steps a little more than MySQL does: of two
transactions that share a row here, each has yet to delete or update what the other
holds, so that MySQL ends one of them, as `Fail` does, where the model lets it wait.
`maker` and `before` are histories for `TwoActualOnlyByOverlap`.

### Logotypes

| Code | Actions |
|---|---|
| `save_organization_logo`, `delete_organization_logo`, `delete_organization_safely`: the read, the statements, COMMIT | `Begin`, `Write`, `Commit`, `Fail` |
| `_delete_orphan_logotype` | `Deleted`, in `Commit` |
| `cache_logotype_data`, `invalidate_logotype_cache` | `Fill`, `Drop`, each of which may fail |
| `fetch_logotypes_batch` | `Open`, `Ask` (MGET), `Query` (SELECT), `Store` |
| the TTL of an entry | `Expire` |

Transactions as in `InnRegistry`, but only the row of the organization is waited for. A
deleted logotype's row is deleted at the commit together with what the foreign key
(`ON DELETE SET NULL`) makes of the references to it. A DELETE of a row that another
request has deleted does nothing, and neither does an update of nothing to nothing. The
ids are never used again, so an entry cached late belongs to nobody; `late` records it. Every
logotype here has a picture; rows of old data without one, which are cached as `none`, are left out.

### CardSync

| Code | Actions |
|---|---|
| `_prepare_contacts`, `_sync_contacts`: what is read, compared and checked | `Begin` |
| its INSERTs, UPDATEs and DELETEs of contacts | `Write` |
| `orphan_entities` and their DELETE | `Prune` |
| `_sync_study_fields`, `_resolve_settlement_id`, COMMIT | `Commit` (`New`, `OneOfEach`, `Resolvable`) |
| an error, a deadlock or a timeout | `Fail` |

A payload names contacts to keep and to change, may add one to a person old or new,
chooses study fields and may name a settlement. A save that changes none of the card's own
columns does not write its row, so two saves of one card meet only in the rows below
it: at a contact both change, at a person one deletes and the other adds to. Study
fields and settlements stand in nobody's way, and `Commit` takes them in one step. With two rows of one
study field, `current_by_field_id` holds whichever was read last: `pick`. The names and
posts of the persons are left out, and with them the locks of their UPDATEs: saves wait for
each other, or fail, a little less often than in MySQL. The contacts
of the leaders (`save_leader_contacts`) go through the same functions with other tables.

### LoginThrottle and WebSession

| Code | Actions |
|---|---|
| `csrf.js` and the browser: a page, a form, a fetch | `Send`, `Receive` |
| `auth_session_middleware`, `ensure_request_csrf_token`, a page that needs a user | `ServeApp`, `Refuse`, `Reply` |
| `login_page` | `ServeLoginPage` |
| `login_submit`: form and throttle; `authenticate_user`: SELECT; the thread and the outcome | `ServeLogin`, `FindUser`, `Verify` |
| `is_login_attempt_allowed`, `record_failed_login_attempt`, `clear_failed_login_attempts` | `Allowed`, `RecordFailure`, `Forget` |
| `logout_submit` | `ServeLogout` |
| a route that writes, before and after its awaits | `ServeEdit`, `Edit` |
| `upsert_auth_user`, the age of the session, a restart, the clock | `Administer`, `SessionEnds`, `Restart`, `Tick` |

The cookie jar belongs to the browser and is shared by its tabs; a request carries the
cookies of the moment it was sent, an answer sets its own when it arrives, and a page
keeps the token it was rendered with. There is one browser, one user name and one host: the
entries of the throttle for others are apart. A restart happens between requests.
`clean` and `entitled` are histories. The failures of a name are a deque to whose end the
time is appended; `Recent` takes the lapsed ones from its front and stops at the first that has not
(`Lapsed` is how many go), as the loop over `popleft` does.

### TableQueries and TablePage

`TableQueries` writes each table's query as operators over a set of rows: what
`apply_filters` keeps (`ActiveMatches`, `Matches`), the columns of `apply_sorting`
(`ActiveKey`, `DirectionsKey`, `GroupsKey`), all orders MySQL may return (`Orders`: rows
that tie come in any), the page cut out of one (`Page`), and the values of a menu
(`Offered`). `Resolved` is the semester `resolve_group_distribution_filters` substitutes. A row has
only columns that filter or sort it, as numbers, with 0 for NULL; the collation is left out.

| Code | Actions |
|---|---|
| a page is loaded, or loaded again | `TableInit` |
| `refreshTable` after a sort, a filter or the history | `Choose`; its answer `Replace` (`tableRequestId`) |
| `loadMoreRows` | `LoadMore`; its answer `Extend` |
| the routes of the tables, `build_..._page_context` | `ServeRows` |
| a failed request | `Fail` |
| other users | `EditRows` |

A page starts with the rows the server rendered for the choice in its address, and with the choice
that the browser's tab has stored (`readStoredState`), if there is one. Where they differ, the
organizations and the directions send a refresh at once. The page of the groups does not
(`groups.js:395-404`): it goes on with rows of one semester under the choice of another, picking
that semester again does nothing (`groups.js:340-348`), and "load more" appends rows of the stored
one. `LastChoiceShown` names exactly this state (`JustOpened`: nothing has been asked for since the
page was loaded) as its exception, and `own` the rows appended in it. A type of contracts that is
not in `CONTRACT_DATATYPE_NAME_TO_ID` (`Types`) demands a contract and filters none (`Known`).

The reference definition is the export: `ScrolledIsExport` compares what was scrolled together,
page by page, with the sequence `fetch_all_...` returns for the same choice.

### DistributionStats and StatsPages

`DistributionStats` computes what one request answers: sums of the orders' blocks, replaced by
the statistics kept by hand (`Counts`), the contract an organization is listed with
(`Preferred`), the period (`ResolvedYears`, which the pages compute again as `resolveRange`), and
the rows in the order of two stable sorts (`Sorted`). The requests of one transaction read one
snapshot. Names, dates and numbers are naturals; the printed columns are left out. So are negative
numbers of students, which the columns would hold and no order has.

| Code | Actions |
|---|---|
| a page is opened, with the period `sessionStorage` remembers | `Open` (`Fits`: whether the rendered rows can stay) |
| "Apply", "Reset", a header | `Apply`, `Reset`, `SortBy`; all are `SendLoad` of `loadTable` or `loadChart` |
| the routes | `ServeStats`, which refuses years `DistributionStatsFilters` does not admit |
| the answer, an error | `TakeStats`, `FailLoad` |
| the buttons of the chart | `PreviousWindow`, `NextWindow` |
| `add_organization_document`, `update_organization_document`, `delete_organization_safely` | `SaveContract`, `DeleteOrganization` |

`busy` is what `setBusy` does to buttons and pointer; `SortBy` does not ask it, because a header
with the focus obeys the keyboard. Pages are opened without parameters, as the menu does.
`refreshYears` is never set by the code, so a page reads its years once. `CountedOnce` has a
reference definition of its own: the students of each organization and year, from the tables.
A year that cannot be read from an order's date (`Unset`) is none of a period's: where no
order has a year, the service answers with no period and no rows (the database `Undated`). What a
registry may hold at first is anything of the columns' types and keys (`Sound`).
`asked`, `answered`, `settled` and `raced` are histories.

`SitePages` puts the session, the tables and the statistics side by side. They share no state and no
request, so a behaviour of `SiteSpec` uses one of them and leaves the others as they began;
`StatisticsTell` collects the parts `StatsPages` states: `LabelsTell`, `LastAsked`, `WindowsTile`,
`OnlyOddYearsRefused`, `CountedOnce`. The mutant in `PROJECT.json` breaks the first of them; `Idle`,
`Within`, `OnMenu` and `Counts` have a bug of their own next to them, which breaks the other four in
that order.

## Runs

| Run | Question | Result |
|---|---|---|
| `queue_recovery` | Two jobs of two keys and one user whose quota is one, two lines, one crash, one Redis error, one late heartbeat. Is anything lost or run twice, and is it still `JobLifecycle`? | holds |
| `queue_retry` | One job, a delayed retry, a graceful stop and a Redis error, no crash. Do requeue and promotion keep the job, the token and the count right, and does the job finish? | holds |
| `full_refresh` | Two full refreshes of two groups (of one and two organizations) in two batches, two workers, midnight, manual allowed after scheduled, one fault. One run at a time, the day's limit, a clean first run? | holds |
| `full_refresh_live` | Two workers with one slot each, a user's job, the first start of the schedule, one fault. Does every refresh get a verdict, is the user served? | holds |
| `request_limits` | One bulk caller and two users, one of each kind of slot in a second, a day's budget of two with one in reserve, one retry, one outage, cancellation or database error. Are the rates, the budget and the reserve kept, through all their interleavings? | holds |
| `inn_registry` | Two cards (a pair with one INN, different ones, none, or one yet to be created), two INNs, two saves, a refresh and a deletion. Does a card get an INN another has, does an answer go to a card of another INN or miss one? | holds |
| `documents` | One old document of two types or none, three requests of any kind and a deletion of the organization. Can a document end with two PDFs, can two documents of a type be actual without an overlap, can a foreign key refuse the deletion? | no |
| `logotypes` | Two organizations that may share a logotype, three requests, a page that fetches pictures, errors of Redis. Does anyone lose a logotype to another's request, is an orphan left without an overlap, is a picture withheld, a stale entry kept? | no |
| `card_save` | Two contacts of one person, a study field, a new settlement, three saves of which two at a time. Is a save that nothing overlaps exact, and do strays come from overlaps alone? | holds |
| `site_pages` | Two tabs, a throttle of two failures in two ticks, an administrator, lapses, restarts: is a form refused only after two first loads at once, does nobody edit without the right, does the throttle count overlapping attempts? Three rows of each table, two or three choices, one of them in the address and one stored, three requests answered in any order, one edit by another: is the page the export, do menus lead to rows? Statistics of three organizations whose contracts change, a year no request may name, two loads, a change of pages, two sizes of windows: are rows shown under their own labels and for the last choice, do windows tile, is each student counted once? | holds, with the exceptions that `LastChoiceShown`, `ScrolledIsExport`, `LabelsTell` and `LastAsked` name |
| `masked_failure` | Is a run recorded as done always clean, also when its parent was started again? | violated |
| `one_worker` | With one worker and one slot, is the job of a user served? No fault is needed. | violated |

`full_refresh_live` and `one_worker` check one property, `ManualServed`, and differ in the number of
workers. `src/README.md:118` says that one worker works correctly and manual jobs keep their
priority. With two it holds. With one it does not: the parent fills the only slot, the loop has
claimed the first item and waits for the slot, and the parent waits for the item. The loop does not
return to the streams, nor to the leases, and the user's job stays queued. Two workers with a slot
each get out of it, since a parent takes only one of the two. The default of the setting is 10, and
with a second slot the parent's items pass through that.

The bounds: two workers are what `docker compose` starts, and competition needs no third. Two jobs
and two keys show a freed key, a taken key and a reached quota; two groups in two batches show a
batch that waits for another's items; the second group's two organizations tell an organization from
a group. Two parents are a scheduled and a manual one on the same day; three attempts let a parent
be started again twice. One fault of any kind at any point already meets every other step. In
`request_limits` a second of three ticks and a delay of one are the least with which entries arrive
out of order and lapse; the run ends after `MaxTime` ticks, which is enough for a full window, its
lapse and a new grant, and because time is bounded it checks no liveness. In `inn_registry` two
cards are a pair of duplicates, a group of two or a card and one to be created; two INNs let a card
change its INN or two swap theirs; two saves race for an INN, one of them against the refresh and
the deletion. In `documents` three requests are two that overlap and one that comes after or
between, and with the old document they meet as two that make the same or different documents actual
or upload to one document; two types tell a sibling from another document. In `logotypes` three
requests are two that overlap and one that comes after, and two organizations share a logotype, swap
it or are deleted. In `card_save` two contacts of one person are what two saves can empty without
either seeing it; a third save finds what an overlap has left. In `site_pages` two failures within
two ticks are the least count that can lapse, be completed by two attempts in flight, and be
forgotten in between, and three ticks let a failure, its lapse and a block follow each other; a page
is one row, so that three rows are three pages, and the rows agree in a name, in all of a sort's
columns, or have no contract or an unsigned one; three requests are a refresh (that of the start, or
of a choice) and a further page that overtake each other, and one after them. On the statistics two
loads are what a sort by keyboard can put out of order, three rows make windows of one and of two
that end within or at the last row, and one edit may make a year appear or go. In the runs of the
full refresh, items end in two of the three ways at a time (`Answers`: success and failure in
`full_refresh`, skip and failure in `full_refresh_live`, where also a user's job ends in either, all
three where a run is to be violated), because all three would leave no time for the rest;
`full_refresh` crosses one midnight and begins after the first start of the schedule, the others
stay in one day. The runs that pass use symmetry only where they check no liveness. `CHECK_DEADLOCK
FALSE`: when every job has ended and every bound is used up, nothing more is to be done.

What the modules show of the code. The first two contradict the repository's README and are quoted under
`findings`; the rest are effects that nothing in the repository forbids, so a property
names them as the exception, or the prose here.

- `initialize_full_refresh_progress` leaves the `status:*` counters of the parent's earlier run: old
  successes hide new failures and unfinished items, and the run is recorded as done
  (`masked_failure`). `FirstRunIsClean` shows that a parent job initialized once is not affected,
  with the next point as the exception.
- The parent job occupies a slot. With `DADATA_FULL_REFRESH_CONCURRENCY = 1` (which `config.py:80`
  accepts) and one worker, the loop holds the item that the parent waits for, and waits for the
  parent; no manual job is served any more (`one_worker`).
- An item whose claim lapsed while it waited for a slot runs twice, and the second result is
  refused. But a worker that is stopped while it has the refused one in its tasks gives the job
  back, though it has ended: it is done again and counted again, and its organizations stand in
  `processed` for others that have not been refreshed, so that the run may be recorded as done
  without them. It takes a parent that is being executed twice, a stop, and a slot taken by the
  first of the two executions. `course` marks such a parent as disturbed.
- The date of the day's keys is read before the lock script. A run that reads it before midnight and
  takes the lock after it is admitted on the counter of the day that ended: where another run has
  used up the new day in between, the new day is exceeded by one (`late` in `DayLimitKept`).
- `requeue_job` sets a job to queued whatever its status is. A stop that lands on the
  `record_metric` after the finish script reopens a finished job; `CountedPerFinish` allows for it.
  It also looks at no claim: a stop, or a retry after a rate limit, of a line whose job is being
  executed elsewhere puts it back into the queue all the same.
- `promote_scheduled_jobs` removes the id before it adds the stream entry; a crash in between loses
  the job. So does a crash between the two commands of `requeue_job`. `NoLostJob` is therefore
  checked with crashes but without delayed retries in `queue_recovery`, and with delayed retries but
  without crashes in `queue_retry`, and proved under either condition.
- `_sync_organization_inn` counts the INN requisites in the snapshot of its own transaction. Two
  saves of one card that overlap each add one, both see one, and the card is left with two; from
  then on a save that changes neither is refused.
- Two documents of one type added at once are both actual; two saves that then make each of them the
  actual one archive each other's document.
- A logotype stays behind without an organization when two uploads to one organization overlap, or
  when two that share it give it up at once. Nothing removes it later.
- Two saves that each drop one contact of a person leave the person without any, until the next
  save, which removes it. Two that add one study field store it twice, and taking the field away
  then takes two saves. Two that name one new settlement insert it twice, and every later save that
  names it fails.
- Two first loads at once leave one tab with a token whose cookie is gone; its forms are refused
  until it is loaded again, and a logout is then passed over in silence.
- The default order of the study directions leaves out the code, and the one by organization also
  the id: rows tie, MySQL may order them differently for each page, and pages read by offset may
  repeat one row and miss another.
- `loadMoreRows` has no request number. A late answer is appended to the table of another choice,
  and after a refresh that failed "load more" asks under a choice whose first rows are not there.
- The page of the groups, loaded again after another semester was chosen, may show the rows of the
  semester in its address under the stored one, and appends rows of that.
- In the list of departments, a contract that is not signed is shown, and its number offered in the
  menu; once chosen, contracts must be signed, and no row is left.
- `loadTable` has no request number either; there, only a sort from the keyboard can overlap a load.
- When a load of the chart fails, its window buttons still work, and draw the old items under the
  period and the filters that were not answered.
- Both pages of statistics read the menu of years once. When a year has come or gone since, the
  period written over the rows may differ from that of the rows.
- An order whose date has a year before 1900 or after 2100 makes the default period, once a page
  asks for it by request, refused: every "Reset" ends in an error.

## Fairness

A step once begun goes on (Dadata calls have timeouts, polls repeat), so the
steps of a line, an attempt, an item and a wait for a slot are weakly fair. The
loop returns to the streams after each job and to the housekeeping every minute;
it may be busy whenever a particular job is there to be picked up, so picking up is
strongly fair, for some worker and not for each. A lease whose owner is gone
lapses. Requests, rate limits, midnight, faults and late heartbeats are never
owed.

## Proofs

All for any sets and any bounds, from the named assumptions on the constants
(`QuotaAssumption`, `NullAssumption`, `NoRecAssumption`, `BoundsAssumption`; `SizeAssumption`,
`NameAssumption`, `AnswersAssumption`; `LimitAssumption`, `CallerAssumption`; `RequestAssumption`,
`ValueAssumption`; `NameAssumption` of `Documents`; `LogoAssumption`; `CardAssumption`;
`ThrottleAssumption`, `TabAssumption`; `TableAssumption`; `StatsAssumption`).

`JobQueueProofs`: `TypeCorrect`, `OneTokenHolder` (`TokenExclusive`), `CountedOncePerFinish`
(`CountedPerFinish`), `RunningCanBeRecovered` (`RunningRecoverable`), `NoJobIsLost` and
`NoJobIsLostByCrashes` (`NoLostJob`), `ExecutedOnce` (`NoDoubleExecution`) and
`QueueImplementsLifecycle` (`ImplementsLifecycle`). The first inductive invariant, `IInv`, adds to the types
that whatever a stream, set or line refers to has a record (`Known`), that what a line
carries suits its point (`LinesOK`: a record about to be saved is not a finished one),
and that no token is issued twice (`TokensDistinct`). The token is what makes
competing attempts harmless, so exclusiveness follows from distinct tokens, and
counting from the guard of the finish script.

The others rest on where a job may be. `QInv` says of a line which stream entry it has in hand and
that nobody else is to acknowledge that (`Shapes`, `ClaimsOwn`), and of a running job that it has an
entry that XAUTOCLAIM finds and nobody is about to acknowledge (`Tracked`, `RunningKept`). `LInv`
adds that a queued job has an entry, is scheduled, or is in the hand of a line about to add one.
Their hypotheses are counters of the model and name what the code does not survive:

| Theorem | Hypothesis | What happens otherwise |
|---|---|---|
| `RunningCanBeRecovered` | no claim has been slow (`used.slow = 0`): between its script and the saving of its record, no line lets a whole lease pass | the job has been given to another; the late save overwrites its record and stream entry |
| `NoJobIsLost` | no crash and no Redis error so far | `requeue_job` and `promote_scheduled_jobs` take a job out of one list and put it into another in two commands |
| `NoJobIsLostByCrashes` | Dadata limits no attempt (`NeverLimited`) and no line is cancelled | as before; without a rate limit or a stop neither of the two functions runs |
| `ExecutedOnce`, `QueueImplementsLifecycle` | both, and no slow claim | a requeue does not look at the token, so a job may be running, or may have ended, when it is put back |

Crashes, errors, lapsed leases and late heartbeats are all admitted by `ExecutedOnce` and
`QueueImplementsLifecycle`; `NoDoubleExecution` itself excuses a lease that has lapsed.
`NeverLimited` is what the run `queue_recovery` has with `MaxRetries = 0` (lemma `RetriesOff`). The
refinement is proved step by step: each action is a step of `JobLifecycle` or leaves its variables
alone. The invariants behind it are that every open job is the one its dedupe key names (`Keyed`),
that the users' sets hold exactly their open jobs (`Quota`), that what a line executes is running
(`ClaimsHold`, `AttemptsHold`) and that nothing was put back (`NothingRequeued`).

`FullRefreshProofs`: `TypeCorrect`, `OneRun` (`OneRunAtATime`) and `LimitKept` (`DayLimitKept`). The
limit is checked when the lock is taken and counted when the run is marked done, perhaps on another
day. The invariant that bridges the two is `RunsPermitted`: a run not yet marked is one the lock
script would still let begin. It says so of every date the run may be counted for (`Reach`). It
needs that nobody else is inside (`OneRunAtATime`), that days ahead have no counts (`DaysAhead`, for
midnight), that a run which took the lock with the keys of a day gone by is excepted (`late`), that
the origin of a parent being executed is fixed (`ParentsKnown`), and that an override presupposes a
limit above zero (`OriginsCounted`). Most steps take no attempt further into the lock; the lemma
`Frame` treats them together. `FirstRunClean` (`FirstRunIsClean`) is about a sum that several
workers add to. The invariant `CInv` says that at most one worker holds a claim on an item that has
not been recovered, and the item is then running (`ItemsRun`); that nothing is queued ahead of where
a first run is (`Ahead`); and that each counter of the progress of a parent initialized at most once
is the number of organizations whose items have ended so (`Tallied`). The counters are cardinalities
of sets (`Organizations`), so that no sum has to be computed: if `processed` reaches the number of
all organizations, all items have ended, and if nothing is left after successes and skips, none has
failed (`Verdict`).

`RequestLimitsProofs`: `TypeCorrect`, `BudgetKept` (`SentWithinBudget`), `ReserveKept`
(`ReserveForUsers`) and `RatesKept` (`RateKept`). A reservation is a count in the database and then
a point in the life of its caller, and a crash may leave the first without the second. The invariant
`Booked` says so: requests sent plus callers about to send are at most the count. `LimitsHold` adds
that bulk calls never count beyond `DailyLimit - Reserve`; since a user is refused only at
`DailyLimit`, the reserve is then theirs. `RatesKept` compares what was granted in any stretch of
time with what a window held at one moment: a grant was counted against all that the window then
contained, and what was granted earlier and is still in the stretch is among it, because the script
only drops scores older than a second of a clock that was read no more than `Delay` ago
(`ClocksHold`, `PastGranted`, `Covered`). The slots of the fallback lie apart because its lock is
held until the pause is over (`LockApart`).

`InnRegistryProofs`: `TypeCorrect`, `AnswerKept` (`AnswerForGroup`) and `NoNewDuplicates`
(`NoNewDuplicate`). The invariant says of every transaction what it has made sure of and
still holds (`Kept`): a save that is to write a new INN is the only one, and no other card
has that INN; a refresh that has read its group holds every card of it, and no save is
about to join. Both last until the commit because whoever wants to break them must
first lock a card that is held, or find the search for the INN blocked. Most
steps keep what the other transactions rely on for a common reason, that nobody loses an
organization but by its own release (`Gained`, `OthersKept`); saves and refreshes are then
looked at one action at a time, and `Commit`, which alone changes the tables, by kind.

`DocumentsProofs`: `TypeCorrect`, `OnePdfKept` (`OnePdf`), `DeletionKept` (`DeletionNotRefused`) and
`TwoActualsByOverlap` (`TwoActualOnlyByOverlap`). The invariant says of a request what it holds
(`Holds`): where it has wiped, all PDFs there are among those it has deleted, and a PDF it has
stored is where it has wiped; once it erases, it holds every document and has wiped at each. `Apart`
adds that where one has stored, no other has wiped. So a commit that brings a PDF takes every other
away, and a commit of anyone else changes no document the deletion holds. `StepKeeps` treats the
statements together (they change no table), `EndKeeps` the commit and the failure.
`TwoActualsByOverlap` adds `JInv`, which relates a snapshot to the commits it contains: a document
that is actual now, and was made so by a request that had ended when this one began, was read as
actual (`Looks`); and a request that makes its document actual has archived every sibling it read as
actual before it commits (`Sets`). What stays actual beside it was therefore made so by somebody
still running when it began (`RivalsOverlap`).

`LogotypesProofs`: `TypeCorrect`, `PicturesShown` (`PictureShown`), `EntriesDropped`
(`EntryDropped`), `LogotypesKept` (`LogotypeKept`) and `OrphansByOverlap`
(`OrphanOnlyByOverlap`). A page that has looked a logotype up holds
an answer which was true then. What keeps it harmless later is that logotypes are not
passed on: a row once gone does not come back, and a new one is known to nobody but the request
that stores it until its commit (`Known`, `OnlyKnown`). `SnapshotsTell` says how far a
snapshot can be from the tables: who had a logotype still has it, or a request of
its own has ended since. `OrphansByOverlap` needs a second invariant, `JInv`: for a running
request, whoever has another logotype than in its snapshot got it from a request that has
committed since, and an old logotype given up since was given up by a request that knew it
(`Tells`); a new logotype never has a second user (`OwnersTell`), and a row that is about to
be committed is there and is one request's alone (`RowsHeld`). A commit that leaves a logotype of
nobody has then either counted a user whose request is the other one of the overlap, or
replaced what it never saw.

`CardSyncProofs`: `TypeCorrect`, `StraysByOverlap` (`StrayOnlyByOverlap`) and `LoneSavesExact`
(`LoneSaveExact`). The invariant says of each running save how far the tables may have moved from
its snapshot (`Sees`): only by saves that committed after it began, and which thereby overlap it.
`ForeignKeys` adds what the locks preserve, that no person goes while a contact of theirs is there
or on its way, and `Named` that what is named after a save is there only once it has committed. A
lone save then sees the tables as they are, and its commit is computed from its payload alone.

`BrowserProofs`, about the session: `TypeCorrect`, `TokensCurrent` (`TokenCurrent`), `EditsEntitled`
(`EditEntitled`) and `ThrottleCorrect` (`ThrottleRight`). The invariant speaks of all requests under
way, because any of their answers may replace the cookie: a tab that was loaded cleanly relies
(`Relies`), while it waits for its first token, on nobody else doing anything, and from then on on
everybody having the same one. A request that is let through carries the history of the rights
(`Entitled`). `ThrottleCorrect` needs that the deque is in the order of time (`Ordered`), for the
loop from its front then removes what has lapsed and nothing else (`RecentIs`); that it ends with
the last failure (`LastFails`); and that a block was earned by failures close together
(`BlockEarned`).

`BrowserProofs`, about a table page: `ChoiceShown` (`ShowsChoice`) and `MenusLeadToRows`
(`MenusLead`), for any rows, choices and sizes, of finite tables and of choices that the schema of
the filters admits (`TableAssumption`), and for a page that starts from any stored choice; the page
of the groups is excepted until something has been chosen on it. They are stated of `TableSpec`, of
which the site the run checks is an instance (`SiteIsAll`, below). The invariant `PageInv` says of
each request what its answer may do to the page. A refresh is answered with the beginning of an
export (`Refreshes`). Of the requests for more only one was asked for from the table that is shown,
the one the button waits for, and its page begins where the rows end (`Continues`); an answer asked
for from an earlier table may still be appended, and from then on the page makes no promise (`own`).
`Scrolled` says that rows and button agree with one export. That the page appended is of the same
export is the lemma `OneOrder`: rows that do not tie come in one order. It goes by the first place
where two orders differ and counts, so it needs no more of the sort than that nothing stands after
what comes behind it. A choice that the server has resolved stays resolved, because the semesters of
the groups' tables are written by nobody (`Fixed`). `MenusLeadToRows` needs of all this only that
the choice is one of the schema; the rest is a lemma about the queries (`MenuLeads`).

`BrowserProofs`, about the statistics: `StatisticsRight` (`StatisticsTell`) and `SiteIsAll`, by
which the theorems about `Spec` of the session, `TableSpec` and `StatsSpec` hold of `SiteSpec`. From
`StatsAssumption`: finite tables whose columns have their types and whose keys are unique, and
counts that are natural numbers.

- Labels, choices and refusals are about answers that overtake each other. An answer shown is one to
  a request of this page, for the period and the filters it carries (`AnswerTo`); a request is for a
  period on the page's menu, chosen or remembered from another page (`LoadRight`); a resolved period
  resolves to itself (`ResolvedYearsAre`), so that what comes back is on the menu unless the years
  have changed. While nothing is under way, the last answer was to the last request, for a second
  one is sent only by a sort from the keyboard, which `raced` records (`InTurn`).
- Windows: offsets are multiples of the size, and the first that would pass the end is not turned to
  (`Windows`, `NextWindows`).
- Counting once needs that the sorts and sums of the service exist and are what they are meant to
  be. A finite set can be listed in any strict total order, each row at the place of its rank
  (`Listed`), and both orders of rows are total because the numbers of contracts are distinct
  (`FilledAre`). A sum over a function exists and does not depend on the order it is taken in
  (`Summing`, `SameSum`), which is a statement about a recursive fold and goes by the least size of
  a counterexample. Then the cells of a row are the students of the tables (`CountsAre`), an
  organization is listed with its best contract (`PreferredIs`, `RecordsAre`) and its total is that
  of the period (`CountedOnceBy`); what the registry becomes by edits is sound again.

So every invariant that a run checks is proved, for the hypotheses named above. Every liveness
property is only model-checked (`EveryJobFinishes`, `ParentSettles`, `ManualServed`): fairness is out of
the prover's reach. Where a proof needs an induction over data it goes by the least
counterexample (`LeastNatural` of `BrowserProofs`).

## Not modelled

Expiry of job records and dedupe keys (24 h), undecodable records, the
synchronous fallback when Redis is down, the worker's `--once` mode, the branch
of the full refresh without a parent job, which no worker takes, the window on new
connections (the same script as the other windows, under a key of its own) and the window in
the memory of a process, which a call does not reach without Redis. Of the cards, not
the checks of the fields, the names and the codes, and of the requisites only the INN; of
the documents, not their fields and file names. Also left out are the
tables `contract_detaillegalinformation` and `contract_detailcontactentity`, which refer to
documents and which the program never writes: rows from outside would keep an
organization from being deleted. The shared HTTP client (`client.py:52`: two first requests may
each create one) touches no data. When `enqueue_job` fails after its script has run,
`sync.py:229` falls back to a lookup while the job runs as well; the lookup writes
nothing. Of the inventory's other parts: the answer mapping, the type of a picture and the workbooks
are conversions of one value and keep no state; the upload limit is per
request; the search is a single SELECT with arithmetic on its result; templates, migrations and models
are declarations, whose keys and constraints appear in the modules as guards.

## Plan

Done: the queue, the full refresh, the request limits, the INN registry, the documents,
the logotypes, the rows of a card, login and CSRF, the table pages, the statistics, and the
proofs of their invariants. Next: the requisites other than the INN in `CardSync`, and the
request sequencing of `organization_detail.js`, which polls a job and may be left in the middle.
