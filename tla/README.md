# Startup tracker: verification project

The program collects early-stage companies from public sources (SEC EDGAR, the YC
directory, Hacker News hiring threads, funding news, a seed list), resolves the
reports of one company to one row, follows the companies' job boards and web
sites, and shows the result in a small web application. The web application
(`web/app.py`, under uvicorn) and the scheduler (`scheduler.py`, its `serve`) are
services of their own, and each of a handful of commands (`refresh`, `seed`,
`merge-review`, `sync-contacts`, `sync-regions`) is a process too; they share
nothing but the PostgreSQL database and, those that fetch, a cache directory. That is where it is hard:
several processes write the same rows, in READ COMMITTED transactions that
stretch over `await`s, and any of them may be cancelled or killed.

Paths below are relative to `src/`.

## 1. Inventory

| Component | Code | State | Operations | What makes it correct |
|---|---|---|---|---|
| Field merge and provenance | `ingest/pipeline.py` 88-182 | values and `field_provenance` of a company row | `connector_rank`, `_may_overwrite`, `merge_company_fields` | a field never moves to a less authoritative connector; a credited field has a value |
| Entity resolution and upsert | `ingest/pipeline.py` 283-433, 1101-1215, `ingest/normalize.py` 180-378 | `companies`, `company_sources`, `company_locations`, `merge_candidates`, advisory and row locks | `upsert_company_record`, `resolve_company`, `record_merge_candidates` | no record lost to a unique index; no conflict forgotten; no deadlock among upserts |
| Duplicate review | `cli.py` 905-1075, `db/queries.py` 1914-2563 | the same tables, and the page of pairs a sitting read | `merge_review_once`, `merge_companies` | a verdict is final; nothing of the discarded company is lost |
| Connector runs | `ingest/pipeline.py` 1259-1470, `db/queries.py` 252-268, 1523-1600 | `fetch_runs` | `_start_run`, `_finish_run`, `run_connector`, `last_successful_run_started_at`, `consecutive_failure_counts` | a filing shown before a completed run started is stored, or a partial run reported its failure; a streak of failures is counted and no other |
| Scheduler | `scheduler.py` | `_RUN_LOCK` and its waiters, the jobs of APScheduler | `run_scheduled`, `alert_on_failure_streak`, `drain_runs`, `serve` | scheduled runs never overlap; a shutdown waits for the run in progress |
| Job boards | `ingest/connectors/ats.py` and its four connectors, `ingest/pipeline.py` 1030-1096, `db/queries.py` 192-302 | `companies.ats_provider`, `ats_token`, `jobs` | `fetch`, `_discover`, `_upsert_jobs`, `close_missing_jobs` | the two columns are one fact; a moved board is followed; open jobs are what the board lists |
| Denormalized columns | `db/queries.py` 125-189 | `companies.open_job_count`, `latest_job_posted_at`, `latest_round_id` | `refresh_company_denormalized_columns` | settle on what the child rows say |
| Child rows | `ingest/pipeline.py` 436-1025, `ingest/contacts.py` | locations, sectors, rounds, investors, people, contacts | `_upsert_*`, `sync_constructed_contacts` | a published contact is never lost or demoted; a constructed link is the one of today's name and domain; one lock order of the cities; an amendment stays on the round it amends |
| HTTP client | `ingest/http.py` | budget, per-host slots, robots rules, cache | `request`, `_send_once`, `_wait_for_slot`, `_robots_for` | spacing per host, budget per run, no disallowed fetch, no stale 304 |
| Region vintages | `cli.py` 1146-1328, `ingest/config.py` | `regions`, metro of each location | `load_regions_config`, `_fill_metros`, `sync_regions_once` | a location's metro settles on the file, whoever still runs with an older one |
| Visit order | `db/queries.py` 192-250, `ingest/connectors/company_site.py`, `ingest/connectors/ats.py` | `company_sources.last_seen_at`, `external_id` | per-run cap, discovery budget, `min_revisit_days` | every company is visited again and again |
| Record sources | `ingest/connectors/sec_edgar.py`, `ycombinator.py`, `hn_hiring.py`, `funding_rss.py`, `ingest/seed.py` | none (EDGAR: the search window) | `fetch` | the windows of consecutive runs overlap |
| Listings and their URLs | `db/queries.py` 579-1490, `web/filters.py`, `web/templating.py`, `web/routes/` | nothing stored: a URL carries filters, sort and cursor | `parse_*_filters`, `list_companies`, `list_jobs`, `Cursor`, `next_page_url`, the panel's query strings | pages partition the result while rows change; both lists mean the same by a filter |
| ATS parsers, classifiers, HTML extraction, templates, settings | | none | pure mappings | not state machines |

How they interact. A trigger (a cron job of the scheduler, or a command) calls
`run_connector`, which asks the connector to `fetch` (HTTP only) and then upserts
each record in a transaction of its own; at the end it refreshes the denormalized
columns of the companies it touched and closes its `fetch_runs` row. The only
things two runs share are database rows. Scheduled runs take `_RUN_LOCK`; runs of
a command do not, so a command may overlap a scheduled run. `merge-review` deletes
companies while runs may be about to write them. The row `fetch_runs` leaves is
what the next run of the connector starts its window from, and what the failure
alert counts.

The hard parts: resolution reads and writes in separate statements, so two
transactions may both find nothing; PostgreSQL blocks one transaction on another
at four places (advisory lock, row lock, foreign key check, unique index); a run
that is killed leaves an open row behind; the web of `asyncio` hand-offs at
shutdown. `PROJECT.json` lists each hazard at its line.

## 2. Plan

In this order, the most important behaviour first.

1. **`FieldMerge`, `Resolution`** (done): the core, with `ResolutionProofs`.
2. **`Intake`, `FetchRuns`, `Scheduler`** (done): the life of a connector run, the
   window, the streak; the abstract specification `Intake` (the point a run may
   start from advances only over filings stored, or reported as failed by a partial
   run) implemented by `FetchRuns`;
   `Scheduler` composes it with the lock, the drain and the commands, and implements
   `FetchRuns`. `Rounds` takes the scan of `FetchRuns` apart, implements it, and says what
   the filings of one offering leave behind. `SchedulerProofs` has the proofs about all four.
3. **`HttpClient`** (done): budget, spacing, robots, retries, conditional requests;
   with `HttpProofs`.
4. **`Boards`** (done): boards, jobs and the denormalized columns under overlapping runs;
   with `BoardProofs`.
5. **`Review`** (done): two sittings of `merge-review`, the page of pairs each read up
   front, and what a merge does with the user's own writing while the web application saves
   more of it; with `ReviewProofs`.
6. **`Links`** (done): constructed and published contacts, people and sources, under upserts,
   merges and the sweep of `sync-contacts`; with `LinksProofs`.
7. **`Visits`** (done): oldest-first visits under a cap, the discovery budget, and the company
   that is never stamped; its theorem is in `BoardProofs`.
8. **`Regions`** (done): vintages of the region file and `sync-regions`, and the rows that
   upserts of different companies share, with the deadlocks they allow; with `RegionsProofs`.
9. **`Listing`** (done): the two lists, keyset pagination with NULLs, and the state the URLs of
   an expanded row carry; with `ListingProofs`.

Left:

* Theorems beyond the properties of the runs: what a liveness argument rests on and the prover can
  state without ENABLED, above all of the refresh (what `counted` may be of) and of the queues of
  `Visits` (what a run that is not cut short has visited).
* Rounds beyond one file number each: what a merge of two companies does with two rounds of one
  file number (`_find_round` then takes the older row), rounds matched by type and date, and
  `latest_round_id`.

## 3. Modules and the code

**`FieldMerge`** - pure operators. A company row is a pair of functions, field to
value and field to connector (`field_provenance`); `Null` is both SQL NULL and an
absent provenance key. `MayOverwrite`, `MergeCompanyFields` and `FillFromDiscarded`
are `_may_overwrite`, `merge_company_fields` and step 4 of `merge_companies`.

**`Resolution`** - one company database, any number of connector runs, one
reviewer. The committed tables are `company`, `sources`, `located` and `pair`;
each run has the local state of `upsert_company_record` (`pc`, `rec`, `target`,
`pending`, `draft`) and its locks. The labels of `pc` are the statements at which
another transaction can make a difference:

| `pc` | action | statement |
|---|---|---|
| `idle` | `Begin` | the next record of the run; `_resolution_metro` and `lock_key` |
| `lock` | `TakeLock` | `pg_advisory_xact_lock` |
| `external`, `domain`, `name`, `similar` | `ResolveExternal` ... `ResolveSimilar` | the four SELECTs of `resolve_company` |
| `insert` | `Insert` | INSERT ... ON CONFLICT (domain) DO NOTHING |
| `row` | `LockRow` | SELECT ... FOR UPDATE of `_update_company` |
| `merge` | `Update` | the merge and the SELECT for a domain's other owner |
| `flush` | `Flush` | the UPDATE that meets the unique index |
| `candidates` | `RecordCandidate` | one INSERT into `merge_candidates` |
| `commit` | `Commit` | sources, locations, COMMIT |

A blocked statement is a disabled action, and `WaitsFor` says whom it waits for;
`RunIsVictim` and its counterpart for the reviewer are PostgreSQL's deadlock
detector. `Crash` may strike at every label. `merge_companies` is `ChooseSurvivor`,
`LockFirst`, `LockSecond`, `Fold`; the two row locks are taken in id order. What a
transaction writes is in `draft` until `Commit`, which is what READ COMMITTED shows
to others. `reported`, `owned` and `cleared` are history, for the properties: `cleared` keeps
what a reviewer had ruled on and a merge then deletes with the discarded company
(`DeletedVerdicts`), since the table forgets it.

**`Intake`** - the abstract specification: a source shows filings, some are taken,
and a point in time is reached only when everything shown before it is taken or has been
reported as failed, which only a partial run may add to.

**`FetchRuns`** - `run_connector` as `Begin` (the time is read), `Open` (the anchor
is read and the row inserted, one transaction), `Scan` or `FetchFails`, `Finish`;
`OpenFails`, `FinishFails` and `Die` are the ways out in between. `Publish` is the
outside world: a source may index a filing up to `OverlapDays` after its file date.
`Scan` divides the hits of a fetch that completes into those stored (`F`, into `taken`) and those
whose fetch, parse or upsert failed (`G`, into `run[t].failed`); with any of the latter the run is
partial, and anchors the next window all the same. `taken` is what got through the upsert step, or
what `to_records` leaves out as no company of a region; `reported` is history, the failures of the runs
that `Finish` has made partial (`error_text`).
`WindowStart` is `window` of the EDGAR connector, `Streak` is
`consecutive_failure_counts`: it counts through a window function, and `StreakIsNewestErrors` says
what the count means run by run, newest first. Time is points, and `Date` maps points to days.

**`Rounds`** - extends `FetchRuns` with what happens between `Open` and the end of a scan, and with the
rounds it writes. `hits` is what a `fetch` holds: the first day not searched yet, the hits of the
last window still to fetch (`found`), those stored (`done`), those that failed (`failed`), and whether
a search overflowed; the last two are `ctx.problems` and `item_errors`. `StartFetch` is `Open` with the first day of the window; `Search` is the queries of one
date window (`Until` is the end of it, `date_windows`), which find every filing that is certain to
be there, or overflow; `HandOn` is the next hit in the order of `filing_order` (`IsNext`, `Before`): its
XML is fetched and parsed, it goes through `to_records` and the upsert and is stored (`Writes`), or one of these
fails, which is a problem and leaves the round alone. `FetchDone` and `FetchStops` are the end of the iteration,
and only `done` is taken;
`OpenFails`, `Finish`, `FinishFails` and `Die` are those of `FetchRuns`, and forget what the fetch held.
A round is the function `told[o]`, from a column to the filing its value is from: a filing
overwrites the columns it has a known value for (`States`: `raw_payload` always, `notes` only an
amendment), so two columns of a round may be from two filings. `wrote` is history, the run that
last wrote a column.

**`Scheduler`** - extends `FetchRuns` with `run_scheduled` for each job (`Fire`,
`Unbuildable`, `Acquire`, `Wake`, `Proceed`, `Alert`), `_RUN_LOCK` as asyncio
implements it (`locked` and the queue `waiters`), and `serve` (`Signal`, `Drain`,
`Drained`, `DrainTimesOut`, `Teardown`, and `Kill`, `Restart` for the process). Every
task that is not a job is a command, which takes no lock. An action is what the loop
runs between two awaits; `release()` and the waiter's wake-up are two of them. One assumption is about loop turns:
between the return of `drain_runs` and the cancellation there is no time for the
database round trip of `_start_run` (`Proceed`).

**`HttpClient`** - `request` for callers that overlap. `pc` says at which await a caller
is: `robots` (the lock of its origin's rules), `budget`, `slot` (the lock of its host),
`sleep` (under that lock), `sent` and `served` (the server has not, or has, made its
answer), `backoff`. An attempt (`try`) is of a page or of a robots.txt; both go through
`Slot`, only a page through `TakeBudget`. `_check_robots` is `RobotsKnown` or `FetchRobots`
... `RobotsAnswered`; an unreachable robots.txt is one that denies everything. `GiveUp` is
every exception that leaves `request`. Time is ages and remaining sleeps, moved by `Tick`. A
validator identifies a content, which is what servers promise of it. `Edit` is a server that
changes a page and `StoreByOther` a process that shares the `FileCache`. `pages` and
`answer` are history. The program uses one client one request at a time; the
locks of the class are there for callers that overlap, and so is the model.

**`Boards`** - an ATS connector's run is `Start` (the work list is loaded), then one of
`Skip`, `KnownBoard` and `Probe` for each target, `Upsert` for the record it yields, and
`BeginRefresh`, `EndRefresh`. `fetch` is an asynchronous generator: the next target is not
looked at before the record of the one before is committed, hence `result` must be `Null`
again. `Upsert` is one action, because the row lock of the company is held from the merge to
the commit; it goes through `MergeCompanyFields` like every record. The refresh is two: the
snapshot its statement starts with (`snap`) and its commit, between which other runs commit.
`counted` is the set of jobs the counters were computed from, of which `open_job_count` and
`latest_job_posted_at` are functions. `Fails` is every `except` on the way, and the kill.
`World` is external: companies move to another board (`Moves`), a provider answers 404 for an
old one or, Workable, an empty shell (`Retires`), listings change (`Relists`).

**`Review`** - `merge-review` sittings and the requests of the web application, over the jobs
(`jobOf`), bookmarks (`mark`: no row, starred, or a row with the star taken back), notes, live
companies and pairs. A sitting reads its page once (`Open`) and takes the lines in the order of
the queue. `Offer` shows a line, or leaves it for the next sitting: if an earlier decision
closed, removed or repointed it, or a merge of this sitting has given jobs to one of its companies
(`stale`). The answer is `Duplicate`, `NotDuplicate`, `Skip` or `Leave`. A merge is one transaction: `Lock`, `Rescue` (or
`RescueCollides`), `MoveJobs`, `ReadDropNote`, `ReadKeepNote`, `WipeNote`, `CarryNote`, `Delete`,
which also repoints the pairs (`Repointed`) and commits; `Report` prints. What it has written is
in the record of the sitting until then. A request (`Post`, `Write`, `Refer`, `Answer`) saves
a note or toggles a bookmark, and does not take the lock of the company: the foreign key check
(`Refer`) is where it meets a merge. A statement that PostgreSQL would block is a
disabled action; `MergeIsVictim` and `RequestIsVictim` are its deadlock detector, `Kill` may
strike anywhere. `late` is history: what requests have written under a merge. Notes are
texts that are saved once, or `Blank`; status and rating are not kept apart from them.

**`Links`** - what a company can be reached by. `contact` is, for each `(kind, value)`, none,
constructed or published; `person` and `source` are the people and the external ids. Upserts
(`LockCompany`, `CommitUpsert`, `InsertCompany`), merges (`LockPair`, `CommitMerge`) and the
sweep (`ReadPage`; `ReadCompany`, `WriteLinks` for each company; `PageDone`) are each the step
that takes the row lock and the step that commits: each of these transactions reads and writes
the contacts of a company only while it holds that lock, so nobody else can tell its statements
apart. `Reconciled` is `_ensure_constructed_contacts`: it builds the two links of a name and a
domain, drops those they supersede, and builds no company page beside a published one.
`MoveGuarded`, `Promoted`, `Deduped`, `Adopted` and `Stranded` are the rules by which a merge
moves contacts, people and sources. Which company a record is resolved to is any. `SweepKilled`
is the interrupt, `PassGone` a company merged away behind the page.

**`Visits`** - whom a run visits. `Start` loads the work list (`Target`, ordered by `Before`:
`last_seen_at`, NULLs first, then id), and the connector takes the targets in that order:
`company_site` with `VisitSite`, `NoVisit`, and `SiteDone` at the cap or at the first company
visited within `min_revisit_days`; an ATS connector with `SkipTarget`, `KnownBoard` and
`Probe`, which spend the discovery budget. The record of a visit goes through `Resolve`
(`resolve_company` for a record without a location) and `MergeCompanyFields`, and stamps the
company it is resolved to - which is not always the one visited. Stamps are kept as ranks,
since only their order is read; `aged` says which visits lie `min_revisit_days` back, and
`DaysPass` moves it.

**`Regions`** - `file` is `config/regions.yaml` as it is, `loaded` what each process read of it
when it first asked (`load_regions_config` caches it for the life of the process). An upsert is
`BeginRecord`, which lays out the rows it will lock or insert (`Plan`), one action for each
(`LockCompany`, `ShareCandidate`, `WriteLocation`, `GetOrCreate`) and `Commit`. Cities come in the order of
`(city, state)`, then sectors and investors as the record has them. A company that is stored comes
before these, FOR UPDATE, and with it the owner of a domain reported for both; a company that is created is
nobody else's yet, and the companies it resembles come last. The rows of `merge_candidates` themselves
are in `Resolution`; here is what they cost others, the KEY SHARE lock of their foreign keys, which only a
FOR UPDATE excludes (`Conflict`). The sweep reads a page, compares its labels, and updates and commits row by row (`NextRow`, `UpdateRow`,
`CommitRow`). A statement PostgreSQL would block is a disabled action, `WaitsFor` says on whom,
and `RecordFails` is its deadlock detector among others. `Valid` is the validation of the file,
`Lookup` and `FillMetros` what it makes of a location, `Firsts` and `Sorted` the dictionary and
the sort of `_upsert_locations`. `recipe` is history: whether the sweep
was started as the repository's README says, after the restart of whatever ran with another file.

**`Listing`** - a reader of the two lists. A URL is a record of its parameters; `Filters`
and `BadRequest` are what `web/filters.py` makes of them, `CompanyRows` and `JobRows` the
predicates of the statements, `OrderBy`, `AfterCursor` and `NextCursor` the page. `Open`,
`LoadMore` and `EditSort` are requests; `Expand`, `ClickHeader`, `NarrowRoles` and
`ShowEveryRole` are the roles table of an expanded row, whose state is only in its own links
(`PanelUrl`). Meanwhile `PostJob`, `CloseJob`, `Refresh`, `MergeCompanies` and `SaveNote` change
the rows. `shown`, `again` and `steady` are history: what the reader has seen, seen twice, and
the rows that match and have kept their sort key since the first page.

## 4. What the runs check

| Run | Configuration | Shows |
|---|---|---|
| `resolution` | `MCResolution.cfg` | the safety and liveness of entity resolution |
| `resolution_twin` | `MCResolutionTwin.cfg` | the advisory key does not serialize a record with a domain against one without |
| `fetch_windows` | `MCFetchRuns.cfg` | no filing lost in silence or between two windows; `FetchRuns` implements `Intake`; the streak |
| `rounds` | `MCRounds.cfg` | a round is as the newest filing left it after every ok run; `Rounds` implements `FetchRuns` |
| `scheduler` | `MCScheduler.cfg` | serialized runs, clean drains, no job left waiting |
| `http` | `MCHttpClient.cfg` | budget, spacing and robots.txt of a host; a replayed body is the one the server has; every request ends |
| `boards` | `MCBoards.cfg` | provider and token stay one fact; board, jobs and counters settle on what the world lists |
| `review` | `MCReview.cfg` | merges lose no note and no star, show nothing stale, keep the pairs well formed and never wait for ever |
| `listing` | `MCListing.cfg` | pages show every steady row once, end, and agree between the lists; the panel's links keep its state |
| `visits` | `MCVisits.cfg` | every company whose way is clear is visited again and again; external ids stay distinct |
| `links` | `MCLinks.cfg` | constructed links are and stay right; published contacts, people and ids survive merges |
| `regions` | `MCRegions.cfg` | labels settle on the file, the recipe reaches every row, no deadlock over cities alone nor with the sweep |

*Bounds.* `resolution` has three runs with five records between them, chosen so that
every path of `resolve_company` is taken and records meet: EDGAR reports a company
without a domain and then, under the same CIK, with one; the YC directory has another
company under that domain and a third whose name is similar to both; a news run may
only enrich. With four inserting records, `MaxId = 5` leaves an id for the INSERT that a
race or an abort wastes; `Insert` is disabled beyond it. Two runs are enough for each two-party race, three
for a third party in between; two companies of one pair and a third company are enough
for repointing. `fetch_windows` has two executors, so that runs overlap in every
way, three rows (an anchor, one that overlaps it, one after both), three points in
time on three days with an overlap of one day and a backfill that reaches the first
day, and one filing, since whether a filing is stored, reported or missed does not depend on another
below the hit cap. `rounds` has an original and its amendment, of one round, because order and failure
are between two filings of one round; two tasks, two rows and two points in time, so that a run
reads both filings again over what an earlier or an overlapping run has stored; a cap of one, so
that a search overflows when it finds both, and a window of two days, so that they may come in one search (where
`filing_order` decides) or in two. The tasks are symmetric: they run one connector with the same options.
What these bounds leave out - more windows, a filing on the last day of one - the theorems cover.
`scheduler` has two jobs, so that one may wait for the
other, and a command, no filing (the windows do not depend on the lock), two points in
time and two rows of `fetch_runs`; kills and restarts are unbounded.

`http` has two callers (one sleeps while the other learns a longer
delay), one bucket with two origins, three robots.txt files (nothing, one origin denied with a
delay longer than the interval, all denied), a budget of three for up to eight page requests, one
retry and one redirect hop. For the cache it has one page with two contents, entries that
expire after a tick, and GET and HEAD. The full product of the two would be some seven million states, so
`MCSpec` holds the environment to one at a time (`MCFocus`): once a page has changed, is cached or is asked
for with GET, all requests are of the bare domain and its robots.txt denies nothing. This restricts
what callers ask, which pages servers change and what they answer; each await may still return, so
the fairness of the callers is not affected.

`boards` has one company (targets do not interact but through the discovery budget, which is
one), three boards, two of the provider that ranks lower and one of the higher, so that it may move
within and across providers and the connector that discovers a board may or may not outrank its
owner; one posting, which a board has or has not; `MaxChanges = 2` lets a company move and its old
board then vanish, or list and unlist; `MaxCommands = 1` run beside the scheduler, enough for
each race of two, and `MaxFaults = 1`, which after a race needs one run to repair it. The company
starts with a board on its pages (`MCInit`); nothing is stored of it. `MovesFollowed` is
weaker than it may seem: it excludes the boards of the remark on re-discovered tokens below.

`review` has two sittings, each run once, and one request in its life (`MaxPosts = 1`): enough
for every race of a merge with another merge and with a save. Three companies all suspected
of being one another make every merge repoint a pair onto one that exists, or, where the pair
was never raised, into its place. Companies 1 and 2 list the same posting and
2 a second one, so that a job is a twin or moves. Company 2 starts with a note and a star on
its twin; company 1 with nothing, with an untouched form, or with a note and a star kept or
taken back.

`listing` has three companies (two with one name, two offices for one of them) and three jobs
(one without a posting date, two posted on the same day), pages of one row, so that every
boundary is a page boundary, and every set of jobs to start from; fifteen URLs go through all
sorts and each kind of filter. `MaxChanges = 2` writes while the reader browses are enough for a
row to leave the position and come back, or to tie with it; changes of a row that is not steady
are free to move it anywhere. `visits` has five companies and a cap and a budget of two, so that
the queue is longer than two runs; `Configured` has the site connector alone or both ATS
connectors, because neither kind reads what the other writes; one company has nothing to be resolved
by, two share a board, one has none, one a board that is gone. `MaxFaults = 1` and one overlapping command are enough for a
visit to be lost or done twice. `links` has two stored companies with the contacts an earlier
phase may have left (`Drift`) and a third to be inserted, two domains that give one LinkedIn page,
pages of one id, and one merge, one sweep and two records between them, so that each may
fall between the read and the write of each other. `regions` has four spellings (two that differ
in capitals, one alias), four files that move a city, learn an alias, switch a region off or do
not load, two processes that may keep different ones, one edit, one sweep, and two of three records: two that
list their cities in opposite orders, one of a new company that resembles the other's, which may be
locked by then and want the same city, and one that lists the same investor before its sector.

*Deadlock checking* is on in `visits`, whose runs start again and again. It is off in the other
configurations because those systems may come to rest: feeds are finite, and time, rows, ids,
edits and writes are bounded.

*Finding.* `_lock_resolution_key` says it serializes every transaction that may resolve to
the same company. The key is the domain if there is one, else metro and name, so reports of one
company with and without a domain do not exclude each other (`NoUnqueuedTwin`, run
`resolution_twin`).

*Remarks.* What the modelling has shown besides, and what the properties say of it:

* A run whose search exceeds `MAX_HITS_PER_QUERY` ends `partial`, which counts as having
  scanned its whole window, and a `--since` later than the anchor advances the window past what
  it never searched. `Uncut` excludes both from `NothingMissed`; `FetchIsScan` says the least
  one may ask, that a run whose search left a filing behind for the cap is never ok.
* A run that could not fetch, parse or store a filing ends `partial` too, and anchors the next window (`docs/SOURCES.md` 93-95, 132-134,
  `last_successful_run_started_at`). A filing that fails in every run until its date is beyond the
  overlap is never stored, and no later run looks for it. `NothingMissed` therefore does not say that every
  filing is stored: each one that is not has been reported by a run that ended partial.
* `docs/SOURCES.md` (120-124) says of a Form D and its amendments that the order of the hits makes the
  round end as the newest filing left it. So it does when a run ends ok (`ColumnsAreNewest`). A run that
  reads both again, stores the original and then cannot fetch the amendment ends
  partial, and leaves the amount and payload of the original under the notes of the amendment,
  which an earlier run had stored: what the docstring of `filing_order` warns of. A later run repairs it
  only while its window still reaches the amendment. The property therefore speaks of ok
  runs, and column by column; `RunsGoForward`, which speaks of every run, says only what one
  run does to its own columns.
* `drain_runs` says a queued run is drained too; in the loop turn between `release()` and
  the waiter's wake-up the lock is not held, and the drain returns at once. `DrainIsClean` says
  what a drain does for the run that holds the lock.
* `ats.py` says that a re-discovered token overwrites the stale one because the same
  connector owns the field; the owner is the connector that discovered the board, which may be
  another and may outrank it. `MovesFollowed` excludes those boards.
* An ATS connector skips a company that has moved to another provider, so the jobs of its old
  board stay open. `BoardsMirrored` speaks of the stored board only.
* `_stranded_bookmark_notes` says that a bookmark which could not be moved loses no star,
  because the survivor's copy is starred. The guard asks for a bookmark row, and un-starring
  keeps the row; `StarsSurvive` names that case.
* Two refreshes that overlap may leave the counters of the older snapshot until the next one,
  which is why `CountsSettle` is a liveness property and not an invariant.
* A company whose record is resolved elsewhere or nowhere (no domain and no local company of
  that name alone; or a board it shares with another) is never stamped: it stays at the
  head of the queue, where it uses up the cap of each run, although `load_company_targets`
  and the options of the two kinds of connectors speak of a round robin. `SitesVisited` and `BoardsRead` therefore
  hold as long as fewer such companies than the cap exist (`Clear`), and `Stray` names them.
* Locations are sorted before they are inserted; sectors and investors are not. Of those not
  stored yet, two upserts may wait for each other, and one record is lost to the detector. A city may be
  in a cycle too: an upsert that creates a company holds its cities when it names the companies it
  resembles, and an upsert that has one of those FOR UPDATE may want one of the cities. The comment in
  `_upsert_locations` claims no more than that two upserts which take shared locations do so in one
  order. `CitiesAloneNeverDeadlock` says that every cycle has somebody in it who waits for a new sector or
  investor or for a candidate company, and that the sweep is in none.
* A city a region no longer claims, or whose region is switched off, keeps its label: `Right` in
  `Regions` asks nothing of it, as `sync_regions_once` promises nothing.

## 5. Fairness

`Resolution`: a transaction goes on as long as it is not blocked. A statement blocked
again and again by others gets its turn because PostgreSQL queues lock requests,
hence strong fairness of the steps of an upsert; for the merge, whose
locks are taken in a fixed order, weak fairness suffices. Starting a record, answering a question and crashing are not
fair: nobody has to run, answer or die. `Scheduler`: weak fairness of each job's next step
and of `serve`, because the asyncio loop runs every ready task and every await of a run
returns: the HTTP client has time-outs, and the statements of the database are assumed to return
(`db/session.py` sets none, and PostgreSQL ends a deadlock). Cron fires, signals,
time-outs of the drain, kills and commands are not fair. `FetchRuns` and `Intake` are
checked for safety only, and so is `Rounds`. `HttpClient`: strong fairness of each caller's steps, since
`asyncio.Lock` serves its waiters in turn and every answer, or the time-out of the transport, comes;
weak fairness of time. New requests and what servers do are not fair. `Boards`: weak
fairness of each run's next step, and strong fairness of the scheduler's start of each connector,
since APScheduler fires every job again and again and drops a firing only while another is in
progress. Commands, changes of the world and faults are not fair, and bounded: the three liveness
properties say what the system settles on once they stop. `Review` is checked for safety only;
`NobodyStuck` says that while a transaction is in progress somebody can go on. `Visits`: weak
fairness of each run's next step and strong fairness of its start, as in `Boards`, and weak fairness
of `DaysPass`; faults and commands are not fair, and bounded. `Listing`: weak fairness of
`LoadMore`, a reader who goes on asking; writes are not fair. `Links` and `Regions` are checked
for safety and action properties only: what a sweep reaches is said of a sweep that ends.

## 6. What is proved

All theorems are for every value of the constants that satisfies the named
assumptions (`FieldMergeAssumption`, `ResolutionAssumption`, `FetchAssumption`, `RoundsAssumption`,
`SchedulerAssumption`, `HttpAssumption`, `BoardAssumption`, `ReviewAssumption`, `LinksAssumption`,
`RegionsAssumption`, `ListingAssumption`; the theorem about `Visits` needs none). They give types to
constants and keep model values apart (`Null` is no row, no file and no cursor, "sweep" no process).
What they say besides is the order of `Date`; the finiteness of `Caller`, of `Spelling` and of the ids
in `Listing`, because a sort and a page count what comes before, and of `Filing`, for the cap; that no two filings
have one accession number; that the origins of
`OriginOf` are each in one bucket of `HostOf`; that each board is of one provider; that no two spellings
have one `Rank`, which is the order of strings; that no two jobs of a company are of one posting, no two
candidates of one pair, and none of a company with itself, as the unique indexes and the check of the
schema say of what is stored; and that a URL a form writes has no cursor and asks for one of the two
lists. Whether a file of regions is valid is not assumed: `Valid` is in the model.

* `ResolutionProofs`: `TypesHold`, `DomainsNeverCollide` (`NoIntegrityError`). The
  inductive invariant is `ResolutionInv`. That a domain is free when it is written
  is not inductive: it was found free at an earlier statement. What bridges the two is
  that a run past the advisory lock holds the key of its record, that the key of a
  record with a domain is that domain (`KeyHeld`), and that nobody else writes the domain
  without the key: another run would need it, an update keeps the stored domain or
  fills in its record's (`UpdateFaithful`), and a merge only moves a domain
  between two rows it has locked, waiting for the index if it is in flight
  (`DomainStaysFree`, `Exclusive`).
  `AuthorityIsMonotone` (`AuthorityNeverFalls`). A draft computed
  from the row under FOR UPDATE is never below that row (`DraftNeverLower`), and the
  row cannot change until the draft is committed, because of the row lock; a merge
  only fills fields that have no value, which have no owner either
  (`OwnersHaveValues`).
  `VerdictsAreFinal` (`VerdictIsFinal`) is an action property that rests on the types alone, so no run spends time on it:
  both writers of `pair` leave a resolved one as it is.
  `UpsertsDoNotDeadlock` (`UpsertsNeverDeadlock`). In every set of runs the one that
  is furthest waits for no other of them (`NoCycle`), in the order: waiting for the key, for the row of
  its company, for a company to be named by an insert, by an update, the rest. Whoever waits for the key
  waits for one that has it; whoever waits for a row, for one that is past its own
  (`RowWait`); nobody waits for the domain index (`NoIndexWait`); a run recording
  a pair waits for an update of the other company, and an update records pairs only for a company without a
  domain, about companies that have one (`CandidateWait`). `DeadlockInv` says just
  that: what is held at which statement (`RowsHeld`), what the two companies of a conflict are
  (`ConflictNamed`), and that nobody names an id still being inserted (`NewIdUnnamed`).
  `ConflictsAreQueued` (`DomainConflictQueued`) needs, beside both, `ConflictInv`: what a company holds
  it has held and one that has held a domain holds one, since no writer ever clears it (`HistoryTrue`);
  a stored pair names two companies that exist (`PairsExist`); the KEY SHARE lock of a pair not yet committed
  keeps its other company from being merged away (`SharesHeld`); and an update that found its domain
  taken has recorded the pair or is about to (`ConflictRecorded`). A merge moves what was held with the
  company and repoints the pairs, or finds the survivor paired already, or deletes a verdict, which
  `cleared` then keeps. `cleared` is written where the pair is deleted, for the companies the loss
  concerns: written where the verdict is given it would miss names that move there by later
  merges, and the property would be false of them.
* `SchedulerProofs`, of `FetchRuns`: `NothingIsMissed` (`NothingMissed`) and `RunsKeepThePromise`
  (`PromiseKept`), both under `Uncut`: no `--since` that narrows the scan, no search above the
  cap, a backfill that reaches the first day - without which the runs above show
  counterexamples. Both account for failures: what is not stored was reported by a run that ended
  partial. `FetchInv` adds to the property that everything up to the anchor of a run in
  progress is accounted for, and that a run about to finish as completed has stored
  the rest up to its start, or is partial and about to report it (`WindowSafe`); the lemma `ScanRun`
  says what a scan leaves in its run, and `WindowReaches` is the arithmetic
  of the overlap. For the refinement, `RowsOwned`: the row of a run in flight is its
  own and says error, so that only `Finish` adds a point reached, with what its status allows it to report.
  `StreaksAreNewestErrors` (`StreakIsNewestErrors`), without `Uncut`: newest first is a total order of
  the finished rows (`NewestFirstIsTotal`), so two initial segments of them are one inside the other, and
  the streak is the size of the longest that has only errors (`StreakIsTheNewest`).
* `SchedulerProofs`, of `Scheduler`: `RunsAreSerialized`, `DrainsAreClean`, both from `LockInv` (a job whose
  run is under way is the one that holds the lock, and the lock is not held otherwise);
  `SchedulerRunsConnectors`, every behaviour of the scheduler is one of `FetchRuns`; and
  with it `ProcessMissesNothing`.
* `SchedulerProofs`, of `Rounds`, none of it but the last under `Uncut`: `ColumnsStayNewest`
  (`ColumnsAreNewest`), `FetchesAreScans` (`FetchIsScan`), `NoRunGoesBack` (`RunsGoForward`) and
  `FetchesMissNothing`. `RoundsInv` is inductive beside `RowInv`, which is the part of `FetchInv` that
  does not need `Uncut`: rows, ids, clock and filings. It says of a fetch under way that the filings it is
  through with, each stored or failed and none both, come before what it holds, and both before the day it
  searches next (`InOrder`); that every filing certain to be found in the days behind it is among them,
  or a search overflowed and its window is beyond the cap (`Covered`); of each column it was the last to
  write that this is from a filing it stored, the last of
  those about the column (`LastIsTold`); and that a run about to end ok has no overflow and no failure
  (`Unproblematic`). What `ColumnsAreNewest` asks when `Finish` makes a run ok
  is then a matter of dates (`FinishedNewest`): a filing of the window was found and is stored, and one
  before the window is before whatever was. That it stays so when more is published is `NewestKept`:
  the property asks only of filings shown before the run started, and `NotYet` keeps starts and
  showings at or before the clock. Each step of `Rounds` is then a step of `FetchRuns` or a stutter
  (`RoundsAreRuns`): `FetchDone` is `Scan` (`FetchDoneIsScan`), with the filings stored for its `F` and those
  that failed for its `G`, and `FetchStops` is `FetchFails`. `Scan` puts no bound on how many filings a run takes, because every search has a
  cap of its own.

* `HttpProofs`: `BudgetIsKept`, `RequestsAreSpaced`, `RobotsAreObeyed`, `HttpTypeCorrect`, all from
  `HttpInv`: what was taken from a budget covers the pages sent and the callers that have
  taken and not sent (`Counted`); a sleeper holds its host's lock and the age of the last slot
  plus what is left to sleep is at least the interval and its own origin's delay
  (`Sleeping`), which goes on holding when time passes and when another robots.txt stretches
  the host's interval (`Stretched`); a page past the check has rules that allow it, and rules
  never change (`Allowed`, `Holds`). `OthersKept` says once what a step of a caller may not do
  to the others (`Minds`). `AnswersStayCurrent` adds that every stored entry matches its
  validator and that only a GET is conditional (`AnswerInv`).
* `BoardProofs`: `BoardsTypeCorrect`, `PairStaysIntact` (`PairIntact`), from `BoardInv`, which adds that what
  a run has loaded of a company and what it is about to report are paired as well. The heart is
  `MergeKeepsPair`: `merge_company_fields` decides each column by itself, but of two columns that
  are NULL together and have one owner, and two reported values that are given or absent together, it
  writes both or neither.
  Of `Visits`, which `Queues` instantiates beside it: `IdentifiersStayDistinct` (`IdentifiersDistinct`).
  The invariant is inductive as it stands but for the shape of `ext`: the first thing `Resolve` asks is who
  has the external id, so a record stamps it on the company that has it, or nobody had it.

* `ReviewProofs`: `ReviewTypeCorrect`, `PairsStayWellFormed`, `NotesAreNotLost` (`NotesSurvive`).
  In `ReviewInv`, `SittingOK` keeps the two companies of a line and of a merge apart;
  `MergeApart` says that the companies of a merge exist and no other merge has one of them, which
  the row locks of `Lock` give and every later statement needs; `NotesRead` says that what a merge
  has read of the two notes still holds of those no request has saved since: a merge takes no lock
  on a note, so it is `MergeApart` that keeps other merges away and `late` that names the
  requests. Repointing is the lemma about `Repointed`: of the pairs that would become the same one
  stays.
  `StarsAreNotLost` (`StarsSurvive`). `StarsInv` says that no company has a posting twice, that what a
  merge has rescued are the marks of twins whose counterpart has none, and that it moves the jobs
  without a twin, each but for the rows in `late` (`StarsRead`). What is then left on the discarded
  company has a twin with a row of its own.
  `ShownLinesAreCurrent` (`ShownIsCurrent`). For each line a sitting has still to show, the stored
  candidate is the one it read or what it was about is gone (`LineStands`); while the sitting is alone the jobs
  it read are those stored, or one of the companies is in `stale` (`SummaryStands`). A merge keeps
  both because a job moves onto its survivor only, which it makes stale.
  `ReviewsNeverDeadlock`: while anything is in progress a merge or a request may go on. It is
  `NobodyStuck` with the guards of the actions (`MergeMayGo`, `RequestMayGo`) in the place of
  ENABLED, which the prover cannot expand; TLC finds the two equal in every state of `review`. A merge
  past its locks goes on, or waits for a request that does, or that the detector ends (`MergeGoesOn`); if there is no such
  merge, a request goes on; without requests, a merge takes its locks. `WaitsInv` is that requests have
  different rows in hand (`RequestsApart`), and that a merge has a job in hand only once it has moved it
  and the survivor's note only when no request has it (`SittingHolds`).

* `LinksProofs`: `ConstructedLinksStayRight` (`LinksStayRight`), `SweepsReachEveryCompany`
  (`SweepReachesAll`), `PublishedIsKept` (`PublishedKept`), `MergesLoseNothing`
  (`MergeLosesNothing`). `ReconciledFacts` says what a reconciliation does, whatever it finds: the
  links match the name and domain it was given, and no published contact is touched. That what
  the sweep read of a company still holds when it writes is `Locked` in `LinksInv`: it has the
  row lock, and everybody who changes a name or domain takes it (`CompanySteps`). For the
  sweep as a whole, `SweptRight`: every company at or below its position and not in the rest of
  its page is right. A new page keeps it because no id lies between the position and the page
  (`PageFacts`), and a company made right stays right (`RightKept`), those inserted and merged
  into included.

* `RegionsProofs`: `LocationsAreTakenInOrder` (`CitiesAloneNeverDeadlock`), `LabelsConverge`
  (`LabelsSettle`), `RecipeIsComplete` (`RecipeReachesAll`). Three facts about the operators come
  first: in a valid file one city answers a spelling (`OneCityAnswers`), `Sorted` lists a finite set
  in order and each once (`SortedIsInOrder`, from `PlacesAreTaken`), so the cities of a plan are in order,
  a company updated is before everything else, and all is labelled as the file says (`PlansAreOrdered`).
  `IInv` keeps that of what is left of a plan, puts what
  an upsert holds before what it still wants (`UpsertOk`), and lets the sweep hold a row only when it
  is about to commit it (`SweepOk`). Somebody who holds a row that another waits for, and waits itself, is
  past its own company (`HoldersWait`, `HoldersWantMore`); if it waits for nothing that is unsorted it waits for a city, and so does
  everybody in the cycle, which would be a cycle of the ranks (`NobodyWaitsForCitiesAlone`). The sweep wants a
  row only while it holds none, so nobody waits for it then.
  Labels: only a commit of an upsert or of the sweep writes them, and both write what their own file
  says. For the recipe, `RecipeInv` follows every row that is not right: beyond the
  position, on the page with the label it still has, or being relabelled; `PagesAreNext` is that no
  id lies between a position and the page read from it.

* `ListingProofs`: `SteadyRowsAreShownOnce` (`SteadyRowsShownOnce`), `ListsMeanTheSame` (`RolesAgree`),
  `PanelsReadBack` (`PanelKeepsState`). `OrderBy` is a strict total order of rows that have keys, ties
  and NULLs included (`OrderIsTotal`, `OrderIsTransitive`), and `AfterCursor` for the cursor of a row is the
  same order (`CursorIsTheOrder`), so a page is exactly what remains up to the cursor it
  returns (`PageIsUpToCursor`). `ReaderOK` adds to the property that steady rows match and that
  the cursor is one of the list's own sort, with a page before it. For the two lists, `RowsInv`: a job
  is always of a company that exists, which the merge keeps by moving jobs before it deletes. For
  the panel, `PanelOK` and a lemma for each link: what it leaves out is what the parser fills in.

The type invariants are proved (`TypesHold`, `HttpTypeCorrect`, `BoardsTypeCorrect`,
`ReviewTypeCorrect`, and as parts of `FetchInv`, `LockInv`, `LinksInv`, `IInv`, `RowsInv`); the runs
spend their time on other properties.

Every invariant and every action property of a passing run is proved, but one; so are `VerdictIsFinal`,
`RunsGoForward` and `IdentifiersDistinct` of `Visits`, which no run checks. Only model-checked are:

* liveness (`EveryTransactionEnds`, `EveryFireEnds`, `EveryRequestEnds`, `BoardsMirrored`,
  `CountsSettle`, `MovesFollowed`, `SitesVisited`, `BoardsRead`, `BrowseEnds`), which is out of the prover's
  reach; `UpsertsDoNotDeadlock`, `LocationsAreTakenInOrder` and `ReviewsNeverDeadlock` are the safety
  halves of some of it;
* `NobodyStuck`, for its ENABLED; `ReviewsNeverDeadlock` is the same statement with guards.

## 7. What is not modelled

* In `Resolution`: a second reviewer, who is in `Review`; child rows and their locks, which are in
  `Regions` and `Links` (so `UpsertsNeverDeadlock` says nothing of them); the row locks that an UPDATE of an existing `merge_candidates` row takes;
  the re-select of an INSERT that lost a race and then finds nothing (a RuntimeError that
  takes a merge in the same instant); the fuzzy threshold, which is the relation `Similar`.
* In `FetchRuns`: the counters and texts of a row, and that `error_text` is cut at 4000 characters, so that
  of very many failures the last are only counted; that EDGAR splits a window into one
  query per city, each with its own cap (the model has one cap for a search of all cities); hits of no
  configured city, which are passed over and are not filings of the model; a page of a search that is
  malformed or comes empty too soon, which ends the search without a problem; what the upserts of a run do,
  which is `Resolution` and `Rounds`.
* In `Scheduler`: the web server beside the jobs, and the misfire grace time of APScheduler.
* In `HttpClient`: `aclose`, the cancellation of a caller, the 24 hours of a robots.txt (longer
  than a run), which paths a robots.txt denies, the numbers of the backoff, and headers that
  differ between two requests for one url.
* In `Boards`: the order of the work list (any target may be next), which is in `Visits`; merges and changes of `status` while a run is on; records that resolve to
  another company than their target, or to none; `latest_round_id`; the content of a job beyond its id.
* In `Review`: connector runs, which lock a company before they write its jobs (`Resolution`,
  `Boards`); `list_only` and the limit of a page; the fields a merge fills in, which are in
  `Resolution`; notes on bookmarks; the child rows nobody writes by hand, which are in `Links`. Three things
  it makes no claim about: a process killed between the commit and the printing
  loses the note it was to print; a verdict `n` is stamped on the id of a candidate even if another
  sitting has repointed it; and a form loaded before a merge overwrites the note the merge moved.
  A note saved between the SELECT of a merge and its DELETE or UPDATE may be lost, which is what
  `late` excludes.
* In `Links`: rounds, sectors and sightings, which a merge merely moves; the columns of a contact
  or person beside its key; how a URL is built from a domain, which is `LinkOf` and `SearchOf`; the
  order of two upserts of one company, which the row lock makes one after the other.
* In `Visits`: what a page says, and companies that change their board (`Boards`); merges and
  companies that come or become inactive while runs are on; that a record has a location, which
  none of these connectors reports.
* In `Regions`: country and `is_hq`; the links of a company to its cities, sectors and investors; the
  advisory key, the domain index and the rows of `merge_candidates`, which are in `Resolution`, so a cycle
  through one of these and a city is in neither; the row locks of the refresh at the end of a run; what is printed. A connector may report a metro of its own (`own`): the contract of the upsert
  allows it, though no connector of the repository does.
* In `Listing`: full-text search (`q`), the filters on sectors, stages and rounds, which are
  predicates like those modelled, malformed cursors, the facets and the extras of a card.
* In `Rounds`: a filing without a file number, which is matched by type and date; two companies with
  a round of one file number, after a merge; the investors of a round, and `latest_round_id`; rounds
  reported by other connectors, which `_find_round` keeps apart. That an upsert may fail in
  `Resolution` is the failure of `HandOn`.
* What section 1 calls no state machines - parsers of responses, classifiers, HTML extraction,
  templates, settings - because it maps one value to another without state; its results reach the
  models as the values of records. The login keeps nothing in the database, and the page of
  runs only reads.
