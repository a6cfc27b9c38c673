------------------------------- MODULE Listing -------------------------------
(***************************************************************************)
(* The two lists of the web application, / (companies) and /roles (jobs),  *)
(* and the roles table of one expanded row: what a URL asks for            *)
(* (web/filters.py), the one statement that answers it, with its keyset    *)
(* cursor (db/queries.py), and the URL behind "load more"                  *)
(* (web/templating.py).  A reader goes through the pages while runs,       *)
(* merges and notes change the rows behind them.                           *)
(*                                                                         *)
(* Nothing is stored for the reader: the position is a value of the sort   *)
(* column and an id, carried by the URL.                                   *)
(***************************************************************************)
EXTENDS Integers, FiniteSets

CONSTANTS
    Null,           \* SQL NULL, and an absent parameter or note
    Blank,          \* a parameter that is there and empty, as forms submit it
    CompanyId, JobId,   \* Identity() columns: numbers, in the order of insertion
    NameOf,         \* company -> lower(name), as a rank
    OfficeOf, CityOf, MetroOf,  \* company -> its locations; location -> city, metro
    AmountOf,       \* company -> amount_usd of its latest round, or Null
    OwnerOf,        \* job -> the company it is found at
    PostedOf,       \* job -> posted_at, or Null
    SeenOf,         \* job -> first_seen_at
    Family, FamilyOf, FlexibleOf,   \* role_family and flexible_signal of a job
    Status, Untouched,  \* tracking statuses; Untouched is TrackingStatus.NONE
    FormUrl,        \* the URLs the filter form and bookmarks produce, without cursor
    Limit,          \* PAGE_SIZE
    MaxChanges      \* bound: writes to the rows while the reader browses

VARIABLES
    company,        \* company -> its row, or Null once merged away
    job,            \* job -> its row, or Null while it has none
    changes,        \* bound: writes so far
    pc,             \* "idle", "browsing", "refused" or "panel": what the tab shows
    url,            \* the URL of the page in the tab, or Null while it shows none of a list
    next,           \* the cursor "load more" carries, or Null on the last page
    panel,          \* the URL of the expanded row, or Null
    shown, again,   \* history: the rows this browse has shown, and shown twice
    steady          \* history: matching rows whose key has not changed since its start

rows == <<company, job, changes>>
tab == <<pc, url, next, shown, again>>
vars == <<company, job, changes, pc, url, next, panel, shown, again, steady>>

CompanySort == {"recent_job", "open_roles", "name"}
JobSort == {"posted", "company"}
RoleSort == {"posted", "title"}
DefaultSort(view) == IF view = "companies" THEN "recent_job" ELSE "posted"
SortsOf(view) == IF view = "companies" THEN CompanySort ELSE JobSort
Descending(sort) == sort \in {"recent_job", "open_roles", "posted"}

\* The rows as committed, and a position in a list.
CompanyRow == [open_job_count : Nat, latest_job_posted_at : Nat \union {Null},
               note : Status \union {Null}]
JobRow == [company : CompanyId, open : BOOLEAN]
Cursor == [sort : CompanySort \union JobSort, key : Nat \union {Null}, id : Nat]

ASSUME ListingAssumption ==
    /\ CompanyId \subseteq Nat /\ JobId \subseteq Nat
    /\ IsFiniteSet(CompanyId) /\ IsFiniteSet(JobId)
    /\ Null \notin Nat \union CompanyRow \union JobRow \union Cursor
    /\ Blank \notin CompanySort \union JobSort \union RoleSort \union {"asc", "desc"}
    /\ \A u \in FormUrl :
          /\ u = [view |-> u.view, cities |-> u.cities, metros |-> u.metros,
                  families |-> u.families, tracking |-> u.tracking,
                  amount_min |-> u.amount_min, flexible |-> u.flexible,
                  open_roles |-> u.open_roles, closed |-> u.closed,
                  sort |-> u.sort, cursor |-> Null]
          /\ u.view \in {"companies", "roles"}
    /\ NameOf \in [CompanyId -> Nat]
    /\ OwnerOf \in [JobId -> CompanyId]
    /\ PostedOf \in [JobId -> Nat \union {Null}] /\ SeenOf \in [JobId -> Nat]
    /\ Untouched \in Status /\ Null \notin Status /\ Blank \notin Status
    /\ Blank \notin Family
    /\ Limit \in 1 .. 200 /\ MaxChanges \in Nat

(***************************************************************************)
(* From a URL to a request                                                 *)
(***************************************************************************)

\* _clean, _enum_list: what a repeated parameter says once its blanks are dropped.
Given(values) == values \ {Blank}

\* The filters of a URL: an empty parameter is unset, and an unset filter is no predicate.
Filters(u) ==
    [cities |-> Given(u.cities), metros |-> Given(u.metros), families |-> Given(u.families),
     tracking |-> Given(u.tracking),
     amount_min |-> IF u.amount_min = Blank THEN Null ELSE u.amount_min,
     flexible |-> u.flexible, open_roles |-> u.open_roles, 
     closed |-> u.view = "roles" /\ u.closed]

SortOf(u) == IF u.sort = Blank THEN DefaultSort(u.view) ELSE u.sort

\* A closed vocabulary answers a value it does not have with a 400; a city or a metro, which
\* are strings the connectors stored, with an empty page.  A cursor is good for one sort.
BadRequest(u) ==
    \/ ~(Given(u.families) \subseteq Family)
    \/ ~(Given(u.tracking) \subseteq Status)
    \/ SortOf(u) \notin SortsOf(u.view)
    \/ u.cursor # Null /\ u.cursor.sort # SortOf(u)

(***************************************************************************)
(* The predicates of the statement                                         *)
(***************************************************************************)

\* Two semi-joins: city and metro may be answered by different offices.
CompanyPredicates(f, c) ==
    /\ f.cities # {} => \E o \in OfficeOf[c] : CityOf[o] \in f.cities
    /\ f.metros # {} => \E o \in OfficeOf[c] : MetroOf[o] \in f.metros
    /\ f.amount_min # Null => AmountOf[c] # Null /\ AmountOf[c] >= f.amount_min
    /\ f.open_roles => company[c].open_job_count > 0
    /\ f.tracking # {} => \/ company[c].note \in f.tracking
                          \/ Untouched \in f.tracking /\ company[c].note = Null

JobAttributes(f, j) ==
    /\ f.families # {} => FamilyOf[j] \in f.families
    /\ f.flexible => FlexibleOf[j]

HasJobFilters(f) == f.families # {} \/ f.flexible

JobsAt(c) == {j \in JobId : job[j] # Null /\ job[j].company = c}
OpenAt(c) == {j \in JobsAt(c) : job[j].open}

\* Mutant of OpenJobsExist: without closed_at IS NULL.
JobsExist(f, c) == \E j \in JobsAt(c) : JobAttributes(f, j)

OpenJobsExist(f, c) == \E j \in OpenAt(c) : JobAttributes(f, j)

CompanyRows(f) ==
    {c \in CompanyId : /\ company[c] # Null
                       /\ CompanyPredicates(f, c)
                       /\ HasJobFilters(f) => OpenJobsExist(f, c)}

JobRows(f) ==
    {j \in JobId : /\ job[j] # Null
                   /\ CompanyPredicates(f, job[j].company)
                   /\ JobAttributes(f, j)
                   /\ f.closed \/ job[j].open}

Matching(u) == IF u.view = "companies" THEN CompanyRows(Filters(u)) ELSE JobRows(Filters(u))

(***************************************************************************)
(* The order, the cursor and the page                                      *)
(***************************************************************************)

SortKey(sort, r) ==
    CASE sort = "recent_job" -> company[r].latest_job_posted_at
      [] sort = "open_roles" -> company[r].open_job_count
      [] sort = "name"       -> NameOf[r]
      [] sort = "posted"     -> PostedOf[r]
      [] sort = "company"    -> NameOf[job[r].company]

\* One value lies beyond another in the direction of the sort.
Beyond(sort, k, l) == IF Descending(sort) THEN k < l ELSE k > l

\* ORDER BY <column> <direction> NULLS LAST, id ASC.
OrderBy(sort, q, r) ==
    LET k == SortKey(sort, q)
        l == SortKey(sort, r)
    IN  \/ k # Null /\ l = Null
        \/ k # Null /\ l # Null /\ Beyond(sort, l, k)
        \/ k = l /\ q < r

\* Mutant of AfterCursor: a tie at the position is taken to lie beyond it.
AfterCursorOrTied(cursor, r) ==
    LET k == SortKey(cursor.sort, r)
    IN  IF cursor.key = Null
        THEN k = Null /\ r > cursor.id
        ELSE \/ k # Null /\ Beyond(cursor.sort, k, cursor.key)
             \/ k = cursor.key
             \/ k = Null

\* Mutant of AfterCursor: the tail of NULLs starts again with its first row.
AfterCursorInTail(cursor, r) ==
    LET k == SortKey(cursor.sort, r)
    IN  \/ k # Null /\ cursor.key # Null /\ Beyond(cursor.sort, k, cursor.key)
        \/ k = cursor.key /\ r > cursor.id
        \/ k = Null

\* The WHERE of the next page, written from the cursor alone.
AfterCursor(cursor, r) ==
    LET k == SortKey(cursor.sort, r)
    IN  IF cursor.key = Null
        THEN k = Null /\ r > cursor.id
        ELSE \/ k # Null /\ Beyond(cursor.sort, k, cursor.key)
             \/ k = cursor.key /\ r > cursor.id
             \/ k = Null

\* ORDER BY ... LIMIT n.
FirstOf(sort, S, n) == {r \in S : Cardinality({q \in S : OrderBy(sort, q, r)}) < n}

LastOf(sort, S) == CHOOSE r \in S : \A q \in S : q = r \/ OrderBy(sort, q, r)

Remaining(u) == {r \in Matching(u) : u.cursor = Null \/ AfterCursor(u.cursor, r)}
PageRows(u) == FirstOf(SortOf(u), Remaining(u), Limit)

\* The row over the limit is fetched to know that there is one, and never shown.
NextCursor(u) ==
    LET fetched == FirstOf(SortOf(u), Remaining(u), Limit + 1)
        last == LastOf(SortOf(u), PageRows(u))
    IN  IF Cardinality(fetched) > Limit
        THEN [sort |-> SortOf(u), key |-> SortKey(SortOf(u), last), id |-> last]
        ELSE Null

(***************************************************************************)
(* What runs, merges and requests do to the rows meanwhile                 *)
(***************************************************************************)

Larger(S) == CHOOSE t \in S : \A s \in S : s <= t

\* A company's row, with the denormalized columns as the jobs table, t, has them.
Refreshed(c, t, note) ==
    LET open == {j \in JobId : t[j] # Null /\ t[j].company = c /\ t[j].open}
        seen == {IF PostedOf[j] = Null THEN SeenOf[j] ELSE PostedOf[j] : j \in open}
    IN  [open_job_count |-> Cardinality(open),
         latest_job_posted_at |-> IF open = {} THEN Null ELSE Larger(seen),
         note |-> note]

\* A row is steady as long as it matches and keeps its sort key.
Steady == steady' = {r \in steady : /\ r \in Matching(url)'
                                    /\ SortKey(SortOf(url), r)' = SortKey(SortOf(url), r)}

World ==
    /\ changes < MaxChanges
    /\ changes' = changes + 1
    /\ UNCHANGED <<tab, panel>>
    /\ Steady

\* A run stores a job, or closes one; the columns of its company wait for the refresh.
PostJob(j) ==
    /\ job[j] = Null /\ company[OwnerOf[j]] # Null
    /\ job' = [job EXCEPT ![j] = [company |-> OwnerOf[j], open |-> TRUE]]
    /\ UNCHANGED company
    /\ World

CloseJob(j) ==
    /\ job[j] # Null /\ job[j].open
    /\ job' = [job EXCEPT ![j].open = FALSE]
    /\ UNCHANGED company
    /\ World

\* refresh_company_denormalized_columns at the end of a run.
Refresh(c) ==
    /\ company[c] # Null
    /\ company' = [company EXCEPT ![c] = Refreshed(c, job, company[c].note)]
    /\ UNCHANGED job
    /\ World

\* merge_companies: the jobs and the note move, the row goes, the survivor is refreshed.
MergeCompanies(keep, drop) ==
    /\ keep # drop /\ company[keep] # Null /\ company[drop] # Null
    /\ job' = [j \in JobId |-> IF j \in JobsAt(drop) THEN [job[j] EXCEPT !.company = keep]
                               ELSE job[j]]
    /\ company' = [company EXCEPT
                     ![drop] = Null,
                     ![keep] = Refreshed(keep, job', IF company[keep].note = Null
                                                     THEN company[drop].note
                                                     ELSE company[keep].note)]
    /\ World

SaveNote(c, s) ==
    /\ company[c] # Null /\ company[c].note # s
    /\ company' = [company EXCEPT ![c].note = s]
    /\ UNCHANGED job
    /\ World

(***************************************************************************)
(* The reader                                                              *)
(***************************************************************************)

\* A request is refused with a 400, or answered with a page; seen is what the tab has shown.
Serve(u, seen) ==
    /\ url' = u
    /\ IF BadRequest(u)
       THEN /\ pc' = "refused" /\ next' = Null
            /\ shown' = {} /\ again' = {} /\ steady' = {}
       ELSE /\ pc' = "browsing" /\ next' = NextCursor(u)
            /\ shown' = seen \union PageRows(u)
            /\ again' = again \union (seen \intersect PageRows(u))
            /\ steady' = IF seen = {} THEN Matching(u) ELSE steady
    /\ UNCHANGED <<rows, panel>>

\* The form, a link or a bookmark: always a first page.
Open(u) ==
    /\ pc \in {"idle", "refused"}
    /\ Serve(u, {})

\* next_page_url: this URL with the new cursor.
LoadMore ==
    /\ pc = "browsing" /\ next # Null
    /\ Serve([url EXCEPT !.cursor = next], shown)

\* A URL edited by hand: another sort, with the cursor left in.
EditSort(sort) ==
    /\ pc = "browsing" /\ url.cursor # Null /\ sort # SortOf(url)
    /\ Serve([url EXCEPT !.sort = sort], shown)

(***************************************************************************)
(* The roles table of an expanded row                                      *)
(***************************************************************************)

RoleSortDescending(sort) == sort = "posted"

Highlight(p) == [families |-> Given(p.families), flexible |-> p.flexible]

\* panel_controls: how a URL says the table is sorted and narrowed.
Controls(p) ==
    LET sort == IF p.sort = Blank THEN "posted" ELSE p.sort
    IN  [sort |-> sort,
         descending |-> IF p.dir = Blank THEN RoleSortDescending(sort) ELSE p.dir = "desc",
         title_q |-> IF p.title_q = Blank THEN Null ELSE p.title_q,
         include_closed |-> p.include_closed]

\* Mutant of PanelUrl: the direction is left out when it is ascending.
PanelUrlDescending(p, k) ==
    [company |-> p.company, families |-> Given(p.families), flexible |-> p.flexible,
     sort |-> IF k.sort = "posted" THEN Blank ELSE k.sort,
     dir |-> IF k.descending THEN "desc" ELSE Blank,
     title_q |-> IF k.title_q = Null THEN Blank ELSE k.title_q,
     include_closed |-> k.include_closed]

\* panel_query_string: only what differs from the default.
PanelUrl(p, k) ==
    [company |-> p.company, families |-> Given(p.families), flexible |-> p.flexible,
     sort |-> IF k.sort = "posted" THEN Blank ELSE k.sort,
     dir |-> IF k.descending = RoleSortDescending(k.sort) THEN Blank
             ELSE IF k.descending THEN "desc" ELSE "asc",
     title_q |-> IF k.title_q = Null THEN Blank ELSE k.title_q,
     include_closed |-> k.include_closed]

\* The header of the sorted column reverses it; any other starts in its own direction.
RoleSortLink(sort, k) ==
    [k EXCEPT !.sort = sort,
              !.descending = IF k.sort = sort THEN ~k.descending ELSE RoleSortDescending(sort)]

\* The toggle of a collapsed row: the page's job filters, and no control.
Expand(c) ==
    /\ pc = "browsing" /\ url.view = "companies" /\ c \in shown /\ company[c] # Null
    /\ pc' = "panel"
    /\ panel' = [company |-> c, families |-> Filters(url).families,
                 flexible |-> Filters(url).flexible, sort |-> Blank, dir |-> Blank,
                 title_q |-> Blank, include_closed |-> FALSE]
    /\ url' = Null /\ next' = Null /\ shown' = {} /\ again' = {} /\ steady' = {}
    /\ UNCHANGED rows

InPanel == pc = "panel" /\ company[panel.company] # Null /\ UNCHANGED <<rows, tab, steady>>

ClickHeader(sort) ==
    /\ InPanel
    /\ panel' = PanelUrl(panel, RoleSortLink(sort, Controls(panel)))

\* The form of the table submits every field it has, the sort among them.
NarrowRoles(title_q, include_closed) ==
    /\ InPanel
    /\ LET k == Controls(panel)
       IN  panel' = [panel EXCEPT !.sort = k.sort,
                                  !.dir = IF k.descending THEN "desc" ELSE "asc",
                                  !.title_q = title_q, !.include_closed = include_closed]

ShowEveryRole ==
    /\ InPanel
    /\ panel' = PanelUrl(panel, [Controls(panel) EXCEPT !.title_q = Null,
                                                        !.include_closed = FALSE])

(***************************************************************************)
(* The specification                                                       *)
(***************************************************************************)

\* Rows as some run has left them: jobs at their owners, columns refreshed.
Init ==
    /\ job \in {t \in [JobId -> [company : CompanyId, open : {TRUE}] \union {Null}] :
                    \A j \in JobId : t[j] # Null => t[j].company = OwnerOf[j]}
    /\ company = [c \in CompanyId |-> Refreshed(c, job, Null)]
    /\ changes = 0
    /\ pc = "idle" /\ url = Null /\ next = Null /\ panel = Null
    /\ shown = {} /\ again = {} /\ steady = {}

Write ==
    \/ \E j \in JobId : PostJob(j) \/ CloseJob(j)
    \/ \E c \in CompanyId : Refresh(c)
    \/ \E keep, drop \in CompanyId : MergeCompanies(keep, drop)
    \/ \E c \in CompanyId, s \in Status : SaveNote(c, s)

Browse ==
    \/ \E u \in FormUrl : Open(u)
    \/ LoadMore
    \/ \E s \in CompanySort \union JobSort : EditSort(s)

Unfold ==
    \/ \E c \in CompanyId : Expand(c)
    \/ \E s \in RoleSort : ClickHeader(s)
    \/ \E q \in {Blank, "engineer"}, closed \in BOOLEAN : NarrowRoles(q, closed)
    \/ ShowEveryRole

Next == Write \/ Browse \/ Unfold

Spec == Init /\ [][Next]_vars

\* A reader who goes on asking for more.
PatientSpec == Spec /\ WF_vars(LoadMore)

(***************************************************************************)
(* Properties                                                              *)
(***************************************************************************)

\* A row that matches, and keeps its sort key, from the first page on is shown once: at any
\* moment exactly the steady rows before the position of the reader have been shown, whatever
\* else is inserted, moved, merged away or reordered; on the last page, all of them.  NULLs
\* and ties are where _order_by and _after_cursor could disagree.
SteadyRowsShownOnce ==
    pc = "browsing" =>
        /\ steady \intersect again = {}
        /\ \A r \in steady : r \in shown <=> (next = Null \/ ~AfterCursor(next, r))

\* "The filters mean the same thing in both": a company is on / under role filters if and only
\* if one of its open roles is on /roles under the same ones.  Holds of the rows as they are,
\* denormalized columns included, in every state between two refreshes.
RolesAgree ==
    \A u \in FormUrl :
        HasJobFilters(Filters(u)) /\ ~BadRequest(u) =>
            CompanyRows(Filters(u)) =
                {job[j].company : j \in JobRows([Filters(u) EXCEPT !.closed = FALSE])}

\* A reader who goes on asking comes to the end of the list, once the rows stop changing: a
\* cursor never leads back to where it was, in the tail of NULLs neither.
BrowseEnds == (pc = "browsing") ~> (pc # "browsing" \/ next = Null)

\* In the roles table, sorting keeps what the row's own search narrowed and narrowing keeps the
\* sort; a new column starts in its own direction and the sorted one is reversed; and what the
\* list was filtered by goes on being highlighted, through URLs that leave out what is at its
\* default.
PanelKeepsState ==
    [][/\ pc = "browsing" /\ pc' = "panel" =>
            Highlight(panel') = [families |-> Filters(url).families,
                                 flexible |-> Filters(url).flexible]
       /\ pc = "panel" =>
            LET k == Controls(panel)
                l == Controls(panel')
            IN  /\ Highlight(panel') = Highlight(panel)
                /\ \A s \in RoleSort : ClickHeader(s) =>
                        /\ l.sort = s
                        /\ l.descending = IF s = k.sort THEN ~k.descending
                                          ELSE RoleSortDescending(s)
                /\ \/ l.sort = k.sort /\ l.descending = k.descending
                   \/ l.title_q = k.title_q /\ l.include_closed = k.include_closed]_vars
=============================================================================
