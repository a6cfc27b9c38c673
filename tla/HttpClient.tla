----------------------------- MODULE HttpClient -----------------------------
(***************************************************************************)
(* The shared HTTP client of a run (ingest/http.py): robots.txt, the       *)
(* request budget and the spacing of each host, retries, redirects and     *)
(* conditional requests, for callers that may overlap.                     *)
(*                                                                         *)
(* An action is what a caller does between two awaits.  Time is counted,   *)
(* not dated: since[h] is how long ago host h was last sent a request, and *)
(* a sleeper has a number of ticks left; it may wake late, never early.    *)
(***************************************************************************)
EXTENDS Integers, FiniteSets

CONSTANTS
    Caller,        \* who calls request
    Url, Host, Origin,
    Asked,         \* the requests callers make: [url, method]
    HostOf,        \* _rate_key: the bucket a url is budgeted and spaced in
    OriginOf,      \* _robots_key: scheme, host and port; one bucket has several
    RespectRobots, \* respect_robots
    MinInterval,   \* rate_limit.min_interval, in ticks
    Rules,         \* what robots.txt files say: the urls they deny, their Crawl-delay
    Backoff,       \* what _wait_before_retry may return
    Far,           \* bound: ticks are counted up to here
    Budget,        \* max_requests_per_host_per_run
    MaxAttempts, MaxRedirects,
    CacheTtl,      \* CACHE_TTL_SECONDS, in ticks
    MaxVersion,    \* bound: how often the content of a url changes
    SharedCache,   \* a FileCache, which other processes write too
    Null

Version == 0..MaxVersion
Method == {"GET", "HEAD", "POST"}

\* The values of the cache, of a caller's request and of its attempt.
Entry == [body: Version \cup {Null}, tag: Version, age: 0..CacheTtl]
Req == [url: Url, method: Method, hop: 0..MaxRedirects]
Try == [kind: {"page", "robots"}, host: Host, hop: 0..MaxRedirects,
        attempt: 1..MaxAttempts, wait: 0..Far,
        entry: Entry \cup {Null}, seen: Version \cup {Null}]

ASSUME HttpAssumption ==
    /\ IsFiniteSet(Caller)
    /\ HostOf \in [Url -> Host]
    /\ OriginOf \in [Url -> Origin]
    /\ \A u, v \in Url : OriginOf[u] = OriginOf[v] => HostOf[u] = HostOf[v]
    /\ Asked \subseteq [url: Url, method: Method]
    /\ RespectRobots \in BOOLEAN /\ SharedCache \in BOOLEAN
    /\ Far \in Nat /\ MinInterval \in 0..Far
    /\ Rules \subseteq [deny: SUBSET Url, delay: 0..Far] /\ Backoff \subseteq 0..Far
    /\ Budget \in Nat \ {0}
    /\ MaxAttempts \in Nat \ {0} /\ MaxRedirects \in Nat
    /\ CacheTtl \in Nat /\ MaxVersion \in Nat
    /\ Null \notin Int /\ Null \notin Caller /\ Null \notin Rules
    /\ Null \notin Entry /\ Null \notin Req /\ Null \notin Try

VARIABLES
    page,       \* page[u]: the version of its content the server has
    cache,      \* cache[u]: body, validator and age of the stored response
    robots,     \* robots[o]: what the origin's robots.txt says, Null unless fetched
    delay,      \* _crawl_delays
    since,      \* since[h]: the age of _last_slot_at, Null before the first slot
    used,       \* _budget_used
    hostLock,   \* who waits for the slot of a host, holding its lock
    robotsLock, \* who fetches the robots.txt of an origin, holding its lock
    pc,         \* where a caller is
    req,        \* its request: url, method, redirects followed
    try,        \* the attempt it makes: for a page or a robots.txt, at which host
    answer,     \* history: the body it was given, and the server's when it answered
    pages       \* history: page requests sent to a host

shared == <<page, cache>>
limits == <<robots, delay, since, used, hostLock, robotsLock>>
vars == <<shared, limits, pc, req, try, answer, pages>>

NewTry(kind, host) ==
    [kind |-> kind, host |-> host, hop |-> 0, attempt |-> 1, wait |-> 0,
     entry |-> Null, seen |-> Null]

Init ==
    /\ page = [u \in Url |-> 0]
    /\ cache = [u \in Url |-> Null]
    /\ robots = [o \in Origin |-> Null]
    /\ delay = [h \in Host |-> 0]
    /\ since = [h \in Host |-> Null]
    /\ used = [h \in Host |-> 0]
    /\ hostLock = [h \in Host |-> Null]
    /\ robotsLock = [o \in Origin |-> Null]
    /\ pc = [c \in Caller |-> "idle"]
    /\ req = [c \in Caller |-> Null]
    /\ try = [c \in Caller |-> Null]
    /\ answer = [c \in Caller |-> Null]
    /\ pages = [h \in Host |-> 0]

-----------------------------------------------------------------------------
(***************************************************************************)
(* Time, the servers and the other clients of the cache                    *)
(***************************************************************************)

Older(age, bound) == IF age < bound THEN age + 1 ELSE bound

Tick ==
    /\ since' = [h \in Host |-> IF since[h] = Null THEN Null ELSE Older(since[h], Far)]
    /\ cache' = [u \in Url |-> IF cache[u] = Null THEN Null
                               ELSE [cache[u] EXCEPT !.age = Older(@, CacheTtl)]]
    /\ try' = [c \in Caller |-> IF try[c] = Null \/ try[c].wait = 0 THEN try[c]
                                ELSE [try[c] EXCEPT !.wait = @ - 1]]
    /\ UNCHANGED <<page, robots, delay, used, hostLock, robotsLock, pc, req, answer, pages>>

Edit(u) ==
    /\ page[u] < MaxVersion
    /\ page' = [page EXCEPT ![u] = @ + 1]
    /\ UNCHANGED <<cache, limits, pc, req, try, answer, pages>>

\* A run of another process stores what it was sent, maybe a while ago, in the
\* directory of the FileCache they share.
StoreByOther(u) ==
    /\ SharedCache
    /\ \E v \in 0..page[u] : cache' = [cache EXCEPT ![u] = [body |-> v, tag |-> v, age |-> 0]]
    /\ UNCHANGED <<page, limits, pc, req, try, answer, pages>>

-----------------------------------------------------------------------------
(***************************************************************************)
(* request                                                                 *)
(***************************************************************************)

\* Where the next hop of a request starts.
HopStart == IF RespectRobots THEN "robots" ELSE "budget"

Request(c) ==
    /\ pc[c] = "idle"
    /\ \E a \in Asked :
        /\ req' = [req EXCEPT ![c] = [url |-> a.url, method |-> a.method, hop |-> 0]]
        /\ try' = [try EXCEPT ![c] = NewTry("page", HostOf[a.url])]
    /\ pc' = [pc EXCEPT ![c] = HopStart]
    /\ answer' = [answer EXCEPT ![c] = Null]
    /\ UNCHANGED <<shared, limits, pages>>

\* request returns or raises.
Leave(c) ==
    /\ pc' = [pc EXCEPT ![c] = "idle"]
    /\ req' = [req EXCEPT ![c] = Null]
    /\ try' = [try EXCEPT ![c] = Null]

-----------------------------------------------------------------------------
(***************************************************************************)
(* robots.txt                                                              *)
(***************************************************************************)

\* _check_robots, once the rules are there: the page is tried or RobotsDisallowed
\* is raised.
Admit(c, deny) ==
    IF req[c].url \in deny
    THEN Leave(c)
    ELSE /\ pc' = [pc EXCEPT ![c] = "budget"]
         /\ try' = [try EXCEPT ![c] = NewTry("page", HostOf[req[c].url])]
         /\ UNCHANGED req

\* _robots_for holds the origin's lock; what was fetched before is used, for it is
\* kept longer than any run takes.
RobotsKnown(c) ==
    LET o == OriginOf[req[c].url] IN
    /\ pc[c] = "robots"
    /\ robotsLock[o] = Null /\ robots[o] # Null
    /\ Admit(c, robots[o].deny)
    /\ UNCHANGED <<shared, limits, answer, pages>>

FetchRobots(c) ==
    LET o == OriginOf[req[c].url] IN
    /\ pc[c] = "robots"
    /\ robotsLock[o] = Null /\ robots[o] = Null
    /\ robotsLock' = [robotsLock EXCEPT ![o] = c]
    /\ try' = [try EXCEPT ![c] = NewTry("robots", HostOf[req[c].url])]
    /\ pc' = [pc EXCEPT ![c] = "slot"]
    /\ UNCHANGED <<shared, robots, delay, since, used, hostLock, req, answer, pages>>

\* _fetch_robots ends: parsed, or missing (nothing is denied), or out of reach
\* (everything is).  A longer Crawl-delay stretches the interval of the bucket.
RobotsAnswered(c) ==
    LET o == OriginOf[req[c].url]
        h == HostOf[req[c].url]
    IN
    /\ pc[c] = "sent" /\ try[c].kind = "robots"
    /\ \E rules \in Rules :
        /\ robots' = [robots EXCEPT ![o] = rules]
        /\ delay' = [delay EXCEPT ![h] = IF rules.delay > @ THEN rules.delay ELSE @]
        /\ Admit(c, rules.deny)
    /\ robotsLock' = [robotsLock EXCEPT ![o] = Null]
    /\ UNCHANGED <<shared, since, used, hostLock, answer, pages>>

\* Mutant of RobotsRedirected: the hops of a robots.txt are not counted.
RobotsRedirectedAgain(c) ==
    /\ pc[c] = "sent" /\ try[c].kind = "robots"
    /\ \E h \in Host : try' = [try EXCEPT ![c] = NewTry("robots", h)]
    /\ pc' = [pc EXCEPT ![c] = "slot"]
    /\ UNCHANGED <<shared, limits, req, answer, pages>>

\* _get_robots follows a redirect, to whatever host.
RobotsRedirected(c) ==
    /\ pc[c] = "sent" /\ try[c].kind = "robots"
    /\ try[c].hop < MaxRedirects
    /\ \E h \in Host :
        try' = [try EXCEPT ![c] = [NewTry("robots", h) EXCEPT !.hop = try[c].hop + 1]]
    /\ pc' = [pc EXCEPT ![c] = "slot"]
    /\ UNCHANGED <<shared, limits, req, answer, pages>>

-----------------------------------------------------------------------------
(***************************************************************************)
(* One attempt                                                             *)
(***************************************************************************)

\* Mutant of TakeBudget: the comparison is off by one.
TakeBudgetLate(c) ==
    LET h == try[c].host IN
    /\ pc[c] = "budget"
    /\ used[h] <= Budget
    /\ used' = [used EXCEPT ![h] = @ + 1]
    /\ pc' = [pc EXCEPT ![c] = "slot"]
    /\ UNCHANGED <<shared, robots, delay, since, hostLock, robotsLock, req, try, answer, pages>>

\* _take_budget: taken before the slot and never given back, or HostBudgetExceeded.
TakeBudget(c) ==
    LET h == try[c].host IN
    /\ pc[c] = "budget"
    /\ IF used[h] < Budget
       THEN /\ used' = [used EXCEPT ![h] = @ + 1]
            /\ pc' = [pc EXCEPT ![c] = "slot"]
            /\ UNCHANGED <<req, try>>
       ELSE Leave(c) /\ UNCHANGED used
    /\ UNCHANGED <<shared, robots, delay, since, hostLock, robotsLock, answer, pages>>

\* _fresh_entry: what makes the request conditional.
FreshEntry(u) == IF cache[u] # Null /\ cache[u].age < CacheTtl THEN cache[u] ELSE Null

\* The slot is taken and the request goes out: there is no await in between.
Send(c) ==
    LET h == try[c].host
        isPage == try[c].kind = "page"
    IN
    /\ since' = [since EXCEPT ![h] = 0]
    /\ pages' = [pages EXCEPT ![h] = IF isPage THEN @ + 1 ELSE @]
    /\ try' = [try EXCEPT ![c].entry = IF isPage /\ req[c].method = "GET"
                                       THEN FreshEntry(req[c].url) ELSE Null]
    /\ pc' = [pc EXCEPT ![c] = "sent"]

Interval(h) == IF delay[h] > MinInterval THEN delay[h] ELSE MinInterval
TooSoon(h) == since[h] # Null /\ since[h] < Interval(h)

\* Mutant of Slot: the sleep is after the lock.
SlotSleepsUnlocked(c) ==
    LET h == try[c].host IN
    /\ pc[c] = "slot"
    /\ \/ ~ TooSoon(h) /\ Send(c)
       \/ /\ TooSoon(h)
          /\ try' = [try EXCEPT ![c].wait = Interval(h) - since[h]]
          /\ pc' = [pc EXCEPT ![c] = "sleep"]
          /\ UNCHANGED <<since, pages>>
    /\ UNCHANGED <<shared, robots, delay, used, hostLock, robotsLock, req, answer>>

\* _wait_for_slot: the host's lock is held over the sleep.
Slot(c) ==
    LET h == try[c].host IN
    /\ pc[c] = "slot"
    /\ hostLock[h] = Null
    /\ \/ ~ TooSoon(h) /\ Send(c) /\ UNCHANGED hostLock
       \/ /\ TooSoon(h)
          /\ hostLock' = [hostLock EXCEPT ![h] = c]
          /\ try' = [try EXCEPT ![c].wait = Interval(h) - since[h]]
          /\ pc' = [pc EXCEPT ![c] = "sleep"]
          /\ UNCHANGED <<since, pages>>
    /\ UNCHANGED <<shared, robots, delay, used, robotsLock, req, answer>>

Wake(c) ==
    /\ pc[c] = "sleep"
    /\ try[c].wait = 0
    /\ Send(c)
    /\ hostLock' = [hostLock EXCEPT ![try[c].host] = Null]
    /\ UNCHANGED <<shared, robots, delay, used, robotsLock, req, answer>>

\* The server deals with a page request; its answer is under way.
Serve(c) ==
    /\ pc[c] = "sent" /\ try[c].kind = "page"
    /\ try' = [try EXCEPT ![c].seen = page[req[c].url]]
    /\ pc' = [pc EXCEPT ![c] = "served"]
    /\ UNCHANGED <<shared, limits, req, answer, pages>>

\* The body of a response; a HEAD has none.
Body(c) == IF req[c].method = "HEAD" THEN Null ELSE try[c].seen

\* Mutant of Storable: the validators of a HEAD are stored.
StorableAny(c) == req[c].method # "POST"

\* _store: only a GET, and only if it has a validator.
Storable(c) == req[c].method = "GET"

Answer(c, body) ==
    answer' = [answer EXCEPT ![c] = [body |-> body, truth |-> Body(c)]]

\* 2xx, or a redirect that a POST does not follow.  Nothing is stored without a
\* validator, or if the disk is full: the cache is an optimisation.
Answered(c) ==
    LET u == req[c].url IN
    /\ pc[c] = "served"
    /\ \/ Storable(c) /\ cache' = [cache EXCEPT ![u] = [body |-> Body(c), tag |-> try[c].seen, age |-> 0]]
       \/ UNCHANGED cache
    /\ Answer(c, Body(c))
    /\ Leave(c)
    /\ UNCHANGED <<page, limits, pages>>

\* 304: the entry the request was sent with is replayed and its clock restarted.
NotModified(c) ==
    /\ pc[c] = "served"
    /\ try[c].entry # Null /\ try[c].entry.tag = try[c].seen
    /\ \/ cache' = [cache EXCEPT ![req[c].url] = [try[c].entry EXCEPT !.age = 0]]
       \/ UNCHANGED cache
    /\ Answer(c, try[c].entry.body)
    /\ Leave(c)
    /\ UNCHANGED <<page, limits, pages>>

\* Mutant of Redirected: robots.txt is asked for the first hop only.
RedirectedUnasked(c) ==
    /\ pc[c] = "served"
    /\ req[c].method # "POST" /\ req[c].hop < MaxRedirects
    /\ \E u \in Url :
        /\ req' = [req EXCEPT ![c] = [url |-> u, method |-> req[c].method, hop |-> req[c].hop + 1]]
        /\ try' = [try EXCEPT ![c] = NewTry("page", HostOf[u])]
    /\ pc' = [pc EXCEPT ![c] = "budget"]
    /\ UNCHANGED <<shared, limits, answer, pages>>

\* A redirect of a GET or HEAD: the next hop passes robots, budget and slot anew.
Redirected(c) ==
    /\ pc[c] = "served"
    /\ req[c].method # "POST" /\ req[c].hop < MaxRedirects
    /\ \E u \in Url :
        /\ req' = [req EXCEPT ![c] = [url |-> u, method |-> req[c].method, hop |-> req[c].hop + 1]]
        /\ try' = [try EXCEPT ![c] = NewTry("page", HostOf[u])]
    /\ pc' = [pc EXCEPT ![c] = HopStart]
    /\ UNCHANGED <<shared, limits, answer, pages>>

\* A transport error or a retryable status: _wait_before_retry.
Retry(c) ==
    /\ pc[c] \in {"sent", "served"}
    /\ try[c].attempt < MaxAttempts
    /\ \E w \in Backoff :
        try' = [try EXCEPT ![c] = [NewTry(try[c].kind, try[c].host) EXCEPT
                                       !.hop = try[c].hop, !.attempt = try[c].attempt + 1, !.wait = w]]
    /\ pc' = [pc EXCEPT ![c] = "backoff"]
    /\ UNCHANGED <<shared, limits, req, answer, pages>>

\* Mutant of RetryNow: the budget is taken once for all attempts.
RetryForFree(c) ==
    /\ pc[c] = "backoff"
    /\ try[c].wait = 0
    /\ pc' = [pc EXCEPT ![c] = "slot"]
    /\ UNCHANGED <<shared, limits, req, try, answer, pages>>

RetryNow(c) ==
    /\ pc[c] = "backoff"
    /\ try[c].wait = 0
    /\ pc' = [pc EXCEPT ![c] = IF try[c].kind = "page" THEN "budget" ELSE "slot"]
    /\ UNCHANGED <<shared, limits, req, try, answer, pages>>

\* Another status, an error on the last attempt, or one redirect too many.
GiveUp(c) ==
    /\ pc[c] \in {"sent", "served"} /\ try[c].kind = "page"
    /\ Leave(c)
    /\ UNCHANGED <<shared, limits, answer, pages>>

-----------------------------------------------------------------------------
Step(c) ==
    \/ RobotsKnown(c) \/ FetchRobots(c) \/ RobotsAnswered(c) \/ RobotsRedirected(c)
    \/ TakeBudget(c) \/ Slot(c) \/ Wake(c)
    \/ Answered(c) \/ NotModified(c) \/ Redirected(c)
    \/ Retry(c) \/ RetryNow(c) \/ GiveUp(c)

Next ==
    \/ Tick
    \/ \E u \in Url : Edit(u) \/ StoreByOther(u)
    \/ \E c \in Caller : Request(c) \/ Serve(c) \/ Step(c)

\* Time passes; a caller goes on when its await returns, which an answer or the
\* time-out of the transport sees to, and asyncio.Lock serves callers in turn.
Fairness == WF_vars(Tick) /\ \A c \in Caller : SF_vars(Step(c))

Spec == Init /\ [][Next]_vars
FairSpec == Spec /\ Fairness

-----------------------------------------------------------------------------
(***************************************************************************)
(* Properties                                                              *)
(***************************************************************************)

\* The type of every variable.
TypeOK ==
    /\ page \in [Url -> Version]
    /\ cache \in [Url -> Entry \cup {Null}]
    /\ robots \in [Origin -> Rules \cup {Null}]
    /\ delay \in [Host -> 0..Far]
    /\ since \in [Host -> 0..Far \cup {Null}]
    /\ used \in [Host -> 0..Budget]
    /\ hostLock \in [Host -> Caller \cup {Null}]
    /\ robotsLock \in [Origin -> Caller \cup {Null}]
    /\ pc \in [Caller -> {"idle", "robots", "budget", "slot", "sleep", "sent", "served", "backoff"}]
    /\ req \in [Caller -> Req \cup {Null}]
    /\ try \in [Caller -> Try \cup {Null}]
    /\ pages \in [Host -> Nat]
    /\ \A c \in Caller : pc[c] # "idle" => req[c] # Null /\ try[c] # Null

\* No host is sent more pages in a run than its budget, retries and redirect hops
\* included, whatever the callers ask for (SPEC section 4, design decision 11).
BudgetKept == \A h \in Host : pages[h] <= Budget

\* What goes out at a step, if anything does.
Sends(c) == pc[c] # "sent" /\ pc'[c] = "sent"

\* Requests to one host are MinInterval apart, whatever they are: pages, retries,
\* redirect hops, robots.txt files of any of the host's origins, of callers that
\* overlap; and a page also keeps the Crawl-delay of its own origin.
Spaced(c) ==
    LET h == try[c].host IN
    since[h] # Null =>
        /\ since[h] >= MinInterval
        /\ (try[c].kind = "page" /\ RespectRobots) =>
              since[h] >= robots[OriginOf[req[c].url]].delay
Spacing == [][\A c \in Caller : Sends(c) => Spaced(c)]_vars

\* Every page request, a retry or a redirect hop too, goes to a url that the
\* robots.txt of its own origin was read for and allows (SPEC section 4).
RobotsObeyed ==
    [][\A c \in Caller :
          (RespectRobots /\ Sends(c) /\ try[c].kind = "page") =>
              LET rules == robots[OriginOf[req[c].url]] IN
              rules # Null /\ req[c].url \notin rules.deny]_vars

\* What a caller is given is what the server had when it answered: a body replayed
\* from the cache too, whatever other callers and processes stored meanwhile.
AnswersAreCurrent == \A c \in Caller : answer[c] # Null => answer[c].body = answer[c].truth

\* Every request comes back, with an answer or an error.
EveryRequestEnds == \A c \in Caller : pc[c] # "idle" ~> pc[c] = "idle"
=============================================================================
