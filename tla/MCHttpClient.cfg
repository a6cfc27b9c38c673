\* One site with two origins: robots.txt, budget, spacing, retries, redirects; and
\* the changing page of one, with the cache directory of other processes.
CONSTANTS
    first = first
    second = second
    bare = bare
    www = www
    acme = acme
    Null = Null
    Caller = {first, second}
    Host = {acme}
    Rules <- MCRules
    MinInterval = 1
    Backoff = {1}
    HostOf <- MCHostOf
    OriginOf <- MCOriginOf
    Url = {bare, www}
    Origin = {bare, www}
    Asked <- MCAsked
    RespectRobots = TRUE
    Far = 2
    Budget = 3
    MaxAttempts = 2
    MaxRedirects = 1
    CacheTtl = 1
    MaxVersion = 1
    SharedCache = TRUE
SPECIFICATION MCSpec
INVARIANTS BudgetKept AnswersAreCurrent
PROPERTIES Spacing RobotsObeyed EveryRequestEnds
CHECK_DEADLOCK FALSE
