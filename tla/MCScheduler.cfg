\* Two jobs and a command; two points in time, two rows of fetch_runs.
CONSTANTS
    greenhouse = greenhouse
    lever = lever
    refresh = refresh
    Null = Null
    Serve = Serve
    Job = {greenhouse, lever}
    Task = {greenhouse, lever, refresh}
    Connector = {greenhouse, lever}
    Filing = {}
    MaxTime = 1
    OverlapDays = 0
    BackfillDays = 0
    HitCap = 1
    MaxRows = 2
    Date <- MCDate
    MayRun <- MCMayRun
    SourceOf <- MCSourceOf
    SinceOf <- MCSinceOf
SPECIFICATION FairSchedulerSpec
INVARIANTS SerializedRuns DrainIsClean
PROPERTIES EveryFireEnds
CHECK_DEADLOCK FALSE
