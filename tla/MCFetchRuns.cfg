\* Two overlapping executors of one connector, one filing, two days and a half.
CONSTANTS
    job = job
    command = command
    edgar = edgar
    formD = formD
    Null = Null
    Task = {job, command}
    Connector = {edgar}
    Filing = {formD}
    MaxTime = 2
    OverlapDays = 1
    BackfillDays = 2
    HitCap = 2
    MaxRows = 3
    Date <- MCDate
    MayRun <- MCMayRun
    SourceOf <- MCSourceOf
    SinceOf <- FullSince
SPECIFICATION RunSpec
INVARIANTS NothingMissed StreakIsNewestErrors
PROPERTY PromiseKept
CHECK_DEADLOCK FALSE
