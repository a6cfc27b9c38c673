\* One company and two processes; two changes of its boards, one fault.
CONSTANTS
    greenhouse = greenhouse
    workable = workable
    g1 = g1
    w1 = w1
    w2 = w2
    serve = serve
    Null = Null
    Gone = Gone
    Shell = Shell
    Company = {acme}
    Connector = {greenhouse, workable}
    Ats = {greenhouse, workable}
    Token = {g1, w1, w2}
    Posting = {posting}
    Shells = {workable}
    Process = {serve, refresh}
    Cron = serve
    MayRun <- MCMayRun
    MaxDiscovery = 1
    MaxChanges = 2
    MaxCommands = 1
    MaxFaults = 1
    Priority <- MCPriority
    Field <- MCField
    Value <- MCValue
    IssuedBy <- MCIssuedBy
SPECIFICATION MCSpec
INVARIANT PairIntact
PROPERTIES BoardsMirrored CountsSettle MovesFollowed
CHECK_DEADLOCK FALSE
