\* Two companies and one to be inserted; pages of one id.
CONSTANTS
    com = com
    io = io
    acme = acme
    numeric = numeric
    old = old
    alpha = alpha
    beta = beta
    findalpha = findalpha
    findbeta = findbeta
    findblank = findblank
    site = site
    edgar = edgar
    e1 = e1
    e2 = e2
    ann = ann
    ceo = ceo
    Null = Null
    Blank = Blank
    Company = {1, 2, 3}
    Name = {alpha, beta, Blank}
    Domain = {com, io}
    Account = {acme, numeric, old}
    LinkOf <- MCLinkOf
    SearchOf <- MCSearchOf
    Connector = {site, edgar}
    ExternalId = {e1, e2}
    Person = {ann}
    Title = {ceo}
    Record <- MCRecord
    Batch = 1
    Drift <- MCDrift
    MaxRecords = 2
    MaxMerges = 1
    MaxSweeps = 1
SPECIFICATION MCSpec
PROPERTIES LinksStayRight SweepReachesAll PublishedKept MergeLosesNothing
CHECK_DEADLOCK FALSE
