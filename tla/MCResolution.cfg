\* Every connector run of MCFeed, and the reviewer.
CONSTANTS
    edgar = edgar
    yc = yc
    rss = rss
    acme = acme
    acmes = acmes
    acmess = acmess
    acmeio = acmeio
    acmecom = acmecom
    sf = sf
    cik = cik
    slug = slug
    Null = Null
    BlankName = blank
    blank = blank
    Reviewer = reviewer
    Connector = {edgar, yc, rss}
    Run = {edgar, yc, rss}
    Field = {"name", "domain"}
    Value = {acme, acmes, acmess, acmeio, acmecom, blank}
    Ext = {cik, slug}
    Metro = {sf}
    Configured = {sf}
    MaxId = 5
    Priority <- MCPriority
    ConnectorOf <- MCConnectorOf
    Feed <- MCFeed
    Similar <- MCSimilar
SPECIFICATION FairSpec
INVARIANTS NoIntegrityError DomainConflictQueued UpsertsNeverDeadlock
PROPERTIES AuthorityNeverFalls EveryTransactionEnds
CHECK_DEADLOCK FALSE
