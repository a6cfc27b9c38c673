\* One company, reported with a domain by one run and without by another.
CONSTANTS
    edgar = edgar
    yc = yc
    rss = rss
    acme = acme
    acmes = acmes
    acmess = acmess
    acmeio = acmeio
    acmecom = acmecom
    sf = sf
    cik = cik
    slug = slug
    Null = Null
    BlankName = blank
    blank = blank
    Reviewer = reviewer
    Connector = {edgar, yc, rss}
    Run = {edgar, yc, rss}
    Field = {"name", "domain"}
    Value = {acme, acmes, acmess, acmeio, acmecom, blank}
    Ext = {cik, slug}
    Metro = {sf}
    Configured = {sf}
    MaxId = 5
    Priority <- MCPriority
    ConnectorOf <- MCConnectorOf
    Feed <- TwinFeed
    Similar <- MCSimilar
SPECIFICATION Spec
INVARIANT NoUnqueuedTwin
CHECK_DEADLOCK FALSE
