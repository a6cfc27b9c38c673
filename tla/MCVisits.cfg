\* Five companies, two providers, a cap of two; one fault.
CONSTANTS
    site = site
    greenhouse = greenhouse
    lever = lever
    seed = seed
    g0 = g0
    g1 = g1
    l1 = l1
    d2 = d2
    d3 = d3
    d4 = d4
    d5 = d5
    alpha = alpha
    beta = beta
    Null = Null
    Connector <- MCConnector
    Priority <- MCPriority
    Field <- MCField
    Value <- MCValue
    Company = {1, 2, 3, 4, 5}
    Active = {1, 2, 3, 4, 5}
    Site = site
    Ats = {greenhouse, lever}
    Token = {g0, g1, l1}
    IssuedBy <- MCIssuedBy
    Dead = {g0}
    DomainOf <- MCDomainOf
    Website = {1, 2}
    Local = {2, 3, 4, 5}
    Up = {1, 2, 3, 5}
    PageOf <- MCPageOf
    MaxVisits = 2
    MaxDiscovery = 2
    Command = {greenhouse, lever}
    Configured <- MCConfigured
    MaxCommands = 1
    MaxFaults = 1
SPECIFICATION MCSpec
PROPERTIES SitesVisited BoardsRead
