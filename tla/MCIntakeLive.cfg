SPECIFICATION IntakeFairSpec

CONSTANTS
    Parts = {"ingestion", "knowledge", "notices"}
    d1 = d1
    d2 = d2
    d3 = d3
    c1 = c1
    n1 = n1
    n2 = n2
\* Notices
    Items = {n1, n2}
    SweepOf <- PSweepOf
    Sweepers = {w1}
    MaxFailures = 1
\* Ingestion
    Sources = {"wa", "mail"}
    Posts = {x1, x2, x3}
    Voice = {x1}
    Pollers = {w1}
    MaxPages = 4
    Lookback = 1
    PromptWalks = TRUE
    MaxChanges = 1
    MaxBlips = 1
\* Knowledge
    Docs = {d1, d2, d3}
    DocSources = {"guides", "plans"}
    SourceOf <- PSourceOf
    KeeperOf <- PKeeperOf
    Owners = {c1, Shared}
    Shared = Shared
    Unresolved = Unresolved
    TombstoneHalves = 2
    MaxVersion = 2
    MaxEdits = 1
    MaxBreaks = 1

PROPERTIES
    
    FoldersAreMirrored
    

CHECK_DEADLOCK FALSE
