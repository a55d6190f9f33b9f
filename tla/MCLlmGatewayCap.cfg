SPECIFICATION LlmSpec

CONSTANTS
    Clients = {k1, k2}
    Unlocked = Unlocked
    DailyCap = 2
    Prices = {1}
    ChainLength = 2
    MaxModelTurns = 2
    QueryCeiling = 1
    MaxCalls = 2
    MaxEmbeddings = 1
    MaxDeaths = 1

INVARIANTS
    HardCap

CHECK_DEADLOCK FALSE
