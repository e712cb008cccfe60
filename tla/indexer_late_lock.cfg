SPECIFICATION IndexerFairSpec
CONSTANTS
    MarketList <- MCMarketList
    MatchAfter <- MCMatchAfter
    Undocumented = 100
    MaxRecords = 3
    MaxChunk = 2
    Horizon = 2
    StaleAfter = 2
CHECK_DEADLOCK FALSE
PROPERTY LateLocksCatchUp
