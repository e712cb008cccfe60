SPECIFICATION IndexerFairSpec
CONSTANTS
    MarketList <- MCMarketList
    MatchAfter <- MCMatchAfter
    Undocumented = 100
    MaxRecords = 3
    MaxChunk = 2
    Horizon = 2
    StaleAfter = 1
CHECK_DEADLOCK FALSE
INVARIANT IndexerTypeOK
INVARIANT AwaitingMeansOver
INVARIANT RowsAgree
PROPERTY FixtureCatchesUp
PROPERTY RowsCatchUp
