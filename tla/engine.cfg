SPECIFICATION EngineSpec
CONSTANTS
    Defs <- MCDefs
    StartTimes <- MCStartTimes
    Kickoff = 1140
    Instants <- MCInstants
    Counted = {1}
    MaxCount = 1
    Shortfalls = {}
    MaxFaults = 1
INVARIANTS
    EngineTypeOK
    RowTellsItsPool
    LocksBeforeKickoff
    CatalogRowsAnswerTheirQuestion
PROPERTIES
    PoolGetsItsRow
CHECK_DEADLOCK FALSE
