SPECIFICATION BoardSpec
CONSTANTS
    u1 = u1
    u2 = u2
    Users = {u1, u2}
    Amounts = {1}
    Funds = 2
    MaxU64 = 3
    LockTimes = {1}
    Deadlines = {2}
    DisputeWindowSecs = 2
    FinalPeriodFloor = 20
    Terms <- MCTerms
    NoStat = NoStat
    Records <- MCRecords
    Horizon = 3
    Lock = 1
    Deadline = 2
    NoRow = NoRow
INVARIANTS
    BoardTypeOK
PROPERTIES
    HistoryVolumeGrows
    LeaderboardCatchesUp
    EveryPayoutIsOffered
    PaidIsNoLongerOffered
