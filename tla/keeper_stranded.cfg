SPECIFICATION KeeperSpec
CONSTANTS
    u1 = u1
    Users = {u1}
    Amounts = {}
    Funds = 0
    MaxU64 = 1
    LockTimes = {1}
    Deadlines = {3}
    DisputeWindowSecs = 1
    FinalPeriodFloor = 20
    Terms <- MCTerms
    NoStat = NoStat
    Records <- MCRecords
    Horizon = 4
    Lock = 1
    Deadline = 3
    SettlingEnd = 2
    InPlayRule = FALSE
    MatchAfter <- MCMatchAfter
    NoRecord = NoRecord
    MaxCrashes = 1
CHECK_DEADLOCK FALSE
INVARIANT FinalizedIsDecided
