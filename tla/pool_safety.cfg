SPECIFICATION Spec
CONSTANTS
    u1 = u1
    u2 = u2
    u3 = u3
    Users = {u1, u2, u3}
    Amounts = {1, 2}
    Funds = 2
    MaxU64 = 5
    LockTimes = {1, 3}
    Deadlines = {1, 4}
    DisputeWindowSecs = 2
    FinalPeriodFloor = 20
    Terms <- MCTerms
    NoStat = NoStat
    Records <- MCRecords
    Horizon = 5
SYMMETRY Symmetry
CHECK_DEADLOCK FALSE
INVARIANT TypeOK
INVARIANT IInv
INVARIANT Solvent
INVARIANT NothingStranded
INVARIANT EvidencePostdatesStakes
INVARIANT FullTimeDecides
PROPERTY OutcomeMovesForward
PROPERTY KeepsContract
