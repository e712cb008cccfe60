SPECIFICATION ServerSpec
CONSTANTS
    Bracket <- MCBracket
    Order <- MCOrder
    WonBefore = {}
    Answers <- MCAnswers
    Seed = 1
    MaxFaults = 1
INVARIANTS
    TournamentTypeOK
    ChampionWonOnGoals
PROPERTIES
    StartsWithASession
    NoOnlyWhenOut
    MissedEndIsFound
CHECK_DEADLOCK FALSE
