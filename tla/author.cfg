SPECIFICATION AuthorSpec
CONSTANTS
    Defs <- MCDefs
    StartTimes <- MCStartTimes
    Kickoff = 1140
    Instants <- MCInstants
    Counted = {}
    MaxCount = 1
    Shortfalls = {"status", "replayed"}
    MaxFaults = 1
    Proposals <- MCProposals
    MaxAnswer = 2
    LiveCap = 2
    PrematchCap = 1
    Champions = {1}
INVARIANTS
    AuthorTypeOK
    PoolsSharedByAdoptionOnly
    AiRowsCapped
    InPlayPoolsCanResolve
    AiPoolsShown
CHECK_DEADLOCK FALSE
