CONSTANTS
    a = a
    b = b
    c = c
    d = d
    Participants <- MCParticipants
    Nodes <- FFNodes
    Genesis <- Founders
    Dags <- LaggingDags
    RootDepth = 4
    CoinRoundFreq = 4
    Refused = {}
    AppFailures = {}
    CatchingUp <- Joiner
    Faults = {"check"}
SPECIFICATION FFSpec
INVARIANTS FramesAgree AppFollowsBlocks
CHECK_DEADLOCK FALSE
