SPECIFICATION Spec
CONSTANTS
    a = a
    b = b
    c = c
    d = d
    CoinRoundFreq = 4
    RootDepth = 10
    Refused = {}
    AppFailures = {}
    Nodes <- MCNodes
    Participants <- MCParticipants
    Genesis <- MCParticipants
    Dags <- LeaveDags
INVARIANT FramesAgree
