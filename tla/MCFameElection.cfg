SPECIFICATION ElectionSpec
CONSTANTS
    p1 = p1
    p2 = p2
    p3 = p3
    p4 = p4
    p5 = p5
    CoinRoundFreq = 4
    MaxDiff = 10
    Participants <- MCParticipants
    PeersAt <- GrowingPeersAt
INVARIANTS FameAgreement LateWitnessNeverFamous
CHECK_DEADLOCK FALSE
