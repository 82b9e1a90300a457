SPECIFICATION Spec
CONSTANTS
    a = a
    b = b
    c = c
    d = d
    CoinRoundFreq = 4
    RootDepth = 10
    Refused <- RefusedLeave
    AppFailures <- SecondBlockFails
    Nodes <- MCNodes
    Participants <- MCParticipants
    Genesis <- MCParticipants
    Dags <- MCDags
INVARIANTS
    FramesAgree SameEventsSameFrames RoundsInOrder NoLateReception CausalOrder
    WitnessesCount RoundsByDefinition AnchorIsHighest MembershipFollowsBlocks
PROPERTIES FamousWitnessesFrozen EventsFrozen
