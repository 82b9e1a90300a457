CONSTANTS
    Genesis = {p1, p2}
    Joiners = {j1}
    Confs <- MCConfs
SPECIFICATION Spec
INVARIANTS PeerSetsAgree LeftIsOut
PROPERTY JoinerGetsIn
CHECK_DEADLOCK FALSE
