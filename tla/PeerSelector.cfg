CONSTANTS
    Handlers = {c1, c2}
    Babble = Babble
    NoOne = NoOne
    Peers = {p1, p2}
    Routines = 1
    Changes = 1
SPECIFICATION BabbleSpec
INVARIANT SetMeansTick
PROPERTIES RevivedByTraffic Visits
CHECK_DEADLOCK FALSE
