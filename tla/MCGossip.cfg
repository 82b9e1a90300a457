CONSTANTS
    n1 = n1
    n2 = n2
    n3 = n3
    t1 = t1
    Confs <- MCConfs
SPECIFICATION Spec
INVARIANTS SyncAccepted NoFork TxOnce
PROPERTY TxSpreads
CHECK_DEADLOCK FALSE
