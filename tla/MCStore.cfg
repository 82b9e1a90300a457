SPECIFICATION Spec
CONSTANTS
    a = a
    b = b
    c = c
    Self = a
    Confs <- MCConfs
CHECK_DEADLOCK FALSE
INVARIANTS CoordinatesExact DiffComplete StoredIsInserted NoFork BootstrapComplete
PROPERTY HistoryKept
