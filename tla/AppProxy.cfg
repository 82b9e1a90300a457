CONSTANTS
    Methods = {"commit", "snapshot"}
    Retries = 2
    Blocks = 2
    Snapshots = 1
SPECIFICATION ProxySpec
INVARIANT AckedIsApplied
PROPERTY CallReturns
CHECK_DEADLOCK FALSE
