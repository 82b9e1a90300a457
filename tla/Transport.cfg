CONSTANTS
    Callers = {c1, c2}
    Calls = 2
    MaxPool = 1
    Splits = TRUE
    Shutdowns = TRUE
SPECIFICATION TransportSpec
INVARIANT OwnReply
PROPERTY RPCReturns
CHECK_DEADLOCK FALSE
