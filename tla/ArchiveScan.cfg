CONSTANTS
    End = 5
    step = 2
    Fork = 1
    Marked = {2, 5}
    MaxStops = 3
    MaxTears = 1
SPECIFICATION FairSpec
INVARIANTS ScanIsComplete OneChain TraceIsComplete
PROPERTY RunGetsDone
CHECK_DEADLOCK FALSE
