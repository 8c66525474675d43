CONSTANTS
    CopyCounts = {1, 2}
    Sizes = {0, 3}
    Estimates = {0, 2, 3}
    MaxRetries = 2
    Counts = {1, 2, 3}
    Payload = {x, y}
    Unmade = unmade
    MaxPayloads = 4
    DoneThrows = TRUE
    MaxMessages = 4
    Lengths = {1, 3, 9}
    maxSize_ = 7
    rounding_ = 2
    MaxWrites = 4
    TargetFails = TRUE
SPECIFICATION MCSpec
INVARIANTS WritesAccounted CopyIsComplete ReceivedInOrder
PROPERTIES SuccessMeansWritten CallReturns CopyReturns ImplementsChannel ExecuteReturns PipeReturns
CHECK_DEADLOCK FALSE
