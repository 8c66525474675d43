CONSTANTS
    Lengths = {1}
    maxSize_ = 7
    rounding_ = 2
    MaxWrites = 1
    TargetFails = TRUE
SPECIFICATION FairSpec
PROPERTIES DestructorReturns
