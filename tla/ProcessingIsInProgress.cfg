\* An invoice is left in processing with nobody at work on it.
SPECIFICATION Spec
CONSTANTS
    Request = {r1, r2}
    Invoice = {i1, i2}
    Code = {c1, c2}
    Rendering = {d1}
    None = None
    Amount = {1}
    Int4Max = 1
    MaxTries = 2
    MaxAttempts = 2
    MaxWorkers = 2
INVARIANT
    ProcessingIsInProgress
CHECK_DEADLOCK FALSE
