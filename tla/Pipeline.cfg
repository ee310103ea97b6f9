\* Two requests, two rows, two attempts per job; amounts that the form, or
\* the column, refuses.
SPECIFICATION Spec
CONSTANTS
    Request = {r1, r2}
    Invoice = {i1, i2}
    Code = {c1, c2}
    Rendering = {d1}
    None = None
    Amount = {0, 1, 2}
    Int4Max = 1
    MaxTries = 2
    MaxAttempts = 2
    MaxWorkers = 2
INVARIANTS
    AckedIsQueued
    OrphanIsInert
    RowsAreChargedToTurns
    ProcessingIsExplained
PROPERTIES
    ImplementsLedger
    AckedBecomesReady
    RequestsEnd
CHECK_DEADLOCK FALSE
