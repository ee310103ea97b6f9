\* Two queued invoices compete for one worker slot; three attempts per job.
SPECIFICATION WorkerSpec
CONSTANTS
    Invoice = {i1, i2}
    Code = {c1, c2}
    Rendering = {d1, d2}
    None = None
    MaxAttempts = 3
    MaxWorkers = 1
INVARIANTS
    ReadyIsComplete
    CompletedServesRecorded
    FirstAttemptIsExact
PROPERTIES
    JobsWearOut
    JobSettles
CHECK_DEADLOCK FALSE
