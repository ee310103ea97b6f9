\* A genuine download is a mismatch after a second attempt of the job.
SPECIFICATION ServerSpec
CONSTANTS
    Invoice = {i1}
    Code = {c1, c2}
    Rendering = {d1, d2}
    None = None
    Request = {r1}
    Amount = {1}
    Int4Max = 1
    MaxTries = 1
    MaxAttempts = 2
    MaxWorkers = 1
    Client = {a}
    Submission = {s1}
INVARIANT
    DownloadedMatches
