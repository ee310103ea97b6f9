\* One request issues an invoice; two clients poll and download it while its
\* job may be run twice; what they got, or a foreign file, is handed in under
\* the code of the invoice or without a code.
SPECIFICATION ServerSpec
CONSTANTS
    Invoice = {i1}
    Code = {c1}
    Rendering = {d1, d2}
    None = None
    Request = {r1}
    Amount = {1}
    Int4Max = 1
    MaxTries = 1
    MaxAttempts = 2
    MaxWorkers = 1
    Client = {a, b}
    Submission = {s1}
SYMMETRY Symmetry
VIEW View
INVARIANTS
    NoDeadEnd
    ReadyIsReliable
    MatchIsAuthentic
    GenuineMismatchNeedsRetry
    OwnFileHasCode
PROPERTY
    ImplementsDelivery
