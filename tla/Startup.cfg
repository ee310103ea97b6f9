\* The API and the worker start together; pools of two, four versions.
SPECIFICATION Spec
CONSTANTS
    Proc = {api, worker}
    MaxConns = 2
    Versions = 4
    MaxTries = 3
    None = None
INVARIANTS
    RaceNeedsLostLock
PROPERTIES
    StartsWearOut
    ImplementsMigrations
    StartupEnds
