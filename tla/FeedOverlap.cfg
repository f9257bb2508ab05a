SPECIFICATION Spec
CONSTANTS
    Feeds = {f1}
    Handlers = {h1}
    Versions = {v1, v2}
    v1 = v1
    v2 = v2
    Entries <- MCEntries
    Interval = 1
    MaxFailures = 1
    CanRestart = TRUE
    CanRaise = TRUE
    None = None
INVARIANTS
    EtagImpliesStored
    DuplicatesHaveOriginal
