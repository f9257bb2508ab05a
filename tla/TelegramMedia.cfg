SPECIFICATION FairSpec
CONSTANTS
    Posts = {p1, p2}
    Handlers <- MCHandlers
    Retention = 1
    MaxAssets = 2
    MaxCrashes = 1
    None = None
INVARIANTS
    RowsTellTheFiles
    OrphansHaveACause
PROPERTY ExpiredIsDeleted
