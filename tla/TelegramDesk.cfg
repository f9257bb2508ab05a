SPECIFICATION Spec
CONSTANTS
    Items = {i1, i2}
    Handlers = {h1, h2}
    Stagers = {}
    Headlines = {a, b}
    Digests = {d1, d2}
    PublishedAt <- MCStaggered
    Window = 2
    PreviewLife = 1
    MaxPublic = 1
    MaxClock = 4
    MaxPreviews = 2
    Faults = {"write"}
    None = None
SYMMETRY DeskSymmetry
INVARIANTS
    CapacityHolds
    ApprovedWasPreviewed
    PendingMatchesDatabase
