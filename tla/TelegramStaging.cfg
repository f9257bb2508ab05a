SPECIFICATION Spec
CONSTANTS
    Items = {i1}
    Handlers = {h1}
    Stagers = {s1}
    Headlines = {a, b}
    Digests = {d1}
    PublishedAt <- MCPublishedAt
    Window = 3
    PreviewLife = 1
    MaxPublic = 1
    MaxClock = 4
    MaxPreviews = 1
    Faults = {"crash", "unlink", "write"}
    None = None
INVARIANTS
    TypeOK
    WireFollowsDatabase
PROPERTY
    ImplementsEditorialHistory
