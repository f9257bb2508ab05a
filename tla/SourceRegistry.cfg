SPECIFICATION RegistrySpec
CONSTANTS
    site = site
    name = name
    Handlers = {h1, h2}
    Urls <- MCUrls
    MaxReviews = 2
    None = None
    Names <- MCNames
    Feeds = {f1}
    Identities <- MCIdentities
    Registrars = {r1}
    Syncs = {s1}
SYMMETRY Symmetric
INVARIANTS
    StatusWasDecided
    ApprovedAsSeen
    ItemsOfApprovedChannel
