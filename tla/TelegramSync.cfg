SPECIFICATION FairSpec
CONSTANTS
    c1 = c1
    c2 = c2
    Channels = {c1, c2}
    Posts = {1}
    Home <- MCHome
    LastVersion <- MCLastVersion
    Invalid <- MCInvalid
    Handlers = {h1}
    BackfillLimit = 1
    ReconcileLimit = 1
    Interval = 1
    MaxFlood = 2
    MaxRestarts = 1
    None = None
    Unposted = Unposted
    Gone = Gone
INVARIANTS
    NoFalseDeletion
PROPERTIES
    TextsAreKept
    RateLimitHonoured
    EveryChannelPolled
    CopyConverges
