SPECIFICATION FairSpec
CONSTANTS
    Feeds = {f1, f2}
    Handlers = {}
    Versions = {v1}
    v1 = v1
    v2 = v2
    Entries <- MCEntries
    Interval = 2
    MaxFailures = 2
    CanRestart = FALSE
    CanRaise = FALSE
    None = None
INVARIANTS
    HealthIsAudited
PROPERTIES
    PollsRespectInterval
    EveryFeedPolled
