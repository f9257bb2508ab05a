SPECIFICATION FairSpec
CONSTANTS
    s1 = s1
    s2 = s2
    Sources = {s1, s2}
    Items = {1, 2, 3}
    SourceOf <- MCSourceOf
    Window = 0
    PerSource = 1
    Total = 2
    MaxCommits = 2
    None = None
INVARIANTS
    TypeOK
    RefreshTimesAreTrue
PROPERTIES
    NothingLost
    SiteCatchesUp
