SPECIFICATION FairSpec
CONSTANTS
    Handlers <- MCHandlers
    Attempts = 2
    MaxRedirects = 1
    Addresses = 2
    None = None
INVARIANTS
    PinnedToOwnHost
    RaisesOnlyByBodyOrClosedSocket
    CloseStopsRequests
PROPERTY CollectionEnds
