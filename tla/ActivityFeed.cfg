SPECIFICATION FairFeedSpec
CONSTANTS
    lending = lending
    registry = registry
    Sources = {lending, registry}
    MaxLogs = 2
    MaxSwitches = 1
INVARIANTS
    FeedTypeOK
    HistoryComplete
PROPERTIES
    OnlyLoadingDropsRows
    LoadingEnds
