SPECIFICATION ToolsSpec
CONSTANTS
    morning = morning
    evening = evening
    Runs = {morning, evening}
    Users = {}
    Writers = {}
    NoWriter = NoWriter
    FIXED_POINT_SCALE = 2
    BPS_DENOMINATOR = 10
    MaxWord = 400
    Parameters <- MCParameters
    FeedPrices <- MCFeedPrices
    FeedAges <- MCFeedAges
    MAX_DEVIATION_BPS = 1
    MAX_STALENESS_SEC = 2
    MAX_FUTURE_SKEW_SEC = 1
    BpsInputs = {10, 11}
    NoRead = NoRead
    MaxWrites = 1
SYMMETRY SymmetricRuns
INVARIANT ToolsTypeOK
PROPERTIES
    LandsOnlyProtectively
    SuspendsOnlyOutsideBand
    OperatorKeepsPrice
