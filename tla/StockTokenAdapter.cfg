SPECIFICATION Spec
CONSTANTS
    coarse = coarse
    fine = fine
    Tokens = {"flagged", "reverting", "codeless"}
    PriceFeeds = {coarse, fine}
    SequencerFeeds = {uptime}
    NoContract = NoContract
    Decimals <- MCDecimals
    Answers <- MCAnswers
    Periods = {1, 2}
    BpsValues = {10, 11}
    PRICE_DECIMALS = 1
    MaxTime = 3
    FIXED_POINT_SCALE = 10
    BPS_DENOMINATOR = 10
    MaxWord = 150
CHECK_DEADLOCK FALSE
INVARIANTS
    AdapterTypeOK
    OutagePricesAreNotServed
