SPECIFICATION Spec
CONSTANTS
    alice = alice
    bob = bob
    elsewhere = elsewhere
    Users = {alice, bob}
    LendingAdapter = LendingAdapter
    VaultAdapter = VaultAdapter
    TransferAdapter = TransferAdapter
    LiquidationAdapter = LiquidationAdapter
    NoWriter = NoWriter
    Writers = {LendingAdapter, elsewhere}
    FIXED_POINT_SCALE = 2
    BPS_DENOMINATOR = 4
    MaxWord = 16
    Parameters <- MCParameters
    Amounts <- MCAmounts
    WalletAmounts = {1}
    Authorizations = {TRUE, FALSE}
    DOWN_SCALE = 2
    UP_SCALE = 1
    CollateralSupply = 1
    BorrowSupply = 0
    PoolSupply = 1
    SelfCreditBound = 1
SYMMETRY SymmetricUsers
INVARIANTS
    MarketTypeOK
    BooksBacked
    LoanBookSolvent
    PagesAgree
    RefusedIsHopeless
    OfferedIsAccepted
PROPERTIES
    RoundingFavoursPool
    OnlyRepricingExceedsCapacity
    HealthyCollateralLeavesSafely
    FrozenOnlyDerisks
    MaturedCollateralIsLocked
    StrandedDebtOnlyOwnerRepays
    KeepsMarginPromise
    RowsExplainBooks
