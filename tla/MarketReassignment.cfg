SPECIFICATION Spec
CONSTANTS
    alice = alice
    bob = bob
    elsewhere = elsewhere
    Users = {alice, bob}
    LendingAdapter = LendingAdapter
    VaultAdapter = VaultAdapter
    TransferAdapter = TransferAdapter
    LiquidationAdapter = LiquidationAdapter
    NoWriter = NoWriter
    Writers = {LendingAdapter}
    FIXED_POINT_SCALE = 2
    BPS_DENOMINATOR = 4
    MaxWord = 40
    Parameters <- MCRepricings
    Amounts <- MCAmounts
    WalletAmounts = {}
    Authorizations = {TRUE}
    DOWN_SCALE = 2
    UP_SCALE = 1
    CollateralSupply = 2
    BorrowSupply = 1
    PoolSupply = 2
    SelfCreditBound = 1
SYMMETRY SymmetricUsers
PROPERTY ReassignmentConservesBooks
