SPECIFICATION Spec
CONSTANTS
    alice = alice
    bob = bob
    Users = {alice, bob}
    OldAdapter = OldAdapter
    NewAdapter = NewAdapter
    VaultAdapter = VaultAdapter
    TransferAdapter = TransferAdapter
    LiquidationAdapter = LiquidationAdapter
    NoWriter = NoWriter
    Writers = {OldAdapter, NewAdapter}
    FIXED_POINT_SCALE = 2
    BPS_DENOMINATOR = 4
    MaxWord = 20
    Parameters <- MCParameters
    Amounts <- MCAmounts
    WalletAmounts = {}
    Authorizations = {TRUE}
    DOWN_SCALE = 1
    UP_SCALE = 2
    CollateralSupply = 1
    BorrowSupply = 0
    OldPoolSupply = 2
    NewPoolSupply = 2
    SelfCreditBound = 1
SYMMETRY SymmetricUsers
INVARIANTS
    TypeOK
    CustodiesCoverBooks
    BothLoanBooksSolvent
PROPERTY
    RetiredAdapterOnlyCollects
