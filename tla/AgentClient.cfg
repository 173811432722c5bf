SPECIFICATION AgentSpec
CONSTANTS
    alice = alice
    bob = bob
    Users = {alice, bob}
    LendingAdapter = LendingAdapter
    VaultAdapter = VaultAdapter
    TransferAdapter = TransferAdapter
    LiquidationAdapter = LiquidationAdapter
    NoWriter = NoWriter
    Writers = {LendingAdapter}
    FIXED_POINT_SCALE = 2
    BPS_DENOMINATOR = 4
    MaxWord = 40
    Parameters <- MCParameters
    Amounts = {1}
    WalletAmounts = {}
    Authorizations = {TRUE}
    DOWN_SCALE = 1
    UP_SCALE = 1
    CollateralSupply = 1
    BorrowSupply = 0
    PoolSupply = 2
    SelfCreditBound = 0
    Agents = {alice}
    Requests = {1, 2}
    MaxInFlight = 2
INVARIANTS
    AgentTypeOK
    PermittedIsAccepted
PROPERTY AgentsGetNoMoreThanAsked
