SPECIFICATION Spec
CONSTANTS
    alice = alice
    bob = bob
    Users = {alice}
    Writers = {Lending}
    NoWriter = NoWriter
    FIXED_POINT_SCALE = 2
    BPS_DENOMINATOR = 4
    MaxWord = 40
    Parameters <- MCParameters
    Amounts = {2}
    Balances = {1}
    MaxEvaluations = 4
INVARIANT NeverExecutesSuperseded
