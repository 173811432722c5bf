SPECIFICATION Spec
CONSTANTS
    alice = alice
    bob = bob
    Users = {alice, bob}
    Writers = {Lending}
    NoWriter = NoWriter
    FIXED_POINT_SCALE = 2
    BPS_DENOMINATOR = 4
    MaxWord = 40
    Parameters <- MCParameters
    Amounts = {1, 2}
    Balances = {1}
    MaxEvaluations = 2
SYMMETRY SymmetricUsers
INVARIANTS
    ConsoleTypeOK
    OnlyAllowedAmountsAreSent
    EvaluatingEnds
    RetryIsAllowed
