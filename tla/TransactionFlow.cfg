SPECIFICATION Spec
CONSTANTS
    deposit = deposit
    borrow = borrow
    verdict = verdict
    Buttons = {deposit, borrow}
    Unguarded = {deposit}
    Reads = {verdict}
    Questions = {verdict}
    None = None
    MaxSends = 2
    MaxOutside = 1
    MaxDetours = 2
INVARIANTS
    FlowTypeOK
    AtMostOneOnTheWay
PROPERTY ConfirmedIsReflected
