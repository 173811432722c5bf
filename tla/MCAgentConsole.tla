--------------------------- MODULE MCAgentConsole ---------------------------
EXTENDS AgentConsole, TLC

CONSTANTS alice, bob

Param(price, riskAdjustment) ==
    [price |-> price, multiplier |-> FIXED_POINT_SCALE,
     collateralFactorBps |-> 4, riskAdjustmentBps |-> riskAdjustment]

(* A unit of stock carries a loan of one, or of three; and a setting the   *)
(* Registry must refuse.                                                   *)
MCParameters == {Param(4, 3), Param(8, 3), Param(4, 5)}

SymmetricUsers == Permutations(Users)
=============================================================================
