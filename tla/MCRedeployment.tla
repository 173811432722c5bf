--------------------------- MODULE MCRedeployment ---------------------------
EXTENDS Redeployment, TLC

CONSTANTS alice, bob

Param(price, riskAdjustment) ==
    [price |-> price, multiplier |-> FIXED_POINT_SCALE,
     collateralFactorBps |-> 4, riskAdjustmentBps |-> riskAdjustment]

(* A unit of stock carries a loan of one, or after a crash of none; and a  *)
(* risk adjustment above 100%, which the Registry must refuse.             *)
MCParameters == {Param(4, 3), Param(1, 3), Param(4, 5)}

MCAmounts == 0..1

SymmetricUsers == Permutations(Users)
=============================================================================
