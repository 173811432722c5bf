-------------------------- MODULE MCLendingMarket --------------------------
EXTENDS FormChecks, TLC

CONSTANTS alice, bob, elsewhere

Param(price, collateralFactor, riskAdjustment) ==
    [price |-> price, multiplier |-> FIXED_POINT_SCALE,
     collateralFactorBps |-> collateralFactor, riskAdjustmentBps |-> riskAdjustment]

(* A generous price, a crash that leaves loans in the margin or under      *)
(* water, and a setting the Registry must refuse (a factor above 100%).    *)
MCParameters == {Param(4, 4, 3), Param(2, 3, 3), Param(4, 5, 3)}

(* A unit of stock carries a loan of one, has it in the margin, or leaves  *)
(* it to the liquidators.                                                  *)
MCRepricings == {Param(4, 4, 3), Param(2, 4, 3), Param(1, 4, 3)}

MCAmounts == 0..2

SymmetricUsers == Permutations(Users)
=============================================================================
