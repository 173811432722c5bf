------------------------------ MODULE Engines ------------------------------
(***************************************************************************)
(* The two Stylus engines: PositionEngine (what a raw balance is worth)    *)
(* and RiskEngine (how much may be borrowed against a value, and when a    *)
(* debt may be liquidated).  Both are pure; both are fixed point with a    *)
(* division that truncates after each multiplication.                      *)
(*                                                                         *)
(* uint256 arithmetic is checked: a product that does not fit a word makes *)
(* the engine return Err, which reverts the calling transaction.  Each     *)
(* function is therefore a pair: the number it returns, over the unbounded *)
(* naturals, and a predicate, <name>Fits, that says no product overflowed. *)
(* Callers take the predicate as a guard.                                  *)
(***************************************************************************)
EXTENDS Naturals

CONSTANTS
    FIXED_POINT_SCALE,  \* 1e18 in the code
    BPS_DENOMINATOR,    \* 10000 in the code
    MaxWord             \* 2^256 - 1 in the code

ASSUME EngineAssumption ==
    /\ FIXED_POINT_SCALE \in Nat \ {0}
    /\ BPS_DENOMINATOR \in Nat \ {0}
    /\ MaxWord \in Nat

Word == 0..MaxWord
Bps == 0..BPS_DENOMINATOR

Fits(n) == n <= MaxWord

(***************************************************************************)
(* stylus/position-engine: (rawBalance * price / 1e18) * multiplier / 1e18 *)
(***************************************************************************)
ScaledValue(rawBalance, price) == (rawBalance * price) \div FIXED_POINT_SCALE

PositionValue(rawBalance, price, multiplier) ==
    (ScaledValue(rawBalance, price) * multiplier) \div FIXED_POINT_SCALE

PositionValueFits(rawBalance, price, multiplier) ==
    /\ Fits(rawBalance * price)
    /\ Fits(ScaledValue(rawBalance, price) * multiplier)

(***************************************************************************)
(* stylus/risk-engine.  The maintenance threshold is the value after the   *)
(* collateral factor; the borrowing capacity takes the risk adjustment off *)
(* that once more.  A debt is liquidatable strictly above the threshold.   *)
(***************************************************************************)
LiquidationThreshold(value, collateralFactor) ==
    (value * collateralFactor) \div BPS_DENOMINATOR

LiquidationThresholdFits(value, collateralFactor) ==
    Fits(value * collateralFactor)

BorrowingCapacity(value, collateralFactor, riskAdjustment) ==
    (LiquidationThreshold(value, collateralFactor) * riskAdjustment)
        \div BPS_DENOMINATOR

BorrowingCapacityFits(value, collateralFactor, riskAdjustment) ==
    /\ LiquidationThresholdFits(value, collateralFactor)
    /\ Fits(LiquidationThreshold(value, collateralFactor) * riskAdjustment)

M_LiquidatableAtThreshold(value, collateralFactor, debt) ==
    debt >= LiquidationThreshold(value, collateralFactor)

IsLiquidatable(value, collateralFactor, debt) ==
    debt > LiquidationThreshold(value, collateralFactor)

=============================================================================
