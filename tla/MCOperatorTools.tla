-------------------------- MODULE MCOperatorTools --------------------------
EXTENDS OperatorTools, TLC

CONSTANTS morning, evening

Param(price, collateralFactor) ==
    [price |-> price, multiplier |-> FIXED_POINT_SCALE,
     collateralFactorBps |-> collateralFactor, riskAdjustmentBps |-> BPS_DENOMINATOR]

(* With a tenth of deviation allowed, 9 and 11 are the ends of the band    *)
(* around 10, and 22 that around 20; 0, which no run may use, is what the   *)
(* page may write; and 11 tenths a factor the Registry must refuse.         *)
MCParameters == {Param(10, 10), Param(20, 10), Param(10, 11)}
MCFeedPrices == {0, 8, 9, 11, 12, 22}

(* Future beyond the skew, within it, at the limit of age, stale.          *)
MCFeedAges == {-2, -1, 2, 3}

SymmetricRuns == Permutations(Runs)
=============================================================================
