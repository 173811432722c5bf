---------------------------- MODULE MCOracleSync ----------------------------
EXTENDS OracleSync, TLC

CONSTANTS morning, evening

Param(price, collateralFactor) ==
    [price |-> price, multiplier |-> FIXED_POINT_SCALE,
     collateralFactorBps |-> collateralFactor, riskAdjustmentBps |-> BPS_DENOMINATOR]

(* With a tenth of deviation allowed, 9 and 11 are the ends of the band    *)
(* around 10, and 18 and 22 around 20; 0 is the price no run may use, and  *)
(* 11 tenths a factor the Registry must refuse.                            *)
MCParameters == {Param(0, 10), Param(10, 10), Param(20, 10), Param(10, 11)}
MCFeedPrices == {-1, 0, 8, 9, 11, 12, 18, 22}

(* Future beyond the skew, within it, present, at the limit, stale.        *)
MCFeedAges == {-2, -1, 0, 2, 3}

SymmetricRuns == Permutations(Runs)
=============================================================================
