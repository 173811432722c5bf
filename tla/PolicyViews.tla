---------------------------- MODULE PolicyViews ----------------------------
(***************************************************************************)
(* The figures and answers the frontend computes itself, in JavaScript     *)
(* integers, beside the ones it asks the contracts for:                    *)
(*   PolicyConsole   position value and effective capacity,                *)
(*   PolicyEquation  the same, laid out as a product,                      *)
(*   LiquidateForm   position value and maintenance threshold,             *)
(*   LandingPolicyDemo  a mirror of canExecute's BORROW branch.            *)
(* None of them reads the asset's multiplier, and the capacity is one      *)
(* division where the engines make two.                                    *)
(***************************************************************************)
EXTENDS Policy

LOCAL INSTANCE Integers

ShownValue(state, rawBalance) == (rawBalance * state.price) \div FIXED_POINT_SCALE

M_RiskAdjustmentTwice(state, rawBalance) ==
    (ShownValue(state, rawBalance) * state.riskAdjustmentBps * state.riskAdjustmentBps)
        \div (BPS_DENOMINATOR * BPS_DENOMINATOR)

ShownCapacity(state, rawBalance) ==
    (ShownValue(state, rawBalance) * state.collateralFactorBps * state.riskAdjustmentBps)
        \div (BPS_DENOMINATOR * BPS_DENOMINATOR)

ShownThreshold(state, rawBalance) ==
    (ShownValue(state, rawBalance) * state.collateralFactorBps) \div BPS_DENOMINATOR

(* What PolicyEquation lays out: factors and product. *)
Equation(state, rawBalance) ==
    [positionValue       |-> ShownValue(state, rawBalance),
     collateralFactorBps |-> state.collateralFactorBps,
     riskAdjustmentBps   |-> state.riskAdjustmentBps,
     effectiveCapacity   |-> ShownCapacity(state, rawBalance)]

-----------------------------------------------------------------------------
(* LandingPolicyDemo: an illustrative position value, and the visitor's    *)
(* choice of lifecycle, risk adjustment and request.                       *)
DemoCapacity(value, collateralFactor, riskAdjustment) ==
    (value * collateralFactor * riskAdjustment) \div (BPS_DENOMINATOR * BPS_DENOMINATOR)

DemoAnswer(lifecycle, value, collateralFactor, riskAdjustment, requested) ==
    LET capacity == DemoCapacity(value, collateralFactor, riskAdjustment) IN
    CASE lifecycle # "ACTIVE" -> Answer("BLOCK", 0, lifecycle)
      [] lifecycle = "ACTIVE" /\ capacity = 0 -> Answer("BLOCK", 0, "NO_CAPACITY")
      [] lifecycle = "ACTIVE" /\ capacity # 0 /\ requested <= capacity ->
            Answer("ALLOW", capacity, "OK")
      [] lifecycle = "ACTIVE" /\ capacity # 0 /\ requested > capacity ->
            Answer("LIMIT", capacity, "EXCEEDS_CAPACITY")

-----------------------------------------------------------------------------
(* PolicyVerdict: a banner that follows the lifecycle it is handed (all    *)
(* checks passed, or all actions blocked), and the figures of the response.*)
Verdict(lifecycle, response) ==
    [allBlocked |-> lifecycle # "ACTIVE",
     decision   |-> response.decision,
     maximum    |-> response.permittedAmount]

-----------------------------------------------------------------------------
(***************************************************************************)
(* With the neutral multiplier the deployment uses, what the pages show is *)
(* what the contracts decide by.  Of the two capacities shown side by side *)
(* the page's own is at most one unit above the Policy's and never below   *)
(* it (no loan looks impossible that is allowed); the banner never         *)
(* contradicts the decision under it; and a debt is liquidatable exactly   *)
(* when it exceeds the threshold shown.                                    *)
(***************************************************************************)
FiguresAgree(state, rawBalance, amount) ==
    LET equation == Equation(state, rawBalance)
        verdict  == Verdict(state.lifecycle, CanExecute(state, rawBalance, "BORROW", amount))
    IN  state.multiplier = FIXED_POINT_SCALE =>
            /\ ~verdict.allBlocked => equation.effectiveCapacity - verdict.maximum \in 0..1
            /\ verdict.allBlocked => verdict.decision = "BLOCK"
            /\ amount > ShownThreshold(state, rawBalance)
                  <=> ~Blocked(LiquidateAnswer(state, rawBalance, amount))

(***************************************************************************)
(* The demo answers a request as the Policy does for a position of that    *)
(* value, where the collateral factor takes a whole number of units of it  *)
(* (as the page's 70% of $200,000 does): a single division by the square   *)
(* of the denominator is then the engines' two.                            *)
(***************************************************************************)
DemoMirrorsPolicy(state, rawBalance, amount) ==
    LET value == ValueOf(state, rawBalance) IN
    (value * state.collateralFactorBps) % BPS_DENOMINATOR = 0 =>
        DemoAnswer(state.lifecycle, value, state.collateralFactorBps,
                   state.riskAdjustmentBps, amount)
            = CanExecute(state, rawBalance, "BORROW", amount)

=============================================================================
