------------------------------- MODULE Policy -------------------------------
(***************************************************************************)
(* LedgerLinePolicy.canExecute: the answer the shared policy layer gives   *)
(* for an action on a position.  It is a view: it reads the asset's state  *)
(* and the position's raw balance from the Registry, calls the engines,    *)
(* and never sees a debt.  For LIQUIDATE, and only there, `amount' is the  *)
(* position's outstanding debt, which the caller supplies.                 *)
(*                                                                         *)
(* The answer is a record [decision, permittedAmount, reason].  When an    *)
(* engine overflows there is no answer, the call reverts; CanExecuteFits   *)
(* is the guard that says it does not.                                     *)
(***************************************************************************)
EXTENDS Engines, LedgerLineTypes

AssetState ==
    [price: Word, multiplier: Word, lifecycle: LifecycleState,
     collateralFactorBps: Bps, riskAdjustmentBps: Bps]

PolicyResponse == [decision: Decision, permittedAmount: Word, reason: Reason]

(* What a raw balance of this asset is worth, and what it allows. *)
ValueOf(asset, rawBalance) ==
    PositionValue(rawBalance, asset.price, asset.multiplier)

ThresholdOf(asset, rawBalance) ==
    LiquidationThreshold(ValueOf(asset, rawBalance), asset.collateralFactorBps)

CapacityOf(asset, rawBalance) ==
    BorrowingCapacity(ValueOf(asset, rawBalance),
                      asset.collateralFactorBps, asset.riskAdjustmentBps)

(* The engine calls that must not overflow for the numbers above to exist. *)
ThresholdOfFits(asset, rawBalance) ==
    /\ PositionValueFits(rawBalance, asset.price, asset.multiplier)
    /\ LiquidationThresholdFits(ValueOf(asset, rawBalance), asset.collateralFactorBps)

CapacityOfFits(asset, rawBalance) ==
    /\ PositionValueFits(rawBalance, asset.price, asset.multiplier)
    /\ BorrowingCapacityFits(ValueOf(asset, rawBalance),
                             asset.collateralFactorBps, asset.riskAdjustmentBps)

Answer(decision, permittedAmount, reason) ==
    [decision |-> decision, permittedAmount |-> permittedAmount, reason |-> reason]

(* BORROW and INCREASE_LEVERAGE: judged against the borrowing capacity. *)
M_FullCapacityIsTooMuch(capacity, amount) ==
    IF capacity = 0           THEN Answer("BLOCK", 0, "NO_CAPACITY")
    ELSE IF amount < capacity THEN Answer("ALLOW", capacity, "OK")
    ELSE                           Answer("LIMIT", capacity, "EXCEEDS_CAPACITY")

CapacityAnswer(capacity, amount) ==
    IF capacity = 0           THEN Answer("BLOCK", 0, "NO_CAPACITY")
    ELSE IF amount <= capacity THEN Answer("ALLOW", capacity, "OK")
    ELSE                            Answer("LIMIT", capacity, "EXCEEDS_CAPACITY")

(* LIQUIDATE: judged against the maintenance threshold. *)
LiquidateAnswer(asset, rawBalance, debt) ==
    IF IsLiquidatable(ValueOf(asset, rawBalance), asset.collateralFactorBps, debt)
    THEN Answer("ALLOW", debt, "OK")
    ELSE Answer("BLOCK", 0, "ABOVE_MAINTENANCE")

M_WithdrawSkipsLifecycle(asset, rawBalance, action, amount) ==
    CASE action = "WITHDRAW" -> Answer("ALLOW", rawBalance, "OK")
      [] action # "WITHDRAW" /\ asset.lifecycle # "ACTIVE" ->
            Answer("BLOCK", 0, asset.lifecycle)
      [] action = "TRANSFER" /\ asset.lifecycle = "ACTIVE" ->
            Answer("ALLOW", rawBalance, "OK")
      [] action = "LIQUIDATE" /\ asset.lifecycle = "ACTIVE" ->
            LiquidateAnswer(asset, rawBalance, amount)
      [] action \in {"BORROW", "INCREASE_LEVERAGE"} /\ asset.lifecycle = "ACTIVE" ->
            CapacityAnswer(CapacityOf(asset, rawBalance), amount)

CanExecute(asset, rawBalance, action, amount) ==
    CASE asset.lifecycle # "ACTIVE" -> Answer("BLOCK", 0, asset.lifecycle)
      [] asset.lifecycle = "ACTIVE" /\ action \in {"WITHDRAW", "TRANSFER"} ->
            Answer("ALLOW", rawBalance, "OK")
      [] asset.lifecycle = "ACTIVE" /\ action = "LIQUIDATE" ->
            LiquidateAnswer(asset, rawBalance, amount)
      [] asset.lifecycle = "ACTIVE" /\ action \in {"BORROW", "INCREASE_LEVERAGE"} ->
            CapacityAnswer(CapacityOf(asset, rawBalance), amount)

CanExecuteFits(asset, rawBalance, action) ==
    asset.lifecycle = "ACTIVE" =>
        /\ action = "LIQUIDATE" => ThresholdOfFits(asset, rawBalance)
        /\ action \in {"BORROW", "INCREASE_LEVERAGE"} => CapacityOfFits(asset, rawBalance)

Blocked(response) == response.decision = "BLOCK"

=============================================================================
