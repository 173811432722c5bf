----------------------------- MODULE FormChecks -----------------------------
(***************************************************************************)
(* What the Policy Console's five forms (DepositForm, BorrowForm,          *)
(* WithdrawForm, TransferForm, LiquidateForm) let through to the wallet:   *)
(* each form's own checks on its inputs and on the contract reads it is    *)
(* given.  They repeat part of what the contracts check and leave the rest *)
(* to them.  (How a transaction goes on from there is TransactionFlow.)    *)
(*                                                                         *)
(* The checks are those of a connected wallet, a valid address in the      *)
(* address fields, and reads that have arrived.                            *)
(***************************************************************************)
EXTENDS MarketPages

ASSUME FormsAssumption == IsFiniteSet(Writers) /\ SuppliesFit

(* Number, floor, BigInt, times ONE: whole units only, a fraction becomes  *)
(* zero.                                                                   *)
Parsed(typed) == (typed \div FIXED_POINT_SCALE) * FIXED_POINT_SCALE

ParsedAmounts == {Parsed(typed) : typed \in Amounts}

(* demoLifecycle ?? state.lifecycle: a preview, once chosen, is what the   *)
(* forms are told.                                                         *)
ShownLifecycle(previewed, state) ==
    IF previewed \in LifecycleState THEN previewed ELSE state.lifecycle

M_ForgetsDecimals(amount) == amount \div (DOWN_SCALE * DOWN_SCALE)

(* toTokenAmountRoundUp of lib/contracts.ts, which tells the two kinds of  *)
(* token apart by their decimals.                                          *)
RequiredUsdg(amount) ==
    IF DOWN_SCALE = 1 THEN amount * UP_SCALE
                      ELSE (amount + DOWN_SCALE - 1) \div DOWN_SCALE

-----------------------------------------------------------------------------
(* The forms, each with the reads it is given. *)
DepositChecks(amount, balance) == amount <= balance

BorrowChecks(amount, response) ==
    /\ amount > 0
    /\ response.decision = "ALLOW"

M_WholePositionExceeds(amount, rawBalance, lifecycle) ==
    /\ amount < rawBalance
    /\ lifecycle = "ACTIVE"

WithdrawChecks(amount, rawBalance, lifecycle) ==
    /\ amount <= rawBalance
    /\ lifecycle = "ACTIVE"

TransferChecks(amount, rawBalance, lifecycle, existingDebt) ==
    /\ amount <= rawBalance
    /\ lifecycle = "ACTIVE"
    /\ existingDebt = 0

(* The amounts, and Approve USDG, appear for a liquidatable borrower only. *)
IsLiquidatableShown(borrowerDebt, response) ==
    /\ borrowerDebt > 0
    /\ response.decision = "ALLOW"

ApproveUsdgChecks(repay, borrowerDebt, response) ==
    /\ IsLiquidatableShown(borrowerDebt, response)
    /\ RequiredUsdg(repay) # 0

LiquidateChecks(repay, seize, borrowerDebt, rawBalance, response) ==
    /\ IsLiquidatableShown(borrowerDebt, response)
    /\ repay > 0
    /\ seize > 0
    /\ repay <= borrowerDebt
    /\ seize <= rawBalance

-----------------------------------------------------------------------------
(* The same on the chain's present state, as on a page that has just read  *)
(* everything, without a preview.  A read of the Policy arrives if no      *)
(* engine overflows.                                                       *)
OffersDeposit(u, amount) == DepositChecks(amount, collateral[u])

OffersBorrow(u, amount) ==
    /\ CanExecuteFits(asset, position[u], "BORROW")
    /\ BorrowChecks(amount, PolicyAnswer(u, "BORROW", amount))

OffersWithdraw(u, amount) ==
    WithdrawChecks(amount, position[u], ShownLifecycle("none", asset))

OffersTransfer(u, amount) ==
    TransferChecks(amount, position[u], ShownLifecycle("none", asset), debt[u])

(* checkLiquidatable of the SDK, and the LiquidateForm: the debt is read   *)
(* first, the Policy asked with it later.                                  *)
CheckLiquidatable(borrower, readDebt) == PolicyAnswer(borrower, "LIQUIDATE", readDebt)

OffersLiquidate(borrower, readDebt, repay, seize) ==
    /\ CanExecuteFits(asset, position[borrower], "LIQUIDATE")
    /\ LiquidateChecks(repay, seize, readDebt, position[borrower],
                       CheckLiquidatable(borrower, readDebt))

(***************************************************************************)
(* On current reads no form stands in the way of a transaction that would  *)
(* succeed: what its checks turn down, the contracts would revert.         *)
(***************************************************************************)
RefusedIsHopeless ==
    \A u \in Users : \A amount \in ParsedAmounts \ {0} :
        /\ CanDeposit(u, amount) => OffersDeposit(u, amount)
        /\ CanBorrow(u, amount) => OffersBorrow(u, amount)
        /\ CanWithdraw(u, amount) => OffersWithdraw(u, amount)
        /\ \A v \in Users : CanTransfer(u, v, amount) => OffersTransfer(u, amount)
        /\ \A v \in Users : \A seize \in ParsedAmounts \ {0} :
              CanLiquidate(u, v, amount, seize) => OffersLiquidate(v, debt[v], amount, seize)

(***************************************************************************)
(* And what they let through is accepted: of an account without debt, on a *)
(* wired market whose books are backed, with the tokens each call takes in *)
(* wallet and pool.  For a liquidation those are the tokens the form's own *)
(* Approve button, which it then shows, asks for; the debt it goes by may  *)
(* have been read earlier, if it has only grown since; and the amount must *)
(* not be so near the largest word that it cannot be rounded up.           *)
(***************************************************************************)
OfferedIsAccepted ==
    Wired =>
      \A u \in Users : \A amount \in ParsedAmounts \ {0} :
        /\ OffersDeposit(u, amount) => CanDeposit(u, amount)
        /\ debt[u] = 0 /\ OffersWithdraw(u, amount) => CanWithdraw(u, amount)
        /\ /\ debt[u] = 0
           /\ OffersBorrow(u, amount)
           /\ ToTokenAmount(amount) <= borrowToken[LendingAdapter]
           => CanBorrow(u, amount)
        /\ \A v \in Users \ {u} :
              OffersTransfer(u, amount) => CanTransfer(u, v, amount)
        /\ \A v \in Users : \A readDebt \in 1..debt[v], seize \in ParsedAmounts \ {0} :
              OffersLiquidate(v, readDebt, amount, seize) =>
                 /\ ApproveUsdgChecks(amount, readDebt, CheckLiquidatable(v, readDebt))
                 /\ /\ RequiredUsdg(amount) <= borrowToken[u]
                    /\ Fits(amount + DOWN_SCALE - 1)
                    => CanLiquidate(u, v, amount, seize)

=============================================================================
