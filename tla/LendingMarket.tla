--------------------------- MODULE LendingMarket ---------------------------
(***************************************************************************)
(* One lending market: the Registry's asset and positions, the             *)
(* LendingAdapter that keeps the debts and the custody of both tokens, and *)
(* the three adapters that ask the Policy and then act through the         *)
(* LendingAdapter (Vault, Transfer, Liquidation).                          *)
(*                                                                         *)
(* A transaction is atomic on chain, through every contract it enters, so  *)
(* each external function is one action; a revert anywhere undoes all of   *)
(* it, so every require of every contract on the way is a guard.           *)
(* Interleaving is between transactions of the users and of the owner.     *)
(***************************************************************************)
EXTENDS Registry, Token

CONSTANTS
    LendingAdapter, VaultAdapter, TransferAdapter, LiquidationAdapter,
    Amounts,            \* the amounts calls are made with
    WalletAmounts,      \* the amounts holders send each other outside the market
    Authorizations,     \* what the owner sets a releaser's authorization to
    DOWN_SCALE,         \* 10^(18 - decimals) of the borrow token, 1 if none
    UP_SCALE,           \* 10^(decimals - 18), 1 if none
    CollateralSupply,   \* what each user's wallet holds of the stock token
    BorrowSupply,       \* what each user's wallet holds of the borrow token
    PoolSupply,         \* what the adapter was funded with to lend out
    SelfCreditBound     \* bound on what self-transfers may add to the books

Releasers == {VaultAdapter, TransferAdapter, LiquidationAdapter}
Holders == Users \cup Writers
Recipients == Users \cup {LendingAdapter}

ASSUME MarketAssumption ==
    /\ LendingAdapter \in Writers
    /\ LendingAdapter \notin Users
    /\ Amounts \subseteq Word
    /\ WalletAmounts \subseteq Nat
    /\ Authorizations \subseteq BOOLEAN
    /\ DOWN_SCALE \in Nat \ {0}
    /\ UP_SCALE \in Nat \ {0}
    /\ DOWN_SCALE = 1 \/ UP_SCALE = 1
    /\ CollateralSupply \in Nat
    /\ BorrowSupply \in Nat
    /\ PoolSupply \in Nat
    /\ SelfCreditBound \in Nat

VARIABLES
    debt,          \* LendingAdapter.debt, in 18-decimal internal units
    releasers,     \* the addresses isAuthorizedReleaser is true for
    collateral,    \* balances of the collateral token
    borrowToken,   \* balances of the borrow token, in the token's own units
    selfCredited   \* history: what transfers from a user to itself added to
                   \* the positions; no code reads it

lendingVars == <<debt, releasers, collateral, borrowToken, selfCredited>>
vars == <<registryVars, lendingVars>>

MarketTypeOK ==
    /\ RegistryTypeOK
    /\ debt \in [Users -> Word]
    /\ releasers \subseteq Releasers
    /\ collateral \in [Holders -> Nat]
    /\ borrowToken \in [Holders -> Nat]
    /\ selfCredited \in 0..SelfCreditBound

(* The users' wallets are stocked and the adapter's pool is funded. *)
CollateralAtStart == [h \in Holders |-> IF h \in Users THEN CollateralSupply ELSE 0]

BorrowTokenAtStart ==
    [h \in Holders |-> CASE h = LendingAdapter -> PoolSupply
                         [] h \in Users        -> BorrowSupply
                         [] h \notin Users \cup {LendingAdapter} -> 0]

Init ==
    /\ RegistryInit
    /\ debt = [u \in Users |-> 0]
    /\ releasers = {}
    /\ collateral = CollateralAtStart
    /\ borrowToken = BorrowTokenAtStart
    /\ selfCredited = 0

-----------------------------------------------------------------------------
(* Internal units to token units, rounding down when paying out and up     *)
(* when pulling in.                                                        *)
ToTokenAmount(amount) == (amount \div DOWN_SCALE) * UP_SCALE

M_RoundDownOnPull(amount) == (amount \div DOWN_SCALE) * UP_SCALE

M_PullForgetsUpScale(amount) == (amount + DOWN_SCALE - 1) \div DOWN_SCALE

ToTokenAmountRoundUp(amount) ==
    ((amount + DOWN_SCALE - 1) \div DOWN_SCALE) * UP_SCALE

(* Both conversions compute in checked arithmetic. *)
ToTokenAmountFits(amount) == Fits(amount * UP_SCALE)

ToTokenAmountRoundUpFits(amount) ==
    /\ Fits(amount + DOWN_SCALE - 1)
    /\ ToTokenAmountFits(amount)

(* Asking the Policy about a user's position, and not being turned down. *)
PolicyAnswer(user, action, amount) ==
    CanExecute(asset, position[user], action, amount)

Permits(user, action, amount) ==
    /\ CanExecuteFits(asset, position[user], action)
    /\ ~Blocked(PolicyAnswer(user, action, amount))

-----------------------------------------------------------------------------
(***************************************************************************)
(* A call is its checks, Can<Call> where the clients of the market have to *)
(* foresee them, and what it then does.  The checks of an inner call       *)
(* belong to those of the call around it, since a revert anywhere undoes   *)
(* the whole transaction.                                                  *)
(*                                                                         *)
(* LendingAdapter: calls of a user.                                        *)
(***************************************************************************)
CanDeposit(user, amount) ==
    /\ initialized
    /\ CanMove(collateral, user, amount)
    /\ Fits(position[user] + amount)
    /\ CanSetPosition(LendingAdapter)

Deposit(user, amount) ==
    /\ CanDeposit(user, amount)
    /\ collateral' = Move(collateral, user, LendingAdapter, amount)
    /\ SetPositions(LendingAdapter, [position EXCEPT ![user] = @ + amount])
    /\ UNCHANGED <<debt, releasers, borrowToken, selfCredited>>

M_BorrowIgnoresExistingDebt(user, amount) ==
    /\ initialized
    /\ position[user] # 0
    /\ Permits(user, "BORROW", amount)
    /\ amount <= PolicyAnswer(user, "BORROW", amount).permittedAmount
    /\ Fits(debt[user] + amount)
    /\ ToTokenAmountFits(amount)
    /\ CanMove(borrowToken, LendingAdapter, ToTokenAmount(amount))

CanBorrow(user, amount) ==
    LET wouldOweTotal == debt[user] + amount IN
    /\ initialized
    /\ position[user] # 0
    /\ Permits(user, "BORROW", amount)
    /\ Fits(wouldOweTotal)
    /\ wouldOweTotal <= PolicyAnswer(user, "BORROW", amount).permittedAmount
    /\ ToTokenAmountFits(amount)
    /\ CanMove(borrowToken, LendingAdapter, ToTokenAmount(amount))

Borrow(user, amount) ==
    /\ CanBorrow(user, amount)
    /\ debt' = [debt EXCEPT ![user] = @ + amount]
    /\ borrowToken' = Move(borrowToken, LendingAdapter, user, ToTokenAmount(amount))
    /\ UNCHANGED <<registryVars, releasers, collateral, selfCredited>>

Repay(user, amount) ==
    /\ debt[user] # 0
    /\ amount <= debt[user]
    /\ ToTokenAmountRoundUpFits(amount)
    /\ CanMove(borrowToken, user, ToTokenAmountRoundUp(amount))
    /\ debt' = [debt EXCEPT ![user] = @ - amount]
    /\ borrowToken' = Move(borrowToken, user, LendingAdapter, ToTokenAmountRoundUp(amount))
    /\ UNCHANGED <<registryVars, releasers, collateral, selfCredited>>

(* LendingAdapter: calls another adapter makes, guarded by the allowlist.  *)
CanRelease(caller, user, amount) ==
    /\ caller \in releasers
    /\ amount <= position[user]
    /\ CanSetPosition(LendingAdapter)
    /\ CanMove(collateral, LendingAdapter, amount)

ReleaseCollateral(caller, user, amount) ==
    /\ CanRelease(caller, user, amount)
    /\ SetPositions(LendingAdapter, [position EXCEPT ![user] = @ - amount])
    /\ collateral' = Move(collateral, LendingAdapter, user, amount)
    /\ UNCHANGED <<debt, releasers, borrowToken, selfCredited>>

(* The last conjunct is the bound SelfCreditBound, no check of the code.   *)
CanTransferPosition(caller, from, to, amount) ==
    /\ caller \in releasers
    /\ amount <= position[from]
    /\ Fits(position[to] + amount)
    /\ CanSetPosition(LendingAdapter)
    /\ from = to => selfCredited + amount <= SelfCreditBound

(***************************************************************************)
(* Both balances are read before either is written, so when from = to the  *)
(* second write is computed from the balance before the first one.         *)
(***************************************************************************)
TransferPosition(caller, from, to, amount) ==
    LET fromRawBalance == position[from]
        toRawBalance   == position[to]
    IN
    /\ CanTransferPosition(caller, from, to, amount)
    /\ SetPositions(LendingAdapter,
            [position EXCEPT ![from] = fromRawBalance - amount,
                             ![to]   = toRawBalance + amount])
    /\ selfCredited' = IF from = to THEN selfCredited + amount ELSE selfCredited
    /\ UNCHANGED <<debt, releasers, collateral, borrowToken>>

CanSettleLiquidation(caller, borrower, repayAmount, seizeAmount, liquidator) ==
    /\ caller \in releasers
    /\ debt[borrower] # 0
    /\ repayAmount <= debt[borrower]
    /\ seizeAmount <= position[borrower]
    /\ CanSetPosition(LendingAdapter)
    /\ ToTokenAmountRoundUpFits(repayAmount)
    /\ CanMove(borrowToken, liquidator, ToTokenAmountRoundUp(repayAmount))
    /\ CanMove(collateral, LendingAdapter, seizeAmount)

M_SeizureNotWrittenBack(caller, borrower, repayAmount, seizeAmount, liquidator) ==
    /\ CanSettleLiquidation(caller, borrower, repayAmount, seizeAmount, liquidator)
    /\ debt' = [debt EXCEPT ![borrower] = @ - repayAmount]
    /\ SetPositions(LendingAdapter, position)
    /\ borrowToken' = Move(borrowToken, liquidator, LendingAdapter,
                           ToTokenAmountRoundUp(repayAmount))
    /\ collateral' = Move(collateral, LendingAdapter, liquidator, seizeAmount)
    /\ UNCHANGED <<releasers, selfCredited>>

SettleLiquidation(caller, borrower, repayAmount, seizeAmount, liquidator) ==
    /\ CanSettleLiquidation(caller, borrower, repayAmount, seizeAmount, liquidator)
    /\ debt' = [debt EXCEPT ![borrower] = @ - repayAmount]
    /\ SetPositions(LendingAdapter, [position EXCEPT ![borrower] = @ - seizeAmount])
    /\ borrowToken' = Move(borrowToken, liquidator, LendingAdapter,
                           ToTokenAmountRoundUp(repayAmount))
    /\ collateral' = Move(collateral, LendingAdapter, liquidator, seizeAmount)
    /\ UNCHANGED <<releasers, selfCredited>>

SetAuthorizedReleaser(releaser, authorized) ==
    /\ releasers' = IF authorized THEN releasers \cup {releaser}
                                  ELSE releasers \ {releaser}
    /\ UNCHANGED <<registryVars, debt, collateral, borrowToken, selfCredited>>

-----------------------------------------------------------------------------
(* VaultAdapter.  Policy judges the lifecycle only; the adapter itself     *)
(* keeps what is left of the position good for the debt.                   *)
M_WholePositionCoversDebt(user, remaining) ==
    debt[user] > 0 => CapacityOf(asset, position[user]) >= debt[user]

RemainderCoversDebt(user, remaining) ==
    debt[user] > 0 =>
        /\ CapacityOfFits(asset, remaining)
        /\ CapacityOf(asset, remaining) >= debt[user]

M_WithdrawNeverAll(user, amount) ==
    /\ initialized
    /\ position[user] # 0
    /\ amount < position[user]
    /\ Permits(user, "WITHDRAW", amount)
    /\ RemainderCoversDebt(user, position[user] - amount)
    /\ CanRelease(VaultAdapter, user, amount)

CanWithdraw(user, amount) ==
    /\ initialized
    /\ position[user] # 0
    /\ amount <= position[user]
    /\ Permits(user, "WITHDRAW", amount)
    /\ RemainderCoversDebt(user, position[user] - amount)
    /\ CanRelease(VaultAdapter, user, amount)

Withdraw(user, amount) ==
    /\ CanWithdraw(user, amount)
    /\ ReleaseCollateral(VaultAdapter, user, amount)

(* TransferAdapter.  Any debt at all blocks the transfer. *)
CanTransfer(user, to, amount) ==
    /\ initialized
    /\ position[user] # 0
    /\ amount <= position[user]
    /\ Permits(user, "TRANSFER", amount)
    /\ debt[user] = 0
    /\ CanTransferPosition(TransferAdapter, user, to, amount)

Transfer(user, to, amount) ==
    /\ CanTransfer(user, to, amount)
    /\ TransferPosition(TransferAdapter, user, to, amount)

(* LiquidationAdapter.  Anyone may call it, for anyone, paying and seizing *)
(* independent amounts.                                                    *)
M_LiquidateWithoutPosition(liquidator, borrower, repayAmount, seizeAmount) ==
    /\ initialized
    /\ Permits(borrower, "LIQUIDATE", debt[borrower])
    /\ CanSettleLiquidation(LiquidationAdapter, borrower, repayAmount, seizeAmount, liquidator)

CanLiquidate(liquidator, borrower, repayAmount, seizeAmount) ==
    /\ initialized
    /\ position[borrower] # 0
    /\ seizeAmount <= position[borrower]
    /\ debt[borrower] # 0
    /\ repayAmount <= debt[borrower]
    /\ Permits(borrower, "LIQUIDATE", debt[borrower])
    /\ CanSettleLiquidation(LiquidationAdapter, borrower, repayAmount, seizeAmount, liquidator)

Liquidate(liquidator, borrower, repayAmount, seizeAmount) ==
    /\ CanLiquidate(liquidator, borrower, repayAmount, seizeAmount)
    /\ SettleLiquidation(LiquidationAdapter, borrower, repayAmount, seizeAmount, liquidator)

(* Users move tokens among themselves, and may send them to the adapter. *)
WalletTransfer(from, to, amount) ==
    /\ \/ /\ CanMove(collateral, from, amount)
          /\ collateral' = Move(collateral, from, to, amount)
          /\ UNCHANGED borrowToken
       \/ /\ CanMove(borrowToken, from, amount)
          /\ borrowToken' = Move(borrowToken, from, to, amount)
          /\ UNCHANGED collateral
    /\ UNCHANGED <<registryVars, debt, releasers, selfCredited>>

-----------------------------------------------------------------------------
OwnerNext ==
    \/ RegistryOwnerNext /\ UNCHANGED lendingVars
    \/ \E r \in Releasers, authorized \in Authorizations : SetAuthorizedReleaser(r, authorized)

UserNext(user) ==
    \/ \E amount \in Amounts : Deposit(user, amount)
    \/ \E amount \in Amounts : Borrow(user, amount)
    \/ \E amount \in Amounts : Repay(user, amount)
    \/ \E amount \in Amounts : Withdraw(user, amount)
    \/ \E to \in Users, amount \in Amounts : Transfer(user, to, amount)
    \/ \E borrower \in Users, repayAmount, seizeAmount \in Amounts :
            Liquidate(user, borrower, repayAmount, seizeAmount)
    \/ \E to \in Recipients, amount \in WalletAmounts : WalletTransfer(user, to, amount)

Next == OwnerNext \/ \E user \in Users : UserNext(user)

Spec == Init /\ [][Next]_vars

-----------------------------------------------------------------------------
(* Vocabulary of the properties. *)
Capacity(user) == CapacityOf(asset, position[user])
Threshold(user) == ThresholdOf(asset, position[user])

WithinCapacity(user) == debt[user] <= Capacity(user)
WithinMaintenance(user) == debt[user] <= Threshold(user)

(* What the pool holds and what one user owes it, in the finer of the units. *)
PoolAndDebt(user) ==
    DOWN_SCALE * borrowToken[LendingAdapter] + UP_SCALE * debt[user]

Matured == asset.lifecycle \in {"MATURING", "REDEEMABLE", "REDEEMED"}

(* As deployed, the asset listed, and no transfer from a user to itself so far. *)
Wired ==
    /\ initialized
    /\ positionWriter = LendingAdapter
    /\ releasers = Releasers
    /\ selfCredited = 0

(* What an ERC-20 keeps its totalSupply in: an assumption, made by the      *)
(* modules about clients, on what the wallets and the pool start with.      *)
SuppliesFit ==
    /\ Fits(Total(CollateralAtStart))
    /\ Fits(Total(BorrowTokenAtStart))

(* Apart from a change of the asset's parameters. *)
SameParameters == asset' = [asset EXCEPT !.lifecycle = asset'.lifecycle]

-----------------------------------------------------------------------------
(* Safety. *)

(***************************************************************************)
(* The positions on the books never add up to more than the collateral in  *)
(* custody, but for what transfers from a user to itself credited: no      *)
(* sequence of deposits, withdrawals, transfers between users and          *)
(* liquidations loses or invents a claim.                                  *)
(***************************************************************************)
BooksBacked ==
    Total(position) <= collateral[LendingAdapter] + selfCredited

(***************************************************************************)
(* Rounding never costs the lenders: tokens in the pool plus debts owed,   *)
(* in internal units, are worth at least what the pool was funded with,    *)
(* whatever amounts are borrowed, repaid and liquidated.                   *)
(***************************************************************************)
LoanBookSolvent ==
    DOWN_SCALE * borrowToken[LendingAdapter] + UP_SCALE * Total(debt)
        >= DOWN_SCALE * PoolSupply

(***************************************************************************)
(* The same, step by step: whenever a debt changes, the pool and that debt *)
(* together are worth no less than before (a borrower is never handed more *)
(* than the debt recorded, a debt never falls by more than is paid in),    *)
(* and the pool pays out only against a debt.                              *)
(***************************************************************************)
RoundingFavoursPool ==
    [][/\ \A u \in Users : debt'[u] # debt[u] => PoolAndDebt(u)' >= PoolAndDebt(u)
       /\ borrowToken'[LendingAdapter] < borrowToken[LendingAdapter] =>
              \E u \in Users : debt'[u] > debt[u]]_vars

(***************************************************************************)
(* No transaction of any user, on its own position or another's, takes a   *)
(* position from within its borrowing capacity to beyond it.  Only the     *)
(* owner's repricing does.                                                 *)
(***************************************************************************)
OnlyRepricingExceedsCapacity ==
    [][SameParameters =>
          \A u \in Users : WithinCapacity(u) => WithinCapacity(u)']_vars

(***************************************************************************)
(* Collateral that leaves a position within its maintenance margin (it is  *)
(* withdrawn or transferred by its owner, it cannot have been seized)      *)
(* leaves the debt alone and within the capacity that remains.             *)
(***************************************************************************)
HealthyCollateralLeavesSafely ==
    [][\A u \in Users :
          /\ WithinMaintenance(u)
          /\ position'[u] < position[u]
          => /\ debt'[u] = debt[u]
             /\ WithinCapacity(u)']_vars

(***************************************************************************)
(* While the asset is not ACTIVE the market only takes risk off: no        *)
(* position shrinks and no debt grows.  Deposits and repayments go on.     *)
(***************************************************************************)
FrozenOnlyDerisks ==
    [][asset.lifecycle # "ACTIVE" =>
          \A u \in Users : position'[u] >= position[u] /\ debt'[u] <= debt[u]]_vars

(***************************************************************************)
(* From MATURING on there is no way back, and no adapter releases          *)
(* collateral any more: what is in custody then stays there, also when the *)
(* asset is REDEEMABLE or REDEEMED.                                        *)
(***************************************************************************)
MaturedCollateralIsLocked ==
    [][Matured => Matured' /\ collateral'[LendingAdapter] >= collateral[LendingAdapter]]_vars

(***************************************************************************)
(* A debt whose collateral has been seized to the last unit is out of the  *)
(* liquidators' reach (which contradicts what the adapter's comments say,  *)
(* see AnyoneCanLiquidate): it falls only when its owner pays for it.      *)
(***************************************************************************)
StrandedDebtOnlyOwnerRepays ==
    [][\A u \in Users :
          position[u] = 0 /\ debt'[u] < debt[u] =>
              borrowToken'[u] < borrowToken[u]]_vars

(***************************************************************************)
(* The market keeps the promise MarginZones states: classify every user by *)
(* debt, capacity and maintenance threshold, and every transaction of the  *)
(* market is one of the moves allowed there.                               *)
(***************************************************************************)
ZoneOf(user) ==
    CASE debt[user] = 0                                  -> "none"
      [] debt[user] # 0 /\ WithinCapacity(user)          -> "within"
      [] ~WithinCapacity(user) /\ WithinMaintenance(user) -> "margin"
      [] ~WithinCapacity(user) /\ ~WithinMaintenance(user) -> "liquidatable"

MarketStatus ==
    CASE Matured                          -> "matured"
      [] asset.lifecycle = "ACTIVE"       -> "open"
      [] ~Matured /\ asset.lifecycle # "ACTIVE" -> "frozen"

Margin == INSTANCE MarginZones
    WITH zone <- [u \in Users |-> ZoneOf(u)], status <- MarketStatus,
         terms <- [asset EXCEPT !.lifecycle = "ACTIVE"]

KeepsMarginPromise == Margin!Spec

(***************************************************************************)
(* What DeployLiquidationAdapter.s.sol promises ("anyone can call          *)
(* liquidate(borrower, repayAmount, seizeAmount) for any                   *)
(* undercollateralized borrower"): on a wired market, while the asset is   *)
(* ACTIVE and the engines answer, a debt beyond its maintenance threshold  *)
(* can be liquidated by every user, with some amounts.                     *)
(***************************************************************************)
AnyoneCanLiquidate ==
    \A liquidator, borrower \in Users :
        /\ Wired
        /\ asset.lifecycle = "ACTIVE"
        /\ CanExecuteFits(asset, position[borrower], "LIQUIDATE")
        /\ ~WithinMaintenance(borrower)
        => \E repayAmount, seizeAmount \in Amounts :
               CanLiquidate(liquidator, borrower, repayAmount, seizeAmount)

(***************************************************************************)
(* What transferPosition's comment promises ("Reassigns amount of          *)
(* rawBalance from from's position to to's position"): books grow only     *)
(* when collateral comes into custody.                                     *)
(***************************************************************************)
ReassignmentConservesBooks ==
    [][Total(position)' > Total(position) =>
          collateral'[LendingAdapter] > collateral[LendingAdapter]]_vars

=============================================================================
