------------------------ MODULE LendingMarketProofs ------------------------
(***************************************************************************)
(* Theorems of the lending market, for every set of users, every amount,   *)
(* price, factor, word width and borrow token precision.                   *)
(***************************************************************************)
EXTENDS LendingMarket, CoreTheorems

(* A token transfer keeps balances natural numbers. *)
LEMMA MoveType ==
    ASSUME NEW b \in [Holders -> Nat], NEW from \in Holders, NEW to \in Holders,
           NEW amount \in Nat, CanMove(b, from, amount)
    PROVE  Move(b, from, to, amount) \in [Holders -> Nat]
  <1> DEFINE debited == [b EXCEPT ![from] = @ - amount]
  <1>1. debited \in [Holders -> Nat]
    BY DEF CanMove
  <1> QED
    BY <1>1 DEF Move

LEMMA TokenAmountNat ==
    ASSUME NEW amount \in Nat
    PROVE  /\ ToTokenAmount(amount) \in Nat
           /\ ToTokenAmountRoundUp(amount) \in Nat
  <1>1. amount + DOWN_SCALE - 1 \in Nat
    BY MarketAssumption
  <1>2. /\ amount \div DOWN_SCALE \in Nat
        /\ (amount + DOWN_SCALE - 1) \div DOWN_SCALE \in Nat
    BY <1>1, DivNat, MarketAssumption
  <1> QED
    BY <1>2, MarketAssumption DEF ToTokenAmount, ToTokenAmountRoundUp

-----------------------------------------------------------------------------
(* Type correctness: one lemma per action that writes. *)
LEMMA InitType == Init => MarketTypeOK
  <1> SUFFICES ASSUME Init PROVE MarketTypeOK
    OBVIOUS
  <1>1. 0 \in Word /\ 0 \in Bps
    BY EngineAssumption DEF Word, Bps
  <1>2. asset \in AssetState
    BY <1>1 DEF Init, RegistryInit, AssetState, LifecycleState
  <1>3. RegistryTypeOK
    BY <1>1, <1>2 DEF Init, RegistryInit, RegistryTypeOK
  <1>4. collateral \in [Holders -> Nat] /\ borrowToken \in [Holders -> Nat]
    BY MarketAssumption DEF Init, CollateralAtStart, BorrowTokenAtStart
  <1> QED
    BY <1>1, <1>3, <1>4, MarketAssumption DEF Init, MarketTypeOK

LEMMA OwnerType ==
    ASSUME MarketTypeOK, OwnerNext
    PROVE  MarketTypeOK'
  <1> USE DEF MarketTypeOK, RegistryTypeOK
  <1>1. CASE RegistryOwnerNext /\ UNCHANGED lendingVars
    BY <1>1, RegistryOwnerType DEF lendingVars
  <1>2. CASE \E r \in Releasers, authorized \in Authorizations :
                SetAuthorizedReleaser(r, authorized)
    BY <1>2 DEF SetAuthorizedReleaser, registryVars
  <1> QED
    BY <1>1, <1>2 DEF OwnerNext

(* The calls that agents make with amounts the Policy told them, for every *)
(* word.                                                                   *)
LEMMA BorrowType ==
    ASSUME MarketTypeOK, NEW user \in Users, NEW amount \in Word, Borrow(user, amount)
    PROVE  MarketTypeOK'
  <1>1. /\ user \in Holders /\ LendingAdapter \in Holders /\ amount \in Nat
    BY MarketAssumption, EngineAssumption DEF Word, Holders
  <1> QED
    BY <1>1, MoveType, TokenAmountNat, EngineAssumption
    DEF Borrow, registryVars, Fits, Word, MarketTypeOK, RegistryTypeOK, CanBorrow

LEMMA WithdrawType ==
    ASSUME MarketTypeOK, NEW user \in Users, NEW amount \in Word, Withdraw(user, amount)
    PROVE  MarketTypeOK'
  <1>1. /\ user \in Holders /\ LendingAdapter \in Holders /\ amount \in Nat
    BY MarketAssumption, EngineAssumption DEF Word, Holders
  <1> QED
    BY <1>1, MoveType, EngineAssumption
    DEF Withdraw, ReleaseCollateral, SetPositions, Word, MarketTypeOK, RegistryTypeOK,
      CanWithdraw, CanRelease

LEMMA TransferType ==
    ASSUME MarketTypeOK, NEW user \in Users, NEW to \in Users, NEW amount \in Word,
           Transfer(user, to, amount)
    PROVE  MarketTypeOK'
  <1> USE DEF MarketTypeOK, RegistryTypeOK
  <1>1. amount \in Nat
    BY EngineAssumption DEF Word
  <1>2. position' \in [Users -> Word]
    BY <1>1, EngineAssumption DEF Transfer, TransferPosition, SetPositions, Fits, Word,
      CanTransfer, CanTransferPosition
  <1>3. selfCredited' \in 0..SelfCreditBound
    BY <1>1, MarketAssumption DEF Transfer, TransferPosition,
      CanTransfer, CanTransferPosition
  <1> QED
    BY <1>2, <1>3 DEF Transfer, TransferPosition, SetPositions

LEMMA UserType ==
    ASSUME MarketTypeOK, NEW user \in Users, UserNext(user)
    PROVE  MarketTypeOK'
  <1> USE DEF MarketTypeOK, RegistryTypeOK
  <1>0. /\ Amounts \subseteq Nat /\ Word \subseteq Nat /\ WalletAmounts \subseteq Nat
        /\ Amounts \subseteq Word
        /\ Users \subseteq Holders /\ Recipients \subseteq Holders /\ LendingAdapter \in Holders
    BY MarketAssumption, EngineAssumption DEF Word, Holders, Recipients
  <1>1. ASSUME NEW amount \in Amounts, Deposit(user, amount)
        PROVE  MarketTypeOK'
    BY <1>0, <1>1, MoveType, EngineAssumption DEF Deposit, SetPositions, Fits, Word,
      CanDeposit
  <1>2. ASSUME NEW amount \in Amounts, Borrow(user, amount)
        PROVE  MarketTypeOK'
    BY <1>0, <1>2, BorrowType
  <1>3. ASSUME NEW amount \in Amounts, Repay(user, amount)
        PROVE  MarketTypeOK'
    <2>1. ToTokenAmountRoundUp(amount) \in Nat
      BY <1>0, TokenAmountNat
    <2>2. borrowToken' \in [Holders -> Nat]
      BY <1>0, <1>3, <2>1, MoveType DEF Repay
    <2>3. debt' \in [Users -> Word]
      BY <1>0, <1>3, EngineAssumption DEF Repay, Word
    <2> QED
      BY <1>3, <2>2, <2>3 DEF Repay, registryVars
  <1>4. ASSUME NEW amount \in Amounts, Withdraw(user, amount)
        PROVE  MarketTypeOK'
    BY <1>0, <1>4, WithdrawType
  <1>5. ASSUME NEW to \in Users, NEW amount \in Amounts, Transfer(user, to, amount)
        PROVE  MarketTypeOK'
    BY <1>0, <1>5, TransferType
  <1>6. ASSUME NEW borrower \in Users, NEW repayAmount \in Amounts,
               NEW seizeAmount \in Amounts,
               Liquidate(user, borrower, repayAmount, seizeAmount)
        PROVE  MarketTypeOK'
    <2>1. SettleLiquidation(LiquidationAdapter, borrower, repayAmount, seizeAmount, user)
      BY <1>6 DEF Liquidate
    <2>2. position' \in [Users -> Word] /\ debt' \in [Users -> Word]
      BY <1>0, <2>1, EngineAssumption DEF SettleLiquidation, SetPositions, Word,
        CanSettleLiquidation
    <2>3. collateral' \in [Holders -> Nat] /\ borrowToken' \in [Holders -> Nat]
      BY <1>0, <2>1, MoveType, TokenAmountNat DEF SettleLiquidation, CanSettleLiquidation
    <2> QED
      BY <2>1, <2>2, <2>3 DEF SettleLiquidation, SetPositions
  <1>7. ASSUME NEW to \in Recipients, NEW amount \in WalletAmounts,
               WalletTransfer(user, to, amount)
        PROVE  MarketTypeOK'
    BY <1>0, <1>7, MoveType DEF WalletTransfer, registryVars
  <1> QED
    BY <1>1, <1>2, <1>3, <1>4, <1>5, <1>6, <1>7 DEF UserNext

LEMMA TypeStep == MarketTypeOK /\ [Next]_vars => MarketTypeOK'
  <1>1. MarketTypeOK /\ UNCHANGED vars => MarketTypeOK'
    BY DEF MarketTypeOK, RegistryTypeOK, vars, registryVars, lendingVars
  <1> QED
    BY <1>1, OwnerType, UserType DEF Next

(***************************************************************************)
(* Type correctness: balances, debts and positions never go negative or    *)
(* past a word, and the factors the Registry stores stay within 100%.      *)
(***************************************************************************)
THEOREM TypeCorrect == Spec => []MarketTypeOK
  BY InitType, TypeStep, PTL DEF Spec

-----------------------------------------------------------------------------
(***************************************************************************)
(* Capacity is only lost by repricing.                                     *)
(***************************************************************************)
(* The lifecycle state does not enter the engines. *)
LEMMA CapacityIgnoresLifecycle ==
    ASSUME MarketTypeOK, MarketTypeOK', SameParameters, NEW r \in Nat
    PROVE  CapacityOf(asset', r) = CapacityOf(asset, r)
  <1>1. /\ asset'.price = asset.price
        /\ asset'.multiplier = asset.multiplier
        /\ asset'.collateralFactorBps = asset.collateralFactorBps
        /\ asset'.riskAdjustmentBps = asset.riskAdjustmentBps
    BY DEF SameParameters, MarketTypeOK, RegistryTypeOK, AssetState
  <1> QED
    BY <1>1 DEF CapacityOf, ValueOf

(* A user who loses no collateral and takes no debt keeps within capacity. *)
LEMMA KeepsWithinCapacity ==
    ASSUME MarketTypeOK, MarketTypeOK', SameParameters,
           NEW u \in Users, WithinCapacity(u),
           position'[u] >= position[u], debt'[u] <= debt[u]
    PROVE  WithinCapacity(u)'
  <1>1. /\ asset \in AssetState
        /\ position[u] \in Nat /\ position'[u] \in Nat
        /\ debt[u] \in Nat /\ debt'[u] \in Nat
    BY EngineAssumption DEF MarketTypeOK, RegistryTypeOK, Word
  <1>2. CapacityOf(asset, position[u]) <= CapacityOf(asset, position'[u])
    BY <1>1, CapacityMonotone
  <1>3. CapacityOf(asset', position'[u]) = CapacityOf(asset, position'[u])
    BY <1>1, CapacityIgnoresLifecycle
  <1>4. CapacityOf(asset, position[u]) \in Nat /\ CapacityOf(asset, position'[u]) \in Nat
    BY <1>1, CapacityNat
  <1> QED
    BY <1>1, <1>2, <1>3, <1>4 DEF WithinCapacity, Capacity

(* What the users' transactions do to positions and debts, and no more. *)
LEMMA CapacityStep ==
    ASSUME MarketTypeOK, MarketTypeOK', SameParameters, [Next]_vars,
           NEW u \in Users, WithinCapacity(u)
    PROVE  WithinCapacity(u)'
  <1>0. /\ asset \in AssetState /\ asset' \in AssetState
        /\ position \in [Users -> Nat] /\ debt \in [Users -> Nat]
        /\ position' \in [Users -> Nat] /\ debt' \in [Users -> Nat]
        /\ Amounts \subseteq Nat
    BY EngineAssumption, MarketAssumption DEF MarketTypeOK, RegistryTypeOK, Word
  <1>1. ASSUME position'[u] >= position[u], debt'[u] <= debt[u]
        PROVE  WithinCapacity(u)'
    BY <1>1, KeepsWithinCapacity
  <1>2. ASSUME UNCHANGED <<position, debt>>
        PROVE  WithinCapacity(u)'
    BY <1>0, <1>1, <1>2
  <1>3. CASE UNCHANGED vars
    BY <1>2, <1>3 DEF vars, registryVars, lendingVars
  <1>4. CASE OwnerNext
    BY <1>2, <1>4
    DEF OwnerNext, RegistryOwnerNext, SetPositionWriter, InitializeAsset,
        UpdateAssetParameters, TransitionLifecycle, SetAuthorizedReleaser,
        registryVars, lendingVars
  <1>5. ASSUME NEW user \in Users, UserNext(user)
        PROVE  WithinCapacity(u)'
    <2>1. ASSUME NEW amount \in Amounts, Deposit(user, amount)
          PROVE  WithinCapacity(u)'
      BY <1>0, <1>1, <2>1 DEF Deposit, SetPositions
    <2>2. ASSUME NEW amount \in Amounts, Borrow(user, amount)
          PROVE  WithinCapacity(u)'
      <3>1. CASE u = user
        <4>1. debt'[u] <= PolicyAnswer(u, "BORROW", amount).permittedAmount
          BY <1>0, <2>2, <3>1 DEF Borrow, CanBorrow
        <4>2. PolicyAnswer(u, "BORROW", amount).permittedAmount = CapacityOf(asset, position[u])
          BY <1>0, <2>2, <3>1, PolicyPermits DEF Borrow, Permits, PolicyAnswer, Action,
            CanBorrow
        <4>3. position'[u] = position[u] /\ asset' = asset
          BY <2>2 DEF Borrow, registryVars
        <4> QED
          BY <4>1, <4>2, <4>3 DEF WithinCapacity, Capacity
      <3>2. CASE u # user
        BY <1>0, <1>1, <2>2, <3>2 DEF Borrow, registryVars
      <3> QED
        BY <3>1, <3>2
    <2>3. ASSUME NEW amount \in Amounts, Repay(user, amount)
          PROVE  WithinCapacity(u)'
      BY <1>0, <1>1, <2>3 DEF Repay, registryVars
    <2>4. ASSUME NEW amount \in Amounts, Withdraw(user, amount)
          PROVE  WithinCapacity(u)'
      <3>0. /\ position' = [position EXCEPT ![user] = @ - amount]
            /\ debt' = debt /\ asset' = asset
        BY <2>4 DEF Withdraw, ReleaseCollateral, SetPositions
      <3>1. CASE u = user
        <4>1. position'[u] = position[u] - amount
          BY <1>0, <3>0, <3>1
        <4>2. RemainderCoversDebt(u, position'[u])
          BY <2>4, <3>1, <4>1 DEF Withdraw, CanWithdraw
        <4>3. CapacityOf(asset, position'[u]) \in Nat
          BY <1>0, CapacityNat
        <4> QED
          BY <1>0, <3>0, <4>2, <4>3 DEF RemainderCoversDebt, WithinCapacity, Capacity
      <3>2. CASE u # user
        BY <1>0, <1>1, <3>0, <3>2
      <3> QED
        BY <3>1, <3>2
    <2>5. ASSUME NEW to \in Users, NEW amount \in Amounts, Transfer(user, to, amount)
          PROVE  WithinCapacity(u)'
      <3>0. /\ position' = [position EXCEPT ![user] = position[user] - amount,
                                           ![to] = position[to] + amount]
            /\ debt' = debt /\ asset' = asset /\ debt[user] = 0
        BY <2>5 DEF Transfer, TransferPosition, SetPositions,
          CanTransfer, CanTransferPosition
      <3>1. CASE u = user
        <4>1. CapacityOf(asset, position'[u]) \in Nat
          BY <1>0, CapacityNat
        <4> QED
          BY <3>0, <3>1, <4>1 DEF WithinCapacity, Capacity
      <3>2. CASE u # user
        BY <1>0, <1>1, <3>0, <3>2
      <3> QED
        BY <3>1, <3>2
    <2>6. ASSUME NEW borrower \in Users, NEW repayAmount \in Amounts,
                 NEW seizeAmount \in Amounts,
                 Liquidate(user, borrower, repayAmount, seizeAmount)
          PROVE  WithinCapacity(u)'
      <3>1. CASE u = borrower
        <4>1. debt[u] > ThresholdOf(asset, position[u])
          BY <1>0, <2>6, <3>1, PolicyPermits DEF Liquidate, Permits, PolicyAnswer, Action,
            CanLiquidate
        <4>2. ~WithinCapacity(u)
          BY <1>0, <4>1, CapacityAtMostThreshold, CapacityNat, ThresholdNat
          DEF WithinCapacity, Capacity
        <4> QED
          BY <4>2
      <3>2. CASE u # borrower
        BY <1>0, <1>1, <2>6, <3>2 DEF Liquidate, SettleLiquidation, SetPositions
      <3> QED
        BY <3>1, <3>2
    <2>7. ASSUME NEW to \in Recipients, NEW amount \in WalletAmounts,
                 WalletTransfer(user, to, amount)
          PROVE  WithinCapacity(u)'
      BY <1>2, <2>7 DEF WalletTransfer, registryVars
    <2> QED
      BY <1>5, <2>1, <2>2, <2>3, <2>4, <2>5, <2>6, <2>7 DEF UserNext
  <1> QED
    BY <1>3, <1>4, <1>5 DEF Next

(***************************************************************************)
(* No transaction of any user takes anyone from within the borrowing       *)
(* capacity to beyond it: the lending adapter's cumulative check, the      *)
(* vault adapter's recomputed remainder, the transfer adapter's no-debt    *)
(* rule and the gap between capacity and maintenance threshold together    *)
(* leave repricing by the owner as the only way there.                     *)
(***************************************************************************)
THEOREM OnlyRepricing == Spec => OnlyRepricingExceedsCapacity
  <1>1. MarketTypeOK /\ MarketTypeOK' /\ [Next]_vars =>
          [SameParameters =>
             \A u \in Users : WithinCapacity(u) => WithinCapacity(u)']_vars
    BY CapacityStep
  <1> QED
    BY TypeCorrect, <1>1, PTL DEF Spec, OnlyRepricingExceedsCapacity

-----------------------------------------------------------------------------
(***************************************************************************)
(* What the lifecycle stops.                                               *)
(***************************************************************************)
LEMMA PermitsOnlyActive ==
    ASSUME MarketTypeOK, NEW u \in Users, NEW action \in Action, NEW amount \in Nat,
           Permits(u, action, amount)
    PROVE  asset.lifecycle = "ACTIVE"
  <1>1. asset \in AssetState /\ position[u] \in Nat
    BY EngineAssumption DEF MarketTypeOK, RegistryTypeOK, Word
  <1> QED
    BY <1>1, PolicyPermits DEF Permits, PolicyAnswer

(* Off ACTIVE, users only deposit, repay and move tokens between wallets. *)
LEMMA FrozenUserStep ==
    ASSUME MarketTypeOK, asset.lifecycle # "ACTIVE",
           NEW user \in Users, UserNext(user)
    PROVE  \/ \E amount \in Amounts : Deposit(user, amount)
           \/ \E amount \in Amounts : Repay(user, amount)
           \/ \E to \in Recipients, amount \in WalletAmounts : WalletTransfer(user, to, amount)
  <1>0. Amounts \subseteq Nat /\ debt \in [Users -> Nat]
    BY EngineAssumption, MarketAssumption DEF MarketTypeOK, Word
  <1>1. \A amount \in Amounts : ~Borrow(user, amount)
    BY <1>0, PermitsOnlyActive DEF Borrow, Action, CanBorrow
  <1>2. \A amount \in Amounts : ~Withdraw(user, amount)
    BY <1>0, PermitsOnlyActive DEF Withdraw, Action, CanWithdraw
  <1>3. \A to \in Users, amount \in Amounts : ~Transfer(user, to, amount)
    BY <1>0, PermitsOnlyActive DEF Transfer, Action, CanTransfer
  <1>4. \A borrower \in Users, repayAmount, seizeAmount \in Amounts :
            ~Liquidate(user, borrower, repayAmount, seizeAmount)
    BY <1>0, PermitsOnlyActive DEF Liquidate, Action, CanLiquidate
  <1> QED
    BY <1>1, <1>2, <1>3, <1>4 DEF UserNext

LEMMA FrozenStep ==
    ASSUME MarketTypeOK, [Next]_vars, asset.lifecycle # "ACTIVE", NEW u \in Users
    PROVE  /\ position'[u] >= position[u] /\ debt'[u] <= debt[u]
           /\ collateral'[LendingAdapter] >= collateral[LendingAdapter]
  <1>0. /\ position \in [Users -> Nat] /\ debt \in [Users -> Nat]
        /\ collateral \in [Holders -> Nat]
        /\ Amounts \subseteq Nat /\ WalletAmounts \subseteq Nat
        /\ Users \subseteq Holders /\ Recipients \subseteq Holders /\ LendingAdapter \in Holders
        /\ LendingAdapter \notin Users
    BY EngineAssumption, MarketAssumption DEF MarketTypeOK, RegistryTypeOK, Word, Holders, Recipients
  <1>1. ASSUME UNCHANGED <<position, debt, collateral>>
        PROVE  /\ position'[u] >= position[u] /\ debt'[u] <= debt[u]
               /\ collateral'[LendingAdapter] >= collateral[LendingAdapter]
    BY <1>0, <1>1
  <1>2. CASE UNCHANGED vars
    BY <1>1, <1>2 DEF vars, registryVars, lendingVars
  <1>3. CASE OwnerNext
    BY <1>1, <1>3
    DEF OwnerNext, RegistryOwnerNext, SetPositionWriter, InitializeAsset,
        UpdateAssetParameters, TransitionLifecycle, SetAuthorizedReleaser,
        registryVars, lendingVars
  <1>4. ASSUME NEW user \in Users, UserNext(user)
        PROVE  /\ position'[u] >= position[u] /\ debt'[u] <= debt[u]
               /\ collateral'[LendingAdapter] >= collateral[LendingAdapter]
    <2>1. ASSUME NEW amount \in Amounts, Deposit(user, amount)
          PROVE  /\ position'[u] >= position[u] /\ debt'[u] <= debt[u]
                 /\ collateral'[LendingAdapter] >= collateral[LendingAdapter]
      <3>1. position'[u] >= position[u] /\ debt'[u] <= debt[u]
        BY <1>0, <2>1 DEF Deposit, SetPositions
      <3>2. collateral'[LendingAdapter] = collateral[LendingAdapter] + amount
        BY <1>0, <2>1 DEF Deposit, Move
      <3> QED
        BY <1>0, <3>1, <3>2
    <2>2. ASSUME NEW amount \in Amounts, Repay(user, amount)
          PROVE  /\ position'[u] >= position[u] /\ debt'[u] <= debt[u]
                 /\ collateral'[LendingAdapter] >= collateral[LendingAdapter]
      BY <1>0, <2>2 DEF Repay, registryVars
    <2>3. ASSUME NEW to \in Recipients, NEW amount \in WalletAmounts,
                 WalletTransfer(user, to, amount)
          PROVE  /\ position'[u] >= position[u] /\ debt'[u] <= debt[u]
                 /\ collateral'[LendingAdapter] >= collateral[LendingAdapter]
      <3>1. position'[u] >= position[u] /\ debt'[u] <= debt[u]
        BY <1>0, <2>3 DEF WalletTransfer, registryVars
      <3>2. CASE collateral' = collateral
        BY <1>0, <3>1, <3>2
      <3>3. CASE collateral' = Move(collateral, user, to, amount)
        <4>1. collateral'[LendingAdapter] \in
                  {collateral[LendingAdapter], collateral[LendingAdapter] + amount}
          BY <1>0, <3>3 DEF Move
        <4> QED
          BY <1>0, <3>1, <4>1
      <3> QED
        BY <2>3, <3>2, <3>3 DEF WalletTransfer
    <2> QED
      BY <1>4, <2>1, <2>2, <2>3, FrozenUserStep
  <1> QED
    BY <1>2, <1>3, <1>4 DEF Next

(***************************************************************************)
(* While the asset is not ACTIVE no transaction adds risk anywhere.        *)
(***************************************************************************)
THEOREM FrozenDerisks == Spec => FrozenOnlyDerisks
  <1>1. MarketTypeOK /\ [Next]_vars =>
          [asset.lifecycle # "ACTIVE" =>
             \A u \in Users : position'[u] >= position[u] /\ debt'[u] <= debt[u]]_vars
    BY FrozenStep
  <1> QED
    BY TypeCorrect, <1>1, PTL DEF Spec, FrozenOnlyDerisks

(***************************************************************************)
(* Before its initialization an asset is in the state the zero values      *)
(* spell, so that initializeAsset, which sets ACTIVE, undoes no maturity.  *)
(***************************************************************************)
ActiveBeforeInitialized == ~initialized => asset.lifecycle = "ACTIVE"

(* No user's transaction writes the asset. *)
LEMMA UserKeepsAsset ==
    ASSUME NEW user \in Users, UserNext(user)
    PROVE  UNCHANGED <<initialized, asset>>
  <1>1. ASSUME NEW amount \in Amounts,
               \/ Deposit(user, amount) \/ Borrow(user, amount)
               \/ Repay(user, amount) \/ Withdraw(user, amount)
        PROVE  UNCHANGED <<initialized, asset>>
    BY <1>1 DEF Deposit, Borrow, Repay, Withdraw, ReleaseCollateral, SetPositions, registryVars
  <1>2. ASSUME NEW to \in Users, NEW amount \in Amounts, Transfer(user, to, amount)
        PROVE  UNCHANGED <<initialized, asset>>
    BY <1>2 DEF Transfer, TransferPosition, SetPositions
  <1>3. ASSUME NEW borrower \in Users, NEW repayAmount \in Amounts,
               NEW seizeAmount \in Amounts,
               Liquidate(user, borrower, repayAmount, seizeAmount)
        PROVE  UNCHANGED <<initialized, asset>>
    BY <1>3 DEF Liquidate, SettleLiquidation, SetPositions
  <1>4. ASSUME NEW to \in Recipients, NEW amount \in WalletAmounts,
               WalletTransfer(user, to, amount)
        PROVE  UNCHANGED <<initialized, asset>>
    BY <1>4 DEF WalletTransfer, registryVars
  <1> QED
    BY <1>1, <1>2, <1>3, <1>4 DEF UserNext

(* The lifecycle graph has no edge out of the three last states but to     *)
(* one of them, and a parameter update keeps the lifecycle.                *)
LEMMA LifecycleStep ==
    ASSUME MarketTypeOK, ActiveBeforeInitialized, [Next]_vars
    PROVE  /\ ActiveBeforeInitialized'
           /\ Matured => Matured'
  <1> USE DEF Matured, ActiveBeforeInitialized, MarketTypeOK, RegistryTypeOK
  <1>1. ASSUME UNCHANGED <<initialized, asset>>
        PROVE  ActiveBeforeInitialized' /\ (Matured => Matured')
    BY <1>1
  <1>2. CASE UNCHANGED vars
    BY <1>1, <1>2 DEF vars, registryVars
  <1>3. ASSUME NEW w \in Writers, SetPositionWriter(w)
        PROVE  ActiveBeforeInitialized' /\ (Matured => Matured')
    BY <1>1, <1>3 DEF SetPositionWriter
  <1>4. ASSUME NEW p \in Parameters, InitializeAsset(p)
        PROVE  ActiveBeforeInitialized' /\ (Matured => Matured')
    BY <1>4 DEF InitializeAsset
  <1>5. ASSUME NEW p \in Parameters, UpdateAssetParameters(p)
        PROVE  ActiveBeforeInitialized' /\ (Matured => Matured')
    BY <1>5 DEF UpdateAssetParameters, WithParameters
  <1>6. ASSUME NEW s \in LifecycleState, TransitionLifecycle(s)
        PROVE  ActiveBeforeInitialized' /\ (Matured => Matured')
    <2>1. initialized' /\ asset'.lifecycle = s
      BY <1>6 DEF TransitionLifecycle, AssetState
    <2>2. s \in ValidTransitions[asset.lifecycle]
      BY <1>6 DEF TransitionLifecycle, IsValidTransition
    <2>3. Matured => s \in {"REDEEMABLE", "REDEEMED"}
      BY <2>2 DEF ValidTransitions
    <2> QED
      BY <2>1, <2>3
  <1>7. ASSUME NEW r \in Releasers, NEW authorized \in Authorizations,
               SetAuthorizedReleaser(r, authorized)
        PROVE  ActiveBeforeInitialized' /\ (Matured => Matured')
    BY <1>1, <1>7 DEF SetAuthorizedReleaser, registryVars
  <1>8. ASSUME NEW user \in Users, UserNext(user)
        PROVE  ActiveBeforeInitialized' /\ (Matured => Matured')
    BY <1>1, <1>8, UserKeepsAsset
  <1> QED
    BY <1>2, <1>3, <1>4, <1>5, <1>6, <1>7, <1>8 DEF Next, OwnerNext, RegistryOwnerNext

LEMMA MaturedStep ==
    ASSUME MarketTypeOK, ActiveBeforeInitialized, [Next]_vars, Matured
    PROVE  Matured' /\ collateral'[LendingAdapter] >= collateral[LendingAdapter]
  <1>1. Matured'
    BY LifecycleStep
  <1>2. CASE Users = {}
    <2>1. collateral' = collateral
      BY <1>2
      DEF Next, OwnerNext, RegistryOwnerNext, SetPositionWriter, InitializeAsset,
          UpdateAssetParameters, TransitionLifecycle, SetAuthorizedReleaser,
          vars, lendingVars
    <2>2. collateral[LendingAdapter] \in Nat
      BY MarketAssumption DEF MarketTypeOK, Holders
    <2> QED
      BY <1>1, <2>1, <2>2
  <1>3. CASE Users # {}
    <2>1. asset.lifecycle # "ACTIVE"
      BY DEF Matured
    <2> QED
      BY <1>1, <1>3, <2>1, FrozenStep
  <1> QED
    BY <1>2, <1>3

(***************************************************************************)
(* An asset that has begun to mature never trades again, and what is in    *)
(* custody by then stays there.                                            *)
(***************************************************************************)
THEOREM MaturedIsLocked == Spec => MaturedCollateralIsLocked
  <1>1. Init => ActiveBeforeInitialized
    BY DEF Init, RegistryInit, ActiveBeforeInitialized
  <1>2. MarketTypeOK /\ ActiveBeforeInitialized /\ [Next]_vars => ActiveBeforeInitialized'
    BY LifecycleStep
  <1>3. MarketTypeOK /\ ActiveBeforeInitialized /\ [Next]_vars =>
          [Matured => Matured' /\ collateral'[LendingAdapter] >= collateral[LendingAdapter]]_vars
    BY MaturedStep
  <1> QED
    BY TypeCorrect, <1>1, <1>2, <1>3, PTL DEF Spec, MaturedCollateralIsLocked

-----------------------------------------------------------------------------
(***************************************************************************)
(* What a transaction takes from whom.                                     *)
(***************************************************************************)
LEMMA MoveEffect ==
    ASSUME NEW b \in [Holders -> Nat], NEW from \in Holders, NEW to \in Holders,
           from # to, NEW amount \in Nat, CanMove(b, from, amount)
    PROVE  /\ Move(b, from, to, amount)[from] = b[from] - amount
           /\ Move(b, from, to, amount)[to] = b[to] + amount
  BY DEF Move, CanMove

(* Paying out never takes more than the amount is worth, pulling in never  *)
(* less, and what is pulled in for something is something.                 *)
LEMMA TokenAmountBounds ==
    ASSUME NEW amount \in Nat
    PROVE  /\ DOWN_SCALE * ToTokenAmount(amount) <= UP_SCALE * amount
           /\ DOWN_SCALE * ToTokenAmountRoundUp(amount) >= UP_SCALE * amount
           /\ ToTokenAmount(amount) > 0 => amount > 0
           /\ amount > 0 => ToTokenAmountRoundUp(amount) > 0
  <1> DEFINE D == DOWN_SCALE
             U == UP_SCALE
             down == amount \div D
             up == (amount + D - 1) \div D
  <1>1. D \in Nat \ {0} /\ U \in Nat \ {0}
    BY MarketAssumption
  <1>2. amount + D - 1 \in Nat /\ down \in Nat /\ up \in Nat
    <2>1. amount + D - 1 \in Nat
      BY <1>1
    <2> QED
      BY <1>1, <2>1, DivNat
  <1> HIDE DEF D, U
  <1>3. D * down <= amount /\ D * up >= amount
    BY <1>1, <1>2, SMTT(30)
  <1>4. amount > 0 => up > 0
    <2>1. up = 0 => D * up = 0
      BY <1>1
    <2> QED
      BY <1>2, <1>3, <2>1
  <1>5. down > 0 => amount > 0
    <2>1. down > 0 => D * down > 0
      BY <1>1, <1>2, SMTT(30)
    <2> QED
      BY <1>1, <1>2, <1>3, <2>1
  <1>6. ToTokenAmount(amount) = down * U /\ ToTokenAmountRoundUp(amount) = up * U
    BY DEF ToTokenAmount, ToTokenAmountRoundUp, D, U
  <1> HIDE DEF down, up
  <1>7. /\ down * U \in Nat /\ up * U \in Nat
        /\ D * (down * U) = (D * down) * U /\ D * (up * U) = (D * up) * U
        /\ U * amount = amount * U
        /\ D * down \in Nat /\ D * up \in Nat
    BY <1>1, <1>2, SMTT(30)
  <1>8. (D * down) * U <= amount * U /\ amount * U <= (D * up) * U
    BY <1>1, <1>3, <1>7, TimesMonotone
  <1>9. down * U > 0 => down > 0
    BY <1>1, <1>2, SMTT(30)
  <1>10. up > 0 => up * U > 0
    BY <1>1, <1>2, SMTT(30)
  <1>11. D = DOWN_SCALE /\ U = UP_SCALE
    BY DEF D, U
  <1> QED
    BY <1>1, <1>2, <1>4, <1>5, <1>6, <1>7, <1>8, <1>9, <1>10, <1>11

LEMMA MarketTypes ==
    ASSUME MarketTypeOK
    PROVE  /\ asset \in AssetState
           /\ position \in [Users -> Nat] /\ debt \in [Users -> Nat]
           /\ borrowToken \in [Holders -> Nat]
           /\ Amounts \subseteq Nat /\ WalletAmounts \subseteq Nat
           /\ Users \subseteq Holders /\ Recipients \subseteq Holders /\ LendingAdapter \in Holders
           /\ LendingAdapter \notin Users
  BY EngineAssumption, MarketAssumption DEF MarketTypeOK, RegistryTypeOK, Word, Holders, Recipients

(* The owner's calls touch neither positions, debts nor balances. *)
LEMMA OwnerKeepsBooks ==
    ASSUME OwnerNext
    PROVE  UNCHANGED <<position, debt, collateral, borrowToken>>
  BY DEF OwnerNext, RegistryOwnerNext, SetPositionWriter, InitializeAsset,
      UpdateAssetParameters, TransitionLifecycle, SetAuthorizedReleaser,
      registryVars, lendingVars

(* A debt changes in three ways, each with the tokens that go with it. *)
LEMMA DebtStep ==
    ASSUME MarketTypeOK, [Next]_vars
    PROVE  \/ debt' = debt /\ borrowToken'[LendingAdapter] >= borrowToken[LendingAdapter]
           \/ \E user \in Users, amount \in Amounts : Borrow(user, amount)
           \/ \E user \in Users, amount \in Amounts : Repay(user, amount)
           \/ \E user, borrower \in Users, repayAmount, seizeAmount \in Amounts :
                  Liquidate(user, borrower, repayAmount, seizeAmount)
  <1>0. borrowToken[LendingAdapter] \in Nat
    BY MarketTypes
  <1>1. CASE UNCHANGED vars
    BY <1>0, <1>1 DEF vars, lendingVars
  <1>2. CASE OwnerNext
    BY <1>0, <1>2, OwnerKeepsBooks
  <1>3. ASSUME NEW user \in Users, NEW amount \in Amounts,
               Deposit(user, amount) \/ Withdraw(user, amount)
        PROVE  debt' = debt /\ borrowToken'[LendingAdapter] >= borrowToken[LendingAdapter]
    BY <1>0, <1>3 DEF Deposit, Withdraw, ReleaseCollateral
  <1>4. ASSUME NEW user \in Users, NEW to \in Users, NEW amount \in Amounts,
               Transfer(user, to, amount)
        PROVE  debt' = debt /\ borrowToken'[LendingAdapter] >= borrowToken[LendingAdapter]
    BY <1>0, <1>4 DEF Transfer, TransferPosition
  <1>5. ASSUME NEW user \in Users, NEW to \in Recipients, NEW amount \in WalletAmounts,
               WalletTransfer(user, to, amount)
        PROVE  debt' = debt /\ borrowToken'[LendingAdapter] >= borrowToken[LendingAdapter]
    <2>1. debt' = debt
      BY <1>5 DEF WalletTransfer
    <2>2. CASE borrowToken' = borrowToken
      BY <1>0, <2>1, <2>2
    <2>3. CASE CanMove(borrowToken, user, amount) /\ borrowToken' = Move(borrowToken, user, to, amount)
      <3>1. CASE to = LendingAdapter
        <4>1. borrowToken'[LendingAdapter] = borrowToken[LendingAdapter] + amount
          BY <1>5, <2>3, <3>1, MarketTypes, MoveEffect
        <4> QED
          BY <1>0, <2>1, <4>1, MarketTypes
      <3>2. CASE to # LendingAdapter
        <4>1. borrowToken'[LendingAdapter] = borrowToken[LendingAdapter]
          BY <2>3, <3>2, MarketTypes DEF Move
        <4> QED
          BY <1>0, <2>1, <4>1
      <3> QED
        BY <3>1, <3>2
    <2> QED
      BY <1>5, <2>2, <2>3 DEF WalletTransfer
  <1> QED
    BY <1>1, <1>2, <1>3, <1>4, <1>5 DEF Next, UserNext

(* A debt is paid for: by its owner, or by the liquidator. *)
LEMMA PaidStep ==
    ASSUME MarketTypeOK, NEW payer \in Users, NEW u \in Users, NEW amount \in Amounts,
           amount <= debt[u],
           CanMove(borrowToken, payer, ToTokenAmountRoundUp(amount)),
           debt' = [debt EXCEPT ![u] = @ - amount],
           borrowToken' = Move(borrowToken, payer, LendingAdapter,
                               ToTokenAmountRoundUp(amount))
    PROVE  /\ \A v \in Users : debt'[v] # debt[v] => PoolAndDebt(v)' >= PoolAndDebt(v)
           /\ borrowToken'[LendingAdapter] >= borrowToken[LendingAdapter]
           /\ debt'[u] < debt[u] => borrowToken'[payer] < borrowToken[payer]
  <1> DEFINE paid == ToTokenAmountRoundUp(amount)
             pool == borrowToken[LendingAdapter]
  <1>1. /\ amount \in Nat /\ debt[u] \in Nat /\ debt \in [Users -> Nat]
        /\ borrowToken \in [Holders -> Nat] /\ pool \in Nat
        /\ payer \in Holders /\ LendingAdapter \in Holders /\ payer # LendingAdapter
        /\ borrowToken[payer] \in Nat
    BY MarketTypes
  <1>2. paid \in Nat /\ DOWN_SCALE * paid >= UP_SCALE * amount /\ (amount > 0 => paid > 0)
    BY <1>1, TokenAmountNat, TokenAmountBounds
  <1> HIDE DEF paid
  <1>3. /\ borrowToken' = Move(borrowToken, payer, LendingAdapter, paid)
        /\ CanMove(borrowToken, payer, paid)
    BY DEF paid
  <1>4. /\ borrowToken'[payer] = borrowToken[payer] - paid
        /\ borrowToken'[LendingAdapter] = pool + paid
    BY <1>1, <1>2, <1>3, MoveEffect
  <1>5. /\ debt'[u] = debt[u] - amount
        /\ \A v \in Users : v # u => debt'[v] = debt[v]
    BY <1>1
  <1> HIDE DEF pool
  <1>6. DOWN_SCALE * (pool + paid) + UP_SCALE * (debt[u] - amount)
            >= DOWN_SCALE * pool + UP_SCALE * debt[u]
    <2>1. /\ DOWN_SCALE \in Nat /\ UP_SCALE \in Nat
          /\ DOWN_SCALE * (pool + paid) = DOWN_SCALE * pool + DOWN_SCALE * paid
          /\ UP_SCALE * (debt[u] - amount) = UP_SCALE * debt[u] - UP_SCALE * amount
          /\ DOWN_SCALE * pool \in Nat /\ DOWN_SCALE * paid \in Nat
          /\ UP_SCALE * debt[u] \in Nat /\ UP_SCALE * amount \in Nat
      BY <1>1, <1>2, MarketAssumption, SMTT(30)
    <2> QED
      BY <1>2, <2>1
  <1>7. PoolAndDebt(u)' >= PoolAndDebt(u)
    BY <1>4, <1>5, <1>6 DEF PoolAndDebt, pool
  <1> QED
    BY <1>1, <1>2, <1>4, <1>5, <1>7 DEF pool

LEMMA BorrowStep ==
    ASSUME MarketTypeOK, NEW u \in Users, NEW amount \in Amounts, Borrow(u, amount)
    PROVE  /\ \A v \in Users : debt'[v] # debt[v] => PoolAndDebt(v)' >= PoolAndDebt(v)
           /\ borrowToken'[LendingAdapter] < borrowToken[LendingAdapter] => debt'[u] > debt[u]
           /\ \A v \in Users : debt'[v] >= debt[v]
  <1> DEFINE lent == ToTokenAmount(amount)
             pool == borrowToken[LendingAdapter]
  <1>1. /\ amount \in Nat /\ debt[u] \in Nat /\ debt \in [Users -> Nat]
        /\ borrowToken \in [Holders -> Nat] /\ pool \in Nat
        /\ u \in Holders /\ LendingAdapter \in Holders /\ u # LendingAdapter
    BY MarketTypes
  <1>2. lent \in Nat /\ DOWN_SCALE * lent <= UP_SCALE * amount /\ (lent > 0 => amount > 0)
    BY <1>1, TokenAmountNat, TokenAmountBounds
  <1> HIDE DEF lent
  <1>3. /\ borrowToken' = Move(borrowToken, LendingAdapter, u, lent)
        /\ CanMove(borrowToken, LendingAdapter, lent)
        /\ debt' = [debt EXCEPT ![u] = debt[u] + amount]
    BY DEF Borrow, lent, CanBorrow
  <1>4. borrowToken'[LendingAdapter] = pool - lent
    BY <1>1, <1>2, <1>3, MoveEffect
  <1>5. /\ debt'[u] = debt[u] + amount
        /\ \A v \in Users : v # u => debt'[v] = debt[v]
    BY <1>1, <1>3
  <1> HIDE DEF pool
  <1>6. DOWN_SCALE * (pool - lent) + UP_SCALE * (debt[u] + amount)
            >= DOWN_SCALE * pool + UP_SCALE * debt[u]
    <2>1. /\ DOWN_SCALE \in Nat /\ UP_SCALE \in Nat
          /\ DOWN_SCALE * (pool - lent) = DOWN_SCALE * pool - DOWN_SCALE * lent
          /\ UP_SCALE * (debt[u] + amount) = UP_SCALE * debt[u] + UP_SCALE * amount
          /\ DOWN_SCALE * pool \in Nat /\ DOWN_SCALE * lent \in Nat
          /\ UP_SCALE * debt[u] \in Nat /\ UP_SCALE * amount \in Nat
      BY <1>1, <1>2, MarketAssumption, SMTT(30)
    <2> QED
      BY <1>2, <2>1
  <1>7. PoolAndDebt(u)' >= PoolAndDebt(u)
    BY <1>4, <1>5, <1>6 DEF PoolAndDebt, pool
  <1> QED
    BY <1>1, <1>2, <1>4, <1>5, <1>7 DEF pool

(* A repayment and a liquidation are payments. *)
LEMMA RepayPays ==
    ASSUME MarketTypeOK, NEW u \in Users, NEW amount \in Amounts, Repay(u, amount)
    PROVE  /\ \A v \in Users : debt'[v] # debt[v] => PoolAndDebt(v)' >= PoolAndDebt(v)
           /\ borrowToken'[LendingAdapter] >= borrowToken[LendingAdapter]
           /\ debt'[u] < debt[u] => borrowToken'[u] < borrowToken[u]
           /\ \A v \in Users : v # u => debt'[v] = debt[v]
  BY PaidStep, MarketTypes DEF Repay

LEMMA LiquidatePays ==
    ASSUME MarketTypeOK, NEW user \in Users, NEW borrower \in Users,
           NEW repayAmount \in Amounts, NEW seizeAmount \in Amounts,
           Liquidate(user, borrower, repayAmount, seizeAmount)
    PROVE  /\ \A v \in Users : debt'[v] # debt[v] => PoolAndDebt(v)' >= PoolAndDebt(v)
           /\ borrowToken'[LendingAdapter] >= borrowToken[LendingAdapter]
           /\ \A v \in Users : v # borrower => debt'[v] = debt[v]
  BY PaidStep, MarketTypes DEF Liquidate, SettleLiquidation,
    CanLiquidate, CanSettleLiquidation

LEMMA PoolStep ==
    ASSUME MarketTypeOK, [Next]_vars
    PROVE  /\ \A u \in Users : debt'[u] # debt[u] => PoolAndDebt(u)' >= PoolAndDebt(u)
           /\ borrowToken'[LendingAdapter] < borrowToken[LendingAdapter] =>
                  \E u \in Users : debt'[u] > debt[u]
  <1>0. borrowToken[LendingAdapter] \in Nat
    BY MarketTypes
  <1>1. CASE debt' = debt /\ borrowToken'[LendingAdapter] >= borrowToken[LendingAdapter]
    <2>1. borrowToken'[LendingAdapter] \in Nat
      BY TypeStep, MarketTypes DEF MarketTypeOK
    <2> QED
      BY <1>0, <1>1, <2>1
  <1>2. ASSUME NEW user \in Users, NEW amount \in Amounts, Borrow(user, amount)
        PROVE  /\ \A u \in Users : debt'[u] # debt[u] => PoolAndDebt(u)' >= PoolAndDebt(u)
               /\ borrowToken'[LendingAdapter] < borrowToken[LendingAdapter] =>
                      \E u \in Users : debt'[u] > debt[u]
    BY <1>2, BorrowStep
  <1>3. ASSUME \A u \in Users : debt'[u] # debt[u] => PoolAndDebt(u)' >= PoolAndDebt(u),
               borrowToken'[LendingAdapter] >= borrowToken[LendingAdapter]
        PROVE  /\ \A u \in Users : debt'[u] # debt[u] => PoolAndDebt(u)' >= PoolAndDebt(u)
               /\ borrowToken'[LendingAdapter] < borrowToken[LendingAdapter] =>
                      \E u \in Users : debt'[u] > debt[u]
    <2>1. borrowToken'[LendingAdapter] \in Nat
      BY TypeStep, MarketTypes DEF MarketTypeOK
    <2> QED
      BY <1>0, <1>3, <2>1
  <1> QED
    BY <1>1, <1>2, <1>3, DebtStep, RepayPays, LiquidatePays

(***************************************************************************)
(* Rounding never costs the lenders, whatever the borrow token's decimals: *)
(* a changed debt and the pool together are worth no less than before, and *)
(* the pool pays out only against a debt.                                  *)
(***************************************************************************)
THEOREM PoolIsFavoured == Spec => RoundingFavoursPool
  <1>1. MarketTypeOK /\ [Next]_vars =>
          [/\ \A u \in Users : debt'[u] # debt[u] => PoolAndDebt(u)' >= PoolAndDebt(u)
           /\ borrowToken'[LendingAdapter] < borrowToken[LendingAdapter] =>
                  \E u \in Users : debt'[u] > debt[u]]_vars
    BY PoolStep
  <1> QED
    BY TypeCorrect, <1>1, PTL DEF Spec, RoundingFavoursPool

LEMMA StrandedStep ==
    ASSUME MarketTypeOK, [Next]_vars, NEW u \in Users, position[u] = 0, debt'[u] < debt[u]
    PROVE  borrowToken'[u] < borrowToken[u]
  <1>0. debt[u] \in Nat /\ debt'[u] \in Nat
    BY TypeStep, MarketTypes, EngineAssumption DEF MarketTypeOK, Word
  <1>1. debt' # debt
    BY <1>0
  <1>2. ASSUME NEW user \in Users, NEW amount \in Amounts, Borrow(user, amount)
        PROVE  FALSE
    BY <1>0, <1>2, BorrowStep
  <1>3. ASSUME NEW user \in Users, NEW amount \in Amounts, Repay(user, amount)
        PROVE  borrowToken'[u] < borrowToken[u]
    <2>1. user = u
      BY <1>0, <1>3, RepayPays
    <2> QED
      BY <1>3, <2>1, RepayPays
  <1>4. ASSUME NEW user \in Users, NEW borrower \in Users, NEW repayAmount \in Amounts,
               NEW seizeAmount \in Amounts,
               Liquidate(user, borrower, repayAmount, seizeAmount)
        PROVE  FALSE
    <2>1. borrower = u
      BY <1>0, <1>4, LiquidatePays
    <2> QED
      BY <1>4, <2>1 DEF Liquidate, CanLiquidate
  <1> QED
    BY <1>1, <1>2, <1>3, <1>4, DebtStep

(***************************************************************************)
(* A debt without collateral falls only when its owner pays for it.        *)
(***************************************************************************)
THEOREM StrandedDebt == Spec => StrandedDebtOnlyOwnerRepays
  <1>1. MarketTypeOK /\ [Next]_vars =>
          [\A u \in Users : position[u] = 0 /\ debt'[u] < debt[u] =>
              borrowToken'[u] < borrowToken[u]]_vars
    BY StrandedStep
  <1> QED
    BY TypeCorrect, <1>1, PTL DEF Spec, StrandedDebtOnlyOwnerRepays

-----------------------------------------------------------------------------
(***************************************************************************)
(* The books against the custody, and the loans against the pool.          *)
(***************************************************************************)
(* Tokens sent from wallet to wallet take nothing from the adapter.        *)
LEMMA WalletStep ==
    ASSUME MarketTypeOK, NEW user \in Users, NEW to \in Recipients,
           NEW amount \in WalletAmounts, WalletTransfer(user, to, amount)
    PROVE  /\ collateral'[LendingAdapter] >= collateral[LendingAdapter]
           /\ borrowToken'[LendingAdapter] >= borrowToken[LendingAdapter]
  <1>0. /\ collateral \in [Holders -> Nat] /\ borrowToken \in [Holders -> Nat]
        /\ collateral[LendingAdapter] \in Nat /\ borrowToken[LendingAdapter] \in Nat
        /\ user \in Holders /\ to \in Holders /\ user # LendingAdapter /\ amount \in Nat
    BY MarketTypes DEF MarketTypeOK
  <1>1. ASSUME NEW b \in [Holders -> Nat]
        PROVE  Move(b, user, to, amount)[LendingAdapter] \in
                   {b[LendingAdapter], b[LendingAdapter] + amount}
    BY <1>0, MarketTypes DEF Move
  <1> QED
    BY <1>0, <1>1 DEF WalletTransfer

(* A call to the adapter moves collateral between its caller and custody.  *)
LEMMA CustodyMove ==
    ASSUME MarketTypeOK, NEW user \in Users, NEW amount \in Nat
    PROVE  /\ CanMove(collateral, user, amount) =>
                 Move(collateral, user, LendingAdapter, amount)[LendingAdapter]
                     = collateral[LendingAdapter] + amount
           /\ CanMove(collateral, LendingAdapter, amount) =>
                 Move(collateral, LendingAdapter, user, amount)[LendingAdapter]
                     = collateral[LendingAdapter] - amount
  <1>1. /\ collateral \in [Holders -> Nat]
        /\ user \in Holders /\ LendingAdapter \in Holders /\ user # LendingAdapter
    BY MarketTypes DEF MarketTypeOK
  <1> QED
    BY <1>1, MoveEffect

(* Writing one entry of a book changes its total by what it changes there. *)
LEMMA BookEntry ==
    ASSUME NEW f \in [Users -> Nat], NEW u \in Users, NEW v \in Nat
    PROVE  /\ Total(f) \in Nat
           /\ Total([f EXCEPT ![u] = v]) = Total(f) - f[u] + v
  <1>1. IsFiniteSet(Users)
    BY RegistryAssumption
  <1> QED
    BY <1>1, TotalNat, TotalUpdate

(* What is credited to one entry, or debited from it, the total gains or   *)
(* loses.                                                                  *)
LEMMA BookCredit ==
    ASSUME NEW f \in [Users -> Nat], NEW u \in Users, NEW amount \in Nat
    PROVE  /\ [f EXCEPT ![u] = f[u] + amount] \in [Users -> Nat]
           /\ Total([f EXCEPT ![u] = f[u] + amount]) = Total(f) + amount
  <1> DEFINE v == f[u] + amount
  <1>1. f[u] \in Nat /\ v \in Nat /\ v = f[u] + amount
    OBVIOUS
  <1> HIDE DEF v
  <1>2. Total(f) \in Nat /\ Total([f EXCEPT ![u] = v]) = Total(f) - f[u] + v
    BY <1>1, BookEntry
  <1>3. Total([f EXCEPT ![u] = v]) = Total(f) + amount
    BY <1>1, <1>2
  <1> QED
    BY <1>1, <1>3 DEF v

LEMMA BookDebit ==
    ASSUME NEW f \in [Users -> Nat], NEW u \in Users, NEW amount \in Nat, amount <= f[u]
    PROVE  /\ [f EXCEPT ![u] = f[u] - amount] \in [Users -> Nat]
           /\ Total([f EXCEPT ![u] = f[u] - amount]) = Total(f) - amount
  <1> DEFINE v == f[u] - amount
  <1>1. f[u] \in Nat /\ v \in Nat /\ v = f[u] - amount
    OBVIOUS
  <1> HIDE DEF v
  <1>2. Total(f) \in Nat /\ Total([f EXCEPT ![u] = v]) = Total(f) - f[u] + v
    BY <1>1, BookEntry
  <1>3. Total([f EXCEPT ![u] = v]) = Total(f) - amount
    BY <1>1, <1>2
  <1> QED
    BY <1>1, <1>3 DEF v

(* The books outgrow the custody by no more than what a transfer to        *)
(* oneself credits.                                                        *)
BooksKept ==
    Total(position') + collateral[LendingAdapter] + selfCredited
        <= Total(position) + collateral'[LendingAdapter] + selfCredited'

LEMMA BookFigures ==
    ASSUME MarketTypeOK
    PROVE  /\ collateral[LendingAdapter] \in Nat
           /\ selfCredited \in Nat
           /\ Total(position) \in Nat
  <1>1. collateral[LendingAdapter] \in Nat /\ selfCredited \in Nat
    BY MarketTypes, MarketAssumption DEF MarketTypeOK
  <1> QED
    BY <1>1, MarketTypes, RegistryAssumption, TotalNat

(* The calls agents make too, with whatever amount the Policy told them.   *)
LEMMA WithdrawBooks ==
    ASSUME MarketTypeOK, NEW user \in Users, NEW amount \in Nat, Withdraw(user, amount)
    PROVE  BooksKept
  <1> DEFINE custody == collateral[LendingAdapter]
             T == Total(position)
  <1>1. custody \in Nat /\ selfCredited \in Nat /\ T \in Nat
    BY BookFigures
  <1>2. amount <= position[user]
    BY DEF Withdraw, CanWithdraw
  <1>3. position' = [position EXCEPT ![user] = position[user] - amount]
    BY DEF Withdraw, ReleaseCollateral, SetPositions
  <1>4. collateral'[LendingAdapter] = custody - amount /\ selfCredited' = selfCredited
    BY CustodyMove DEF Withdraw, ReleaseCollateral, CanRelease
  <1>5. Total(position') = T - amount
    BY <1>2, <1>3, MarketTypes, BookDebit
  <1>6. BooksKept <=> Total(position') + custody + selfCredited
                          <= T + collateral'[LendingAdapter] + selfCredited'
    BY DEF BooksKept
  <1> HIDE DEF custody, T
  <1> QED
    BY <1>1, <1>4, <1>5, <1>6

LEMMA TransferBooks ==
    ASSUME MarketTypeOK, NEW user \in Users, NEW to \in Users, NEW amount \in Nat,
           Transfer(user, to, amount)
    PROVE  BooksKept
  <1> DEFINE custody == collateral[LendingAdapter]
             T == Total(position)
  <1>1. custody \in Nat /\ selfCredited \in Nat /\ T \in Nat
    BY BookFigures
  <1>2. amount <= position[user] /\ collateral' = collateral
    BY DEF Transfer, TransferPosition, CanTransfer
  <1>3. selfCredited' = IF user = to THEN selfCredited + amount ELSE selfCredited
    BY DEF Transfer, TransferPosition
  <1>4. position' = [position EXCEPT ![user] = position[user] - amount,
                                    ![to] = position[to] + amount]
    BY DEF Transfer, TransferPosition, SetPositions
  <1>5. BooksKept <=> Total(position') + custody + selfCredited
                          <= T + collateral'[LendingAdapter] + selfCredited'
    BY DEF BooksKept
  <1>6. CASE user = to
    <2>1. position' = [position EXCEPT ![user] = position[user] + amount]
      BY <1>4, <1>6
    <2>2. Total(position') = T + amount
      BY <2>1, MarketTypes, BookCredit
    <2>3. collateral'[LendingAdapter] = custody /\ selfCredited' = selfCredited + amount
      BY <1>2, <1>3, <1>6
    <2> HIDE DEF custody, T
    <2> QED
      BY <1>1, <1>5, <2>2, <2>3
  <1>7. CASE user # to
    <2> DEFINE taken == [position EXCEPT ![user] = position[user] - amount]
    <2>1. position' = [taken EXCEPT ![to] = taken[to] + amount]
      BY <1>4, <1>7, MarketTypes
    <2>2. taken \in [Users -> Nat] /\ Total(taken) = T - amount
      BY <1>2, MarketTypes, BookDebit
    <2>3. taken \in [Users -> Nat]
      BY <2>2
    <2> HIDE DEF taken
    <2>4. Total(position') = Total(taken) + amount
      <3>1. Total([taken EXCEPT ![to] = taken[to] + amount]) = Total(taken) + amount
        BY <2>3, BookCredit
      <3> QED
        BY <2>1, <3>1
    <2>5. collateral'[LendingAdapter] = custody /\ selfCredited' = selfCredited
      BY <1>2, <1>3, <1>7
    <2> HIDE DEF custody, T
    <2> QED
      BY <1>1, <1>5, <2>2, <2>4, <2>5
  <1> QED
    BY <1>6, <1>7

(* No transaction of a user lets the books outgrow the custody. *)
LEMMA BooksUser ==
    ASSUME MarketTypeOK, NEW user \in Users, UserNext(user)
    PROVE  Total(position') + collateral[LendingAdapter] + selfCredited
               <= Total(position) + collateral'[LendingAdapter] + selfCredited'
  <1> DEFINE custody == collateral[LendingAdapter]
             T == Total(position)
             Kept == Total(position') + custody + selfCredited
                         <= T + collateral'[LendingAdapter] + selfCredited'
  <1>0. position \in [Users -> Nat] /\ Amounts \subseteq Nat
    BY MarketTypes
  <1>N. custody \in Nat /\ selfCredited \in Nat /\ T \in Nat
    BY BookFigures
  <1>1. ASSUME NEW amount \in Amounts, Deposit(user, amount)
        PROVE  Kept
    <2>1. amount \in Nat
      BY <1>0
    <2>2. position' = [position EXCEPT ![user] = position[user] + amount]
      BY <1>1 DEF Deposit, SetPositions
    <2>3. collateral'[LendingAdapter] = custody + amount /\ selfCredited' = selfCredited
      BY <1>1, <2>1, CustodyMove DEF Deposit, CanDeposit
    <2>4. Total(position') = T + amount
      BY <1>0, <2>1, <2>2, BookCredit
    <2> HIDE DEF custody, T
    <2> QED
      BY <1>N, <2>1, <2>3, <2>4
  <1>2. ASSUME NEW amount \in Amounts, Borrow(user, amount) \/ Repay(user, amount)
        PROVE  Kept
    <2>1. position' = position /\ collateral' = collateral /\ selfCredited' = selfCredited
      BY <1>2 DEF Borrow, Repay, registryVars
    <2> QED
      BY <1>N, <2>1
  <1>3. ASSUME NEW amount \in Amounts, Withdraw(user, amount)
        PROVE  Kept
    BY <1>0, <1>3, WithdrawBooks DEF BooksKept
  <1>4. ASSUME NEW to \in Users, NEW amount \in Amounts, Transfer(user, to, amount)
        PROVE  Kept
    BY <1>0, <1>4, TransferBooks DEF BooksKept
  <1>5. ASSUME NEW borrower \in Users, NEW repayAmount \in Amounts,
               NEW seizeAmount \in Amounts,
               Liquidate(user, borrower, repayAmount, seizeAmount)
        PROVE  Kept
    <2>1. seizeAmount \in Nat /\ seizeAmount <= position[borrower]
      BY <1>0, <1>5 DEF Liquidate, SettleLiquidation, CanLiquidate, CanSettleLiquidation
    <2>2. position' = [position EXCEPT ![borrower] = position[borrower] - seizeAmount]
      BY <1>5 DEF Liquidate, SettleLiquidation, SetPositions
    <2>3. collateral'[LendingAdapter] = custody - seizeAmount /\ selfCredited' = selfCredited
      BY <1>5, <2>1, CustodyMove DEF Liquidate, SettleLiquidation,
        CanLiquidate, CanSettleLiquidation
    <2>4. Total(position') = T - seizeAmount
      BY <1>0, <2>1, <2>2, BookDebit
    <2> HIDE DEF custody, T
    <2> QED
      BY <1>N, <2>1, <2>3, <2>4
  <1>6. ASSUME NEW to \in Recipients, NEW amount \in WalletAmounts,
               WalletTransfer(user, to, amount)
        PROVE  Kept
    <2>1. Total(position') = T /\ selfCredited' = selfCredited
      BY <1>6 DEF WalletTransfer, registryVars
    <2>2. collateral'[LendingAdapter] >= custody
      BY <1>6, WalletStep
    <2>3. collateral'[LendingAdapter] \in Nat
      BY UserType, MarketTypes DEF MarketTypeOK
    <2> HIDE DEF custody, T
    <2> QED
      BY <1>N, <2>1, <2>2, <2>3
  <1> QED
    BY <1>1, <1>2, <1>3, <1>4, <1>5, <1>6 DEF UserNext

LEMMA InitBooks ==
    ASSUME MarketTypeOK, position = [u \in Users |-> 0]
    PROVE  BooksBacked
  <1>1. Total(position) = 0
    BY TotalZero, RegistryAssumption
  <1> QED
    BY <1>1, BookFigures DEF BooksBacked

LEMMA BooksCarry ==
    ASSUME MarketTypeOK, MarketTypeOK', BooksBacked, BooksKept
    PROVE  BooksBacked'
  <1>1. /\ Total(position') \in Nat
        /\ collateral'[LendingAdapter] \in Nat /\ selfCredited' \in Nat
    <2>1. position' \in [Users -> Nat] /\ IsFiniteSet(Users)
      BY EngineAssumption, RegistryAssumption DEF MarketTypeOK, RegistryTypeOK, Word
    <2>2. collateral'[LendingAdapter] \in Nat /\ selfCredited' \in Nat
      BY MarketTypes, MarketAssumption DEF MarketTypeOK
    <2> QED
      BY <2>1, <2>2, TotalNat
  <1> QED
    BY <1>1, BookFigures DEF BooksBacked, BooksKept

LEMMA BackedStep == MarketTypeOK /\ BooksBacked /\ [Next]_vars => BooksBacked'
  <1> SUFFICES ASSUME MarketTypeOK, BooksBacked, [Next]_vars PROVE BooksBacked'
    OBVIOUS
  <1>1. ASSUME UNCHANGED <<position, collateral, selfCredited>>
        PROVE  BooksBacked'
    BY <1>1 DEF BooksBacked
  <1>2. CASE UNCHANGED vars
    BY <1>1, <1>2 DEF vars, registryVars, lendingVars
  <1>3. CASE OwnerNext
    BY <1>1, <1>3, OwnerKeepsBooks DEF OwnerNext, SetAuthorizedReleaser, lendingVars
  <1>4. ASSUME NEW user \in Users, UserNext(user)
        PROVE  BooksBacked'
    BY <1>4, UserType, BooksUser, BooksCarry DEF BooksKept
  <1> QED
    BY <1>2, <1>3, <1>4 DEF Next

(***************************************************************************)
(* The positions on the books never add up to more than the collateral in  *)
(* custody, but for what transfers to oneself credited (the finding of the *)
(* reassignment run): deposits, withdrawals, transfers and liquidations    *)
(* lose and invent no claim, for any number of users.                      *)
(***************************************************************************)
THEOREM BooksAreBacked == Spec => []BooksBacked
  <1>1. Init => BooksBacked
    BY InitType, InitBooks DEF Init, RegistryInit
  <1> QED
    BY TypeCorrect, <1>1, BackedStep, PTL DEF Spec

-----------------------------------------------------------------------------
(***************************************************************************)
(* The tokens: what the users, the adapter and the other writers hold      *)
(* together never changes.                                                 *)
(***************************************************************************)
TokensKept ==
    /\ Total(collateral') = Total(collateral)
    /\ Total(borrowToken') = Total(borrowToken)

LEMMA Moved ==
    ASSUME IsFiniteSet(Writers), NEW b \in [Holders -> Nat], NEW from \in Holders,
           NEW to \in Holders, NEW amount \in Nat, CanMove(b, from, amount)
    PROVE  Total(Move(b, from, to, amount)) = Total(b)
  <1>1. IsFiniteSet(Holders)
    BY RegistryAssumption, FS_Union DEF Holders
  <1> QED
    BY <1>1, MoveConserves

LEMMA BorrowTokens ==
    ASSUME IsFiniteSet(Writers), MarketTypeOK, NEW user \in Users, NEW amount \in Nat,
           Borrow(user, amount)
    PROVE  TokensKept
  <1>1. borrowToken \in [Holders -> Nat] /\ user \in Holders /\ LendingAdapter \in Holders
    BY MarketTypes
  <1>2. /\ CanMove(borrowToken, LendingAdapter, ToTokenAmount(amount))
        /\ borrowToken' = Move(borrowToken, LendingAdapter, user, ToTokenAmount(amount))
        /\ collateral' = collateral
    BY DEF Borrow, CanBorrow
  <1> QED
    BY <1>1, <1>2, TokenAmountNat, Moved DEF TokensKept

LEMMA WithdrawTokens ==
    ASSUME IsFiniteSet(Writers), MarketTypeOK, NEW user \in Users, NEW amount \in Nat,
           Withdraw(user, amount)
    PROVE  TokensKept
  <1>1. collateral \in [Holders -> Nat] /\ user \in Holders /\ LendingAdapter \in Holders
    BY MarketTypes DEF MarketTypeOK
  <1>2. /\ CanMove(collateral, LendingAdapter, amount)
        /\ collateral' = Move(collateral, LendingAdapter, user, amount)
        /\ borrowToken' = borrowToken
    BY DEF Withdraw, ReleaseCollateral, CanRelease
  <1> QED
    BY <1>1, <1>2, Moved DEF TokensKept

LEMMA TransferTokens ==
    ASSUME NEW user, NEW to, NEW amount, Transfer(user, to, amount)
    PROVE  TokensKept
  BY DEF Transfer, TransferPosition, TokensKept

LEMMA TokensUser ==
    ASSUME IsFiniteSet(Writers), MarketTypeOK, NEW user \in Users, UserNext(user)
    PROVE  TokensKept
  <1>0. /\ collateral \in [Holders -> Nat] /\ borrowToken \in [Holders -> Nat]
        /\ Users \subseteq Holders /\ Recipients \subseteq Holders /\ LendingAdapter \in Holders
        /\ Amounts \subseteq Nat /\ WalletAmounts \subseteq Nat
    BY MarketTypes DEF MarketTypeOK
  <1>1. ASSUME NEW amount \in Amounts, Deposit(user, amount)
        PROVE  TokensKept
    <2>1. /\ CanMove(collateral, user, amount)
          /\ collateral' = Move(collateral, user, LendingAdapter, amount)
          /\ borrowToken' = borrowToken
      BY <1>1 DEF Deposit, CanDeposit
    <2> QED
      BY <1>0, <2>1, Moved DEF TokensKept
  <1>2. ASSUME NEW amount \in Amounts, Repay(user, amount)
        PROVE  TokensKept
    <2>1. /\ CanMove(borrowToken, user, ToTokenAmountRoundUp(amount))
          /\ borrowToken' = Move(borrowToken, user, LendingAdapter, ToTokenAmountRoundUp(amount))
          /\ collateral' = collateral
      BY <1>2 DEF Repay
    <2> QED
      BY <1>0, <2>1, TokenAmountNat, Moved DEF TokensKept
  <1>3. ASSUME NEW borrower \in Users, NEW repayAmount \in Amounts,
               NEW seizeAmount \in Amounts,
               Liquidate(user, borrower, repayAmount, seizeAmount)
        PROVE  TokensKept
    <2>1. /\ CanMove(borrowToken, user, ToTokenAmountRoundUp(repayAmount))
          /\ borrowToken' = Move(borrowToken, user, LendingAdapter,
                                 ToTokenAmountRoundUp(repayAmount))
          /\ CanMove(collateral, LendingAdapter, seizeAmount)
          /\ collateral' = Move(collateral, LendingAdapter, user, seizeAmount)
      BY <1>3 DEF Liquidate, SettleLiquidation, CanSettleLiquidation
    <2>2. Total(collateral') = Total(collateral)
      BY <1>0, <2>1, Moved
    <2>3. Total(borrowToken') = Total(borrowToken)
      BY <1>0, <2>1, TokenAmountNat, Moved
    <2> QED
      BY <2>2, <2>3 DEF TokensKept
  <1>4. ASSUME NEW to \in Recipients, NEW amount \in WalletAmounts,
               WalletTransfer(user, to, amount)
        PROVE  TokensKept
    BY <1>0, <1>4, Moved DEF WalletTransfer, TokensKept
  <1> QED
    BY <1>0, <1>1, <1>2, <1>3, <1>4, BorrowTokens, WithdrawTokens, TransferTokens
    DEF UserNext

(* The owner and a stuttering step touch no token. *)
LEMMA TokensStep ==
    ASSUME IsFiniteSet(Writers), MarketTypeOK, [Next]_vars
    PROVE  TokensKept
  <1>1. CASE UNCHANGED vars
    BY <1>1 DEF vars, lendingVars, TokensKept
  <1>2. CASE OwnerNext
    BY <1>2 DEF OwnerNext, SetAuthorizedReleaser, lendingVars, TokensKept
  <1> QED
    BY <1>1, <1>2, TokensUser DEF Next

-----------------------------------------------------------------------------
(* What the pool holds and what all users owe it.                          *)
LoanBook == DOWN_SCALE * borrowToken[LendingAdapter] + UP_SCALE * Total(debt)

(* When one debt changes, the loan book changes as that debt does.         *)
LEMMA OneDebt ==
    ASSUME MarketTypeOK, MarketTypeOK', NEW u \in Users,
           debt' = [debt EXCEPT ![u] = debt'[u]],
           PoolAndDebt(u)' >= PoolAndDebt(u)
    PROVE  LoanBook' >= LoanBook
  <1> DEFINE D == DOWN_SCALE
             U == UP_SCALE
             pool == borrowToken[LendingAdapter]
             poolN == borrowToken'[LendingAdapter]
             T == Total(debt)
             TN == Total(debt')
             d == debt[u]
             dN == debt'[u]
  <1>1. /\ D \in Nat /\ U \in Nat /\ pool \in Nat /\ poolN \in Nat
        /\ d \in Nat /\ dN \in Nat
    <2>1. pool \in Nat /\ d \in Nat
      BY MarketTypes
    <2>2. poolN \in Nat /\ dN \in Nat
      BY EngineAssumption, MarketAssumption DEF MarketTypeOK, Holders, Word
    <2> QED
      BY <2>1, <2>2, MarketAssumption
  <1>2. T \in Nat /\ TN = T - d + dN
    <2>1. debt \in [Users -> Nat] /\ dN \in Nat
      BY <1>1, MarketTypes
    <2>2. T \in Nat /\ Total([debt EXCEPT ![u] = dN]) = T - d + dN
      BY <2>1, BookEntry
    <2> QED
      BY <2>2
  <1>3. D * poolN + U * dN >= D * pool + U * d
    BY DEF PoolAndDebt
  <1> HIDE DEF D, U, pool, poolN, T, TN, d, dN
  <1>4. /\ U * TN = U * T - U * d + U * dN
        /\ U * T \in Nat /\ U * d \in Nat /\ U * dN \in Nat /\ U * TN \in Int
        /\ D * pool \in Nat /\ D * poolN \in Nat
    BY <1>1, <1>2, SMTT(30)
  <1>5. D * poolN + U * TN >= D * pool + U * T
    BY <1>3, <1>4
  <1> QED
    BY <1>5 DEF LoanBook, D, U, pool, poolN, T, TN

(* Debts that stay, with a pool that does not shrink.                      *)
LEMMA DebtsStay ==
    ASSUME MarketTypeOK, MarketTypeOK', debt' = debt,
           borrowToken'[LendingAdapter] >= borrowToken[LendingAdapter]
    PROVE  LoanBook' >= LoanBook
  <1>1. /\ borrowToken[LendingAdapter] \in Nat /\ borrowToken'[LendingAdapter] \in Nat
        /\ DOWN_SCALE \in Nat /\ UP_SCALE \in Nat
    BY MarketTypes, MarketAssumption DEF MarketTypeOK
  <1>2. Total(debt) \in Nat
    BY MarketTypes, TotalNat, RegistryAssumption
  <1>3. DOWN_SCALE * borrowToken'[LendingAdapter] >= DOWN_SCALE * borrowToken[LendingAdapter]
    <2>1. /\ borrowToken[LendingAdapter] * DOWN_SCALE
                 <= borrowToken'[LendingAdapter] * DOWN_SCALE
      BY <1>1, TimesMonotone
    <2> QED
      BY <1>1, <2>1, SMTT(30)
  <1>4. /\ DOWN_SCALE * borrowToken[LendingAdapter] \in Nat
        /\ DOWN_SCALE * borrowToken'[LendingAdapter] \in Nat
        /\ UP_SCALE * Total(debt) \in Nat
    BY <1>1, <1>2, SMTT(30)
  <1> QED
    BY <1>3, <1>4 DEF LoanBook

(* No transaction of a user makes the loan book worth less.                *)
LEMMA LoanBookUser ==
    ASSUME MarketTypeOK, NEW user \in Users, UserNext(user)
    PROVE  LoanBook' >= LoanBook
  <1>0. MarketTypeOK'
    BY UserType
  <1>1. debt \in [Users -> Nat] /\ debt' \in [Users -> Nat]
    BY <1>0, MarketTypes, EngineAssumption DEF MarketTypeOK, Word
  <1>2. ASSUME NEW u \in Users,
               \A v \in Users : v # u => debt'[v] = debt[v],
               \A v \in Users : debt'[v] # debt[v] => PoolAndDebt(v)' >= PoolAndDebt(v),
               debt' = debt => borrowToken'[LendingAdapter] >= borrowToken[LendingAdapter]
        PROVE  LoanBook' >= LoanBook
    <2>1. debt' = [debt EXCEPT ![u] = debt'[u]]
      BY <1>1, <1>2
    <2>2. CASE debt'[u] # debt[u]
      BY <1>0, <1>2, <2>1, <2>2, OneDebt
    <2>3. CASE debt'[u] = debt[u]
      <3>1. debt' = debt
        BY <1>1, <2>1, <2>3
      <3> QED
        BY <1>0, <1>2, <3>1, DebtsStay
    <2> QED
      BY <2>2, <2>3
  <1>3. CASE debt' = debt /\ borrowToken'[LendingAdapter] >= borrowToken[LendingAdapter]
    BY <1>0, <1>3, DebtsStay
  <1>4. ASSUME NEW u \in Users, NEW amount \in Amounts, Borrow(u, amount)
        PROVE  LoanBook' >= LoanBook
    <2>1. \A v \in Users : v # u => debt'[v] = debt[v]
      BY <1>1, <1>4 DEF Borrow
    <2>2. debt' = debt => borrowToken'[LendingAdapter] >= borrowToken[LendingAdapter]
      <3>1. /\ borrowToken[LendingAdapter] \in Nat /\ borrowToken'[LendingAdapter] \in Nat
            /\ debt[u] \in Nat
        BY <1>0, MarketTypes DEF MarketTypeOK
      <3> QED
        BY <1>4, <3>1, BorrowStep
    <2> QED
      BY <1>2, <1>4, <2>1, <2>2, BorrowStep
  <1>5. ASSUME NEW u \in Users, NEW amount \in Amounts, Repay(u, amount)
        PROVE  LoanBook' >= LoanBook
    BY <1>2, <1>5, RepayPays
  <1>6. ASSUME NEW u \in Users, NEW borrower \in Users, NEW repayAmount \in Amounts,
               NEW seizeAmount \in Amounts,
               Liquidate(u, borrower, repayAmount, seizeAmount)
        PROVE  LoanBook' >= LoanBook
    BY <1>2, <1>6, LiquidatePays
  <1>7. [Next]_vars
    BY DEF Next
  <1> QED
    BY <1>3, <1>4, <1>5, <1>6, <1>7, DebtStep

LEMMA InitLoanBook ==
    ASSUME debt = [u \in Users |-> 0], borrowToken = BorrowTokenAtStart
    PROVE  LoanBookSolvent
  <1>1. Total(debt) = 0
    BY TotalZero, RegistryAssumption
  <1>2. borrowToken[LendingAdapter] = PoolSupply
    BY MarketAssumption DEF BorrowTokenAtStart, Holders
  <1>3. DOWN_SCALE * PoolSupply \in Nat /\ UP_SCALE * 0 = 0
    BY MarketAssumption
  <1> QED
    BY <1>1, <1>2, <1>3 DEF LoanBookSolvent

LEMMA LoanBookStep == MarketTypeOK /\ LoanBookSolvent /\ [Next]_vars => LoanBookSolvent'
  <1> SUFFICES ASSUME MarketTypeOK, LoanBookSolvent, [Next]_vars PROVE LoanBookSolvent'
    OBVIOUS
  <1>1. ASSUME UNCHANGED <<debt, borrowToken>>
        PROVE  LoanBookSolvent'
    BY <1>1 DEF LoanBookSolvent
  <1>2. CASE UNCHANGED vars
    BY <1>1, <1>2 DEF vars, lendingVars
  <1>3. CASE OwnerNext
    BY <1>1, <1>3, OwnerKeepsBooks
  <1>4. ASSUME NEW user \in Users, UserNext(user)
        PROVE  LoanBookSolvent'
    <2>1. LoanBook' >= LoanBook /\ LoanBook >= DOWN_SCALE * PoolSupply
      BY <1>4, LoanBookUser DEF LoanBook, LoanBookSolvent
    <2>2. LoanBook \in Nat /\ LoanBook' \in Nat /\ DOWN_SCALE * PoolSupply \in Nat
      <3>1. MarketTypeOK'
        BY <1>4, UserType
      <3>2. /\ debt \in [Users -> Nat] /\ debt' \in [Users -> Nat]
            /\ borrowToken[LendingAdapter] \in Nat
            /\ borrowToken'[LendingAdapter] \in Nat
        BY <3>1, MarketTypes, EngineAssumption DEF MarketTypeOK, Word
      <3>3. Total(debt) \in Nat /\ Total(debt') \in Nat
        BY <3>2, TotalNat, RegistryAssumption
      <3>4. /\ DOWN_SCALE * borrowToken[LendingAdapter] \in Nat
            /\ DOWN_SCALE * borrowToken'[LendingAdapter] \in Nat
            /\ UP_SCALE * Total(debt) \in Nat /\ UP_SCALE * Total(debt') \in Nat
            /\ DOWN_SCALE * PoolSupply \in Nat
        BY <3>2, <3>3, MarketAssumption
      <3> QED
        BY <3>4 DEF LoanBook
    <2> QED
      BY <2>1, <2>2 DEF LoanBook, LoanBookSolvent
  <1> QED
    BY <1>2, <1>3, <1>4 DEF Next

(***************************************************************************)
(* Rounding never costs the lenders, over any history: the pool and all    *)
(* the debts are together worth at least what the pool was funded with.    *)
(***************************************************************************)
THEOREM LoanBookIsSolvent == Spec => []LoanBookSolvent
  <1>1. Init => LoanBookSolvent
    BY InitLoanBook DEF Init
  <1> QED
    BY TypeCorrect, <1>1, LoanBookStep, PTL DEF Spec

-----------------------------------------------------------------------------
(***************************************************************************)
(* A market next to another: what its users leave alone, and what is left  *)
(* of it when its adapter is not the position writer.                      *)
(***************************************************************************)
(* The holders that are neither users nor this adapter keep what they have. *)
LEMMA ElsewhereUser ==
    ASSUME MarketTypeOK, NEW user \in Users, UserNext(user),
           NEW h \in Holders, h \notin Users, h # LendingAdapter
    PROVE  /\ collateral'[h] = collateral[h]
           /\ borrowToken'[h] = borrowToken[h]
  <1>0. /\ collateral \in [Holders -> Nat] /\ borrowToken \in [Holders -> Nat]
        /\ Users \subseteq Holders /\ Recipients \subseteq Holders
        /\ LendingAdapter \in Holders
    BY MarketTypes DEF MarketTypeOK
  <1>1. ASSUME NEW b \in [Holders -> Nat], NEW from \in Recipients, NEW to \in Recipients,
               NEW amount
        PROVE  Move(b, from, to, amount)[h] = b[h]
    <2>1. h # from /\ h # to
      BY DEF Recipients
    <2> QED
      BY <2>1 DEF Move
  <1>2. user \in Recipients /\ LendingAdapter \in Recipients /\ Users \subseteq Recipients
    BY DEF Recipients
  <1>3. ASSUME NEW amount \in Amounts,
               \/ Deposit(user, amount) \/ Borrow(user, amount)
               \/ Repay(user, amount) \/ Withdraw(user, amount)
        PROVE  collateral'[h] = collateral[h] /\ borrowToken'[h] = borrowToken[h]
    BY <1>0, <1>1, <1>2, <1>3 DEF Deposit, Borrow, Repay, Withdraw, ReleaseCollateral
  <1>4. ASSUME NEW to \in Users, NEW amount \in Amounts, Transfer(user, to, amount)
        PROVE  collateral'[h] = collateral[h] /\ borrowToken'[h] = borrowToken[h]
    BY <1>4 DEF Transfer, TransferPosition
  <1>5. ASSUME NEW borrower \in Users, NEW repayAmount \in Amounts,
               NEW seizeAmount \in Amounts,
               Liquidate(user, borrower, repayAmount, seizeAmount)
        PROVE  collateral'[h] = collateral[h] /\ borrowToken'[h] = borrowToken[h]
    BY <1>0, <1>1, <1>2, <1>5 DEF Liquidate, SettleLiquidation
  <1>6. ASSUME NEW to \in Recipients, NEW amount \in WalletAmounts,
               WalletTransfer(user, to, amount)
        PROVE  collateral'[h] = collateral[h] /\ borrowToken'[h] = borrowToken[h]
    BY <1>0, <1>1, <1>2, <1>6 DEF WalletTransfer
  <1> QED
    BY <1>3, <1>4, <1>5, <1>6 DEF UserNext

(* Whatever writes a position fails in the Registry, with the collateral   *)
(* it would have moved and the debt it would have settled.                 *)
LEMMA RetiredUser ==
    ASSUME MarketTypeOK, NEW user \in Users, UserNext(user),
           positionWriter # LendingAdapter
    PROVE  /\ collateral'[LendingAdapter] >= collateral[LendingAdapter]
           /\ \A u \in Users : debt'[u] < debt[u] => borrowToken'[u] < borrowToken[u]
  <1>0. /\ collateral[LendingAdapter] \in Nat
        /\ debt \in [Users -> Nat] /\ debt' \in [Users -> Nat]
    <2>1. MarketTypeOK'
      BY UserType
    <2> QED
      BY <2>1, MarketTypes, EngineAssumption DEF MarketTypeOK, Word
  <1>1. /\ \A amount \in Amounts : ~Deposit(user, amount) /\ ~Withdraw(user, amount)
        /\ \A to \in Users, amount \in Amounts : ~Transfer(user, to, amount)
        /\ \A borrower \in Users, repayAmount, seizeAmount \in Amounts :
              ~Liquidate(user, borrower, repayAmount, seizeAmount)
    <2>1. ~CanSetPosition(LendingAdapter)
      BY DEF CanSetPosition
    <2> QED
      BY <2>1 DEF Deposit, Withdraw, Transfer, Liquidate, CanDeposit, CanWithdraw, CanRelease,
         CanTransfer, CanTransferPosition, CanLiquidate, CanSettleLiquidation
  <1>2. ASSUME NEW amount \in Amounts, Borrow(user, amount)
        PROVE  /\ collateral'[LendingAdapter] >= collateral[LendingAdapter]
               /\ \A u \in Users : ~(debt'[u] < debt[u])
    <2>1. collateral' = collateral
      BY <1>2 DEF Borrow
    <2> QED
      BY <1>0, <1>2, <2>1, BorrowStep
  <1>3. ASSUME NEW amount \in Amounts, Repay(user, amount)
        PROVE  /\ collateral'[LendingAdapter] >= collateral[LendingAdapter]
               /\ \A u \in Users : debt'[u] < debt[u] => borrowToken'[u] < borrowToken[u]
    <2>1. collateral' = collateral
      BY <1>3 DEF Repay
    <2> QED
      BY <1>0, <1>3, <2>1, RepayPays
  <1>4. ASSUME NEW to \in Recipients, NEW amount \in WalletAmounts,
               WalletTransfer(user, to, amount)
        PROVE  /\ collateral'[LendingAdapter] >= collateral[LendingAdapter]
               /\ \A u \in Users : ~(debt'[u] < debt[u])
    <2>1. debt' = debt
      BY <1>4 DEF WalletTransfer
    <2> QED
      BY <1>0, <1>4, <2>1, WalletStep
  <1> QED
    BY <1>1, <1>2, <1>3, <1>4 DEF UserNext

-----------------------------------------------------------------------------
(* A position shrinks in three ways. *)
LEMMA PositionStep ==
    ASSUME MarketTypeOK, [Next]_vars, NEW u \in Users, position'[u] < position[u]
    PROVE  \/ \E amount \in Amounts : Withdraw(u, amount)
           \/ \E to \in Users, amount \in Amounts : Transfer(u, to, amount)
           \/ \E user \in Users, repayAmount, seizeAmount \in Amounts :
                  Liquidate(user, u, repayAmount, seizeAmount)
  <1>0. position \in [Users -> Nat] /\ position[u] \in Nat /\ Amounts \subseteq Nat
    BY MarketTypes
  <1>1. position'[u] # position[u]
    BY <1>0
  <1>2. ~UNCHANGED vars
    BY <1>1 DEF vars, registryVars
  <1>3. ~OwnerNext
    BY <1>1, OwnerKeepsBooks
  <1>4. ASSUME NEW user \in Users, NEW amount \in Amounts,
               Borrow(user, amount) \/ Repay(user, amount)
        PROVE  FALSE
    BY <1>1, <1>4 DEF Borrow, Repay, registryVars
  <1>5. ASSUME NEW user \in Users, NEW amount \in Amounts, Deposit(user, amount)
        PROVE  FALSE
    BY <1>0, <1>5 DEF Deposit, SetPositions
  <1>6. ASSUME NEW user \in Users, NEW to \in Recipients, NEW amount \in WalletAmounts,
               WalletTransfer(user, to, amount)
        PROVE  FALSE
    BY <1>1, <1>6 DEF WalletTransfer, registryVars
  <1>7. ASSUME NEW user \in Users, NEW amount \in Amounts, Withdraw(user, amount)
        PROVE  user = u
    BY <1>0, <1>1, <1>7 DEF Withdraw, ReleaseCollateral, SetPositions
  <1>8. ASSUME NEW user \in Users, NEW to \in Users, NEW amount \in Amounts,
               Transfer(user, to, amount)
        PROVE  user = u
    BY <1>0, <1>8 DEF Transfer, TransferPosition, SetPositions
  <1>9. ASSUME NEW user \in Users, NEW borrower \in Users, NEW repayAmount \in Amounts,
               NEW seizeAmount \in Amounts,
               Liquidate(user, borrower, repayAmount, seizeAmount)
        PROVE  borrower = u
    BY <1>0, <1>1, <1>9 DEF Liquidate, SettleLiquidation, SetPositions
  <1> QED
    BY <1>2, <1>3, <1>4, <1>5, <1>6, <1>7, <1>8, <1>9 DEF Next, UserNext

(* What a withdrawal leaves behind carries the debt. *)
LEMMA WithdrawLeavesWithin ==
    ASSUME MarketTypeOK, MarketTypeOK', NEW u \in Users, NEW amount \in Amounts,
           Withdraw(u, amount)
    PROVE  debt' = debt /\ asset' = asset /\ WithinCapacity(u)'
  <1>1. /\ position' = [position EXCEPT ![u] = @ - amount]
        /\ debt' = debt /\ asset' = asset
    BY DEF Withdraw, ReleaseCollateral, SetPositions
  <1>2. position'[u] = position[u] - amount /\ position'[u] \in Nat
    BY <1>1, MarketTypes, EngineAssumption DEF MarketTypeOK, RegistryTypeOK, Word
  <1>3. RemainderCoversDebt(u, position'[u])
    BY <1>2 DEF Withdraw, CanWithdraw
  <1>4. debt[u] \in Nat /\ CapacityOf(asset, position'[u]) \in Nat
    BY <1>2, MarketTypes, CapacityNat
  <1> QED
    BY <1>1, <1>3, <1>4 DEF RemainderCoversDebt, WithinCapacity, Capacity

(* Only a user beyond the maintenance threshold is liquidated. *)
LEMMA LiquidatedIsBeyond ==
    ASSUME MarketTypeOK, NEW user \in Users, NEW u \in Users,
           NEW repayAmount \in Amounts, NEW seizeAmount \in Amounts,
           Liquidate(user, u, repayAmount, seizeAmount)
    PROVE  ~WithinMaintenance(u)
  <1>1. asset \in AssetState /\ position[u] \in Nat /\ debt[u] \in Nat
    BY MarketTypes
  <1>2. debt[u] > ThresholdOf(asset, position[u])
    BY <1>1, PolicyPermits DEF Liquidate, Permits, PolicyAnswer, Action, CanLiquidate
  <1> QED
    BY <1>1, <1>2, ThresholdNat DEF WithinMaintenance, Threshold

LEMMA HealthyStep ==
    ASSUME MarketTypeOK, [Next]_vars, NEW u \in Users,
           WithinMaintenance(u), position'[u] < position[u]
    PROVE  debt'[u] = debt[u] /\ WithinCapacity(u)'
  <1>0. MarketTypeOK'
    BY TypeStep
  <1>1. ASSUME NEW amount \in Amounts, Withdraw(u, amount)
        PROVE  debt'[u] = debt[u] /\ WithinCapacity(u)'
    BY <1>0, <1>1, WithdrawLeavesWithin
  <1>2. ASSUME NEW to \in Users, NEW amount \in Amounts, Transfer(u, to, amount)
        PROVE  debt'[u] = debt[u] /\ WithinCapacity(u)'
    <2>1. debt' = debt /\ debt[u] = 0 /\ asset' = asset
      BY <1>2 DEF Transfer, TransferPosition, SetPositions,
        CanTransfer, CanTransferPosition
    <2>2. asset' \in AssetState /\ position'[u] \in Nat
      BY <1>0, EngineAssumption DEF MarketTypeOK, RegistryTypeOK, Word
    <2>3. CapacityOf(asset', position'[u]) \in Nat
      BY <2>2, CapacityNat
    <2> QED
      BY <2>1, <2>3 DEF WithinCapacity, Capacity
  <1>3. ASSUME NEW user \in Users, NEW repayAmount \in Amounts, NEW seizeAmount \in Amounts,
               Liquidate(user, u, repayAmount, seizeAmount)
        PROVE  FALSE
    BY <1>3, LiquidatedIsBeyond
  <1> QED
    BY <1>1, <1>2, <1>3, PositionStep

(***************************************************************************)
(* Collateral that leaves a position within its maintenance margin leaves  *)
(* the debt alone and within the capacity that remains.                    *)
(***************************************************************************)
THEOREM HealthyCollateral == Spec => HealthyCollateralLeavesSafely
  <1>1. MarketTypeOK /\ [Next]_vars =>
          [\A u \in Users :
              /\ WithinMaintenance(u)
              /\ position'[u] < position[u]
              => /\ debt'[u] = debt[u]
                 /\ WithinCapacity(u)']_vars
    BY HealthyStep
  <1> QED
    BY TypeCorrect, <1>1, PTL DEF Spec, HealthyCollateralLeavesSafely

-----------------------------------------------------------------------------
(***************************************************************************)
(* The market implements MarginZones.  A user's zone is a function of what *)
(* it owes and of the two figures of its position, so a transaction moves  *)
(* only those whose position or debt it writes, and to the better when it  *)
(* adds collateral or takes debt off.                                      *)
(***************************************************************************)
LEMMA Figures ==
    ASSUME MarketTypeOK, NEW u \in Users
    PROVE  /\ debt[u] \in Nat /\ Capacity(u) \in Nat /\ Threshold(u) \in Nat
           /\ Capacity(u) <= Threshold(u)
  <1>1. asset \in AssetState /\ position[u] \in Nat /\ debt[u] \in Nat
    BY MarketTypes
  <1> QED
    BY <1>1, CapacityNat, ThresholdNat, CapacityAtMostThreshold DEF Capacity, Threshold

LEMMA FiguresNext ==
    ASSUME MarketTypeOK', NEW u \in Users
    PROVE  /\ debt'[u] \in Nat /\ Capacity(u)' \in Nat /\ Threshold(u)' \in Nat
           /\ Capacity(u)' <= Threshold(u)'
  <1>1. asset' \in AssetState /\ position'[u] \in Nat /\ debt'[u] \in Nat
    BY EngineAssumption DEF MarketTypeOK, RegistryTypeOK, Word
  <1> QED
    BY <1>1, CapacityNat, ThresholdNat, CapacityAtMostThreshold DEF Capacity, Threshold

(* ZoneOf, without the case it cannot be in. *)
LEMMA ZoneCases ==
    ASSUME MarketTypeOK, NEW u \in Users
    PROVE  /\ ZoneOf(u) \in Margin!Zone
           /\ ZoneOf(u) = "none" <=> debt[u] = 0
           /\ ZoneOf(u) = "within" <=> debt[u] # 0 /\ debt[u] <= Capacity(u)
           /\ ZoneOf(u) = "margin" <=> debt[u] > Capacity(u) /\ debt[u] <= Threshold(u)
           /\ ZoneOf(u) = "liquidatable" <=> debt[u] > Threshold(u)
  BY Figures DEF ZoneOf, WithinCapacity, WithinMaintenance, Margin!Zone

LEMMA ZoneCasesNext ==
    ASSUME MarketTypeOK', NEW u \in Users
    PROVE  /\ ZoneOf(u)' \in Margin!Zone
           /\ ZoneOf(u)' = "none" <=> debt'[u] = 0
           /\ ZoneOf(u)' = "within" <=> debt'[u] # 0 /\ debt'[u] <= Capacity(u)'
           /\ ZoneOf(u)' = "margin" <=> debt'[u] > Capacity(u)' /\ debt'[u] <= Threshold(u)'
           /\ ZoneOf(u)' = "liquidatable" <=> debt'[u] > Threshold(u)'
  BY FiguresNext DEF ZoneOf, WithinCapacity, WithinMaintenance, Margin!Zone

(* More collateral, less debt: no worse a zone. *)
LEMMA ZoneImproves ==
    ASSUME MarketTypeOK, MarketTypeOK', NEW u \in Users, asset' = asset,
           position'[u] >= position[u], debt'[u] <= debt[u]
    PROVE  ZoneOf(u)' \in Margin!NoWorse[ZoneOf(u)]
  <1>1. asset \in AssetState /\ position[u] \in Nat /\ position'[u] \in Nat
    BY MarketTypes, EngineAssumption DEF MarketTypeOK, RegistryTypeOK, Word
  <1>2. Capacity(u) <= Capacity(u)' /\ Threshold(u) <= Threshold(u)'
    BY <1>1, CapacityMonotone DEF Capacity, Threshold
  <1>3. /\ debt[u] = 0 => debt'[u] = 0
        /\ debt[u] <= Capacity(u) => debt'[u] <= Capacity(u)'
        /\ debt[u] <= Threshold(u) => debt'[u] <= Threshold(u)'
    BY <1>2, Figures, FiguresNext
  <1>4. CASE ZoneOf(u) = "none"
    BY <1>3, <1>4, ZoneCases, ZoneCasesNext DEF Margin!NoWorse
  <1>5. CASE ZoneOf(u) = "within"
    BY <1>3, <1>5, ZoneCases, ZoneCasesNext DEF Margin!NoWorse
  <1>6. CASE ZoneOf(u) = "margin"
    <2>1. ZoneOf(u)' # "liquidatable"
      BY <1>3, <1>6, ZoneCases, ZoneCasesNext, FiguresNext
    <2> QED
      BY <1>6, <2>1, ZoneCasesNext DEF Margin!NoWorse, Margin!Zone
  <1>7. CASE ZoneOf(u) = "liquidatable"
    BY <1>7, ZoneCasesNext DEF Margin!NoWorse
  <1> QED
    BY <1>4, <1>5, <1>6, <1>7, ZoneCases DEF Margin!Zone

(* Same figures, same zone. *)
LEMMA ZoneKept ==
    ASSUME MarketTypeOK, MarketTypeOK', SameParameters, NEW u \in Users,
           position'[u] = position[u], debt'[u] = debt[u]
    PROVE  ZoneOf(u)' = ZoneOf(u)
  <1>1. /\ asset'.price = asset.price
        /\ asset'.multiplier = asset.multiplier
        /\ asset'.collateralFactorBps = asset.collateralFactorBps
        /\ asset'.riskAdjustmentBps = asset.riskAdjustmentBps
    BY DEF SameParameters, MarketTypeOK, RegistryTypeOK, AssetState
  <1>2. Capacity(u)' = Capacity(u) /\ Threshold(u)' = Threshold(u)
    BY <1>1 DEF Capacity, Threshold, CapacityOf, ThresholdOf, ValueOf
  <1> QED
    BY <1>2 DEF ZoneOf, WithinCapacity, WithinMaintenance

(* What MarginZones sees of the market. *)
ZoneMap == [u \in Users |-> ZoneOf(u)]
MarketTerms == [asset EXCEPT !.lifecycle = "ACTIVE"]

(* A transaction that writes one user's position and debt moves that user. *)
LEMMA OneMoves ==
    ASSUME MarketTypeOK, MarketTypeOK', asset' = asset, NEW u \in Users,
           \A v \in Users \ {u} : position'[v] = position[v] /\ debt'[v] = debt[v],
           NEW S, ZoneOf(u)' \in S
    PROVE  Margin!MoveInto(u, ZoneMap, ZoneMap', S)
  <1>1. SameParameters
    BY DEF SameParameters, MarketTypeOK, RegistryTypeOK, AssetState
  <1>2. \A v \in Users \ {u} : ZoneOf(v)' = ZoneOf(v)
    BY <1>1, ZoneKept
  <1> QED
    BY <1>2 DEF Margin!MoveInto, ZoneMap

LEMMA TakesRiskOff ==
    ASSUME MarketTypeOK, MarketTypeOK', asset' = asset, NEW u \in Users,
           \A v \in Users \ {u} : position'[v] = position[v] /\ debt'[v] = debt[v],
           ZoneOf(u)' \in Margin!NoWorse[ZoneOf(u)]
    PROVE  Margin!TakeRiskOff(u, ZoneMap, ZoneMap')
  <1>1. ZoneMap[u] = ZoneOf(u)
    BY DEF ZoneMap
  <1>2. ZoneOf(u)' \in Margin!NoWorse[ZoneMap[u]]
    BY <1>1
  <1>3. Margin!MoveInto(u, ZoneMap, ZoneMap', Margin!NoWorse[ZoneMap[u]])
    BY <1>2, OneMoves
  <1> QED
    BY <1>3 DEF Margin!TakeRiskOff

MarginUserStep ==
    \/ UNCHANGED ZoneMap
    \/ \E u \in Users : \/ Margin!TakeRiskOff(u, ZoneMap, ZoneMap')
                        \/ Margin!TakeLoan(u, ZoneMap, ZoneMap')

LEMMA MarginUser ==
    ASSUME MarketTypeOK, MarketTypeOK', NEW user \in Users, UserNext(user)
    PROVE  MarginUserStep
  <1>0. /\ asset' = asset /\ asset \in AssetState
        /\ position \in [Users -> Nat] /\ debt \in [Users -> Nat] /\ Amounts \subseteq Nat
    BY UserKeepsAsset, MarketTypes
  <1>1. ASSUME NEW u \in Users, position'[u] >= position[u], debt'[u] <= debt[u],
               \A v \in Users \ {u} : position'[v] = position[v] /\ debt'[v] = debt[v]
        PROVE  MarginUserStep
    BY <1>0, <1>1, ZoneImproves, TakesRiskOff DEF MarginUserStep
  <1>2. ASSUME NEW amount \in Amounts, Deposit(user, amount)
        PROVE  MarginUserStep
    <2>1. /\ position'[user] = position[user] + amount /\ debt' = debt
          /\ \A v \in Users \ {user} : position'[v] = position[v]
      BY <1>0, <1>2 DEF Deposit, SetPositions
    <2> QED
      BY <1>0, <1>1, <2>1
  <1>3. ASSUME NEW amount \in Amounts, Repay(user, amount)
        PROVE  MarginUserStep
    <2>1. /\ debt'[user] = debt[user] - amount /\ position' = position
          /\ \A v \in Users \ {user} : debt'[v] = debt[v]
      BY <1>0, <1>3 DEF Repay, registryVars
    <2> QED
      BY <1>0, <1>1, <2>1
  <1>4. ASSUME NEW amount \in Amounts, Borrow(user, amount)
        PROVE  MarginUserStep
    <2>1. /\ debt'[user] = debt[user] + amount /\ position' = position
          /\ \A v \in Users \ {user} : debt'[v] = debt[v]
          /\ debt[user] + amount <= PolicyAnswer(user, "BORROW", amount).permittedAmount
      BY <1>0, <1>4 DEF Borrow, registryVars, CanBorrow
    <2>2. /\ asset.lifecycle = "ACTIVE"
          /\ PolicyAnswer(user, "BORROW", amount).permittedAmount = Capacity(user)
      BY <1>0, <1>4, PolicyPermits DEF Borrow, Permits, PolicyAnswer, Action, Capacity,
        CanBorrow
    <2>3. Capacity(user)' = Capacity(user)
      BY <1>0, <2>1 DEF Capacity
    <2>4. CASE debt'[user] = 0
      <3>1. position'[user] >= position[user] /\ debt'[user] <= debt[user]
        BY <1>0, <2>1, <2>4
      <3> QED
        BY <1>1, <2>1, <3>1
    <2>5. CASE debt'[user] # 0
      <3>1. ZoneOf(user)' \in {"within"}
        BY <2>1, <2>2, <2>3, <2>5, ZoneCasesNext
      <3>2. ZoneOf(user) \in {"none", "within"}
        BY <1>0, <2>1, <2>2, ZoneCases, Figures
      <3>3. Margin!MoveInto(user, ZoneMap, ZoneMap', {"within"})
        BY <1>0, <2>1, <3>1, OneMoves
      <3>4. ZoneMap[user] \in {"none", "within"} /\ MarketStatus = "open"
        BY <2>2, <3>2 DEF ZoneMap, MarketStatus, Matured
      <3> QED
        BY <3>3, <3>4 DEF MarginUserStep, Margin!TakeLoan
    <2> QED
      BY <2>4, <2>5
  <1>5. ASSUME NEW amount \in Amounts, Withdraw(user, amount)
        PROVE  MarginUserStep
    <2>1. /\ position'[user] <= position[user] /\ debt' = debt
          /\ \A v \in Users \ {user} : position'[v] = position[v]
      BY <1>0, <1>5 DEF Withdraw, ReleaseCollateral, SetPositions
    <2>2. debt'[user] <= Capacity(user)'
      BY <1>5, WithdrawLeavesWithin DEF WithinCapacity
    <2>3. Capacity(user)' <= Capacity(user)
      <3>1. position'[user] \in Nat
        BY EngineAssumption DEF MarketTypeOK, RegistryTypeOK, Word
      <3> QED
        BY <1>0, <2>1, <3>1, CapacityMonotone DEF Capacity
    <2>4. ZoneOf(user)' \in Margin!NoWorse[ZoneOf(user)]
      <3>1. CASE debt[user] = 0
        BY <2>1, <3>1, ZoneCases, ZoneCasesNext DEF Margin!NoWorse
      <3>2. CASE debt[user] # 0
        <4>1. ZoneOf(user)' = "within" /\ ZoneOf(user) = "within"
          BY <2>1, <2>2, <2>3, <3>2, ZoneCases, ZoneCasesNext, Figures, FiguresNext
        <4> QED
          BY <4>1 DEF Margin!NoWorse
      <3> QED
        BY <3>1, <3>2
    <2> QED
      BY <1>0, <2>1, <2>4, TakesRiskOff DEF MarginUserStep
  <1>6. ASSUME NEW to \in Users, NEW amount \in Amounts, Transfer(user, to, amount)
        PROVE  MarginUserStep
    <2>1. /\ position' = [position EXCEPT ![user] = position[user] - amount,
                                         ![to] = position[to] + amount]
          /\ debt' = debt /\ debt[user] = 0
      BY <1>6 DEF Transfer, TransferPosition, SetPositions, CanTransfer, CanTransferPosition
    <2>2. ZoneOf(to)' \in Margin!NoWorse[ZoneOf(to)]
      <3>1. position'[to] >= position[to] /\ debt'[to] <= debt[to]
        BY <1>0, <2>1
      <3> QED
        BY <1>0, <3>1, ZoneImproves
    <2>3. \A v \in Users \ {to} : ZoneOf(v)' = ZoneOf(v)
      <3>1. SameParameters
        BY <1>0 DEF SameParameters, AssetState
      <3> SUFFICES ASSUME NEW v \in Users \ {to} PROVE ZoneOf(v)' = ZoneOf(v)
        OBVIOUS
      <3>2. CASE v = user
        BY <2>1, <3>2, ZoneCases, ZoneCasesNext
      <3>3. CASE v # user
        <4>1. position'[v] = position[v] /\ debt'[v] = debt[v]
          BY <1>0, <2>1, <3>3
        <4> QED
          BY <3>1, <4>1, ZoneKept
      <3> QED
        BY <3>2, <3>3
    <2>4. Margin!TakeRiskOff(to, ZoneMap, ZoneMap')
      BY <2>2, <2>3 DEF Margin!TakeRiskOff, Margin!MoveInto, ZoneMap
    <2> QED
      BY <2>4 DEF MarginUserStep
  <1>7. ASSUME NEW borrower \in Users, NEW repayAmount \in Amounts,
               NEW seizeAmount \in Amounts,
               Liquidate(user, borrower, repayAmount, seizeAmount)
        PROVE  MarginUserStep
    <2>1. \A v \in Users \ {borrower} : position'[v] = position[v] /\ debt'[v] = debt[v]
      BY <1>0, <1>7 DEF Liquidate, SettleLiquidation, SetPositions
    <2>2. ZoneOf(borrower) = "liquidatable"
      BY <1>7, LiquidatedIsBeyond, ZoneCases, Figures DEF WithinMaintenance
    <2>3. ZoneOf(borrower)' \in Margin!NoWorse[ZoneOf(borrower)]
      BY <2>2, ZoneCasesNext DEF Margin!NoWorse
    <2> QED
      BY <1>0, <2>1, <2>3, TakesRiskOff DEF MarginUserStep
  <1>8. ASSUME NEW to \in Recipients, NEW amount \in WalletAmounts,
               WalletTransfer(user, to, amount)
        PROVE  MarginUserStep
    <2>1. position' = position /\ debt' = debt
      BY <1>8 DEF WalletTransfer, registryVars
    <2>2. position'[user] >= position[user] /\ debt'[user] <= debt[user]
      BY <1>0, <2>1
    <2> QED
      BY <1>1, <2>1, <2>2
  <1> QED
    BY <1>2, <1>3, <1>4, <1>5, <1>6, <1>7, <1>8 DEF UserNext

(* The owner's calls: the market is repriced, or its status changes.       *)
LEMMA MarginOwner ==
    ASSUME MarketTypeOK, MarketTypeOK', ActiveBeforeInitialized, OwnerNext
    PROVE  \/ UNCHANGED <<ZoneMap, MarketStatus, MarketTerms>>
           \/ Margin!Reprice(ZoneMap, ZoneMap')
           \/ Margin!ChangeStatus(ZoneMap, ZoneMap')
  <1>0. /\ asset \in AssetState /\ asset' \in AssetState
        /\ position' = position /\ debt' = debt
    BY MarketTypes, OwnerKeepsBooks DEF MarketTypeOK, RegistryTypeOK
  <1>1. ASSUME asset' = asset
        PROVE  UNCHANGED <<ZoneMap, MarketStatus, MarketTerms>>
    <2>1. SameParameters
      BY <1>0, <1>1 DEF SameParameters, AssetState
    <2>2. UNCHANGED ZoneMap
      BY <1>0, <2>1, ZoneKept DEF ZoneMap
    <2> QED
      BY <1>1, <2>2 DEF MarketStatus, MarketTerms, Matured
  <1>2. ASSUME asset'.lifecycle = asset.lifecycle
        PROVE  \/ UNCHANGED <<ZoneMap, MarketStatus, MarketTerms>>
               \/ Margin!Reprice(ZoneMap, ZoneMap')
    <2>1. CASE MarketTerms' = MarketTerms
      <3>1. asset' = asset
        BY <1>0, <1>2, <2>1 DEF MarketTerms, AssetState
      <3> QED
        BY <1>1, <3>1
    <2>2. CASE MarketTerms' # MarketTerms
      <3>1. UNCHANGED MarketStatus
        BY <1>2 DEF MarketStatus, Matured
      <3>2. \A u \in Users : /\ ZoneOf(u)' \in Margin!Zone
                             /\ ZoneOf(u)' = "none" <=> ZoneOf(u) = "none"
        BY <1>0, ZoneCases, ZoneCasesNext
      <3> QED
        BY <2>2, <3>1, <3>2 DEF Margin!Reprice, ZoneMap, MarketTerms
    <2> QED
      BY <2>1, <2>2
  <1>3. ASSUME NEW w \in Writers, SetPositionWriter(w)
        PROVE  asset' = asset
    BY <1>3 DEF SetPositionWriter
  <1>4. ASSUME NEW p \in Parameters, InitializeAsset(p)
        PROVE  asset'.lifecycle = asset.lifecycle
    BY <1>4 DEF InitializeAsset, WithParameters, ActiveBeforeInitialized
  <1>5. ASSUME NEW p \in Parameters, UpdateAssetParameters(p)
        PROVE  asset'.lifecycle = asset.lifecycle
    BY <1>5 DEF UpdateAssetParameters, WithParameters
  <1>6. ASSUME NEW s \in LifecycleState, TransitionLifecycle(s)
        PROVE  \/ UNCHANGED <<ZoneMap, MarketStatus, MarketTerms>>
               \/ Margin!ChangeStatus(ZoneMap, ZoneMap')
    <2>1. /\ asset' = [asset EXCEPT !.lifecycle = s]
          /\ s \in ValidTransitions[asset.lifecycle]
      BY <1>6 DEF TransitionLifecycle, IsValidTransition
    <2>2. asset'.lifecycle = s /\ asset.lifecycle \in LifecycleState
      BY <1>0, <2>1 DEF AssetState
    <2>3. SameParameters /\ UNCHANGED MarketTerms
      BY <1>0, <2>1, <2>2 DEF SameParameters, MarketTerms, AssetState
    <2>4. UNCHANGED ZoneMap
      BY <1>0, <2>3, ZoneKept DEF ZoneMap
    <2>5. CASE asset.lifecycle = "ACTIVE"
      <3>1. MarketStatus = "open" /\ MarketStatus' \in Margin!Status
        BY <2>2, <2>5 DEF MarketStatus, Matured, Margin!Status
      <3> QED
        BY <2>3, <2>4, <3>1 DEF Margin!ChangeStatus, MarketTerms
    <2>6. CASE asset.lifecycle \in {"RESTRICTED", "CORPORATE_ACTION", "SUSPENDED"}
      <3>1. s \in {"ACTIVE", "RESTRICTED", "SUSPENDED"}
        BY <2>1, <2>6 DEF ValidTransitions
      <3>2. MarketStatus = "frozen"
        BY <2>6 DEF MarketStatus, Matured
      <3>3. MarketStatus' \in {"open", "frozen"}
        BY <2>2, <3>1 DEF MarketStatus, Matured
      <3> QED
        BY <2>3, <2>4, <3>2, <3>3 DEF Margin!ChangeStatus, MarketTerms
    <2>7. CASE asset.lifecycle \in {"MATURING", "REDEEMABLE", "REDEEMED"}
      <3>1. s \in {"REDEEMABLE", "REDEEMED"}
        BY <2>1, <2>7 DEF ValidTransitions
      <3>2. UNCHANGED MarketStatus
        BY <2>2, <2>7, <3>1 DEF MarketStatus, Matured
      <3> QED
        BY <2>3, <2>4, <3>2
    <2> QED
      BY <2>2, <2>5, <2>6, <2>7 DEF LifecycleState
  <1>7. ASSUME NEW r \in Releasers, NEW authorized \in Authorizations,
               SetAuthorizedReleaser(r, authorized)
        PROVE  asset' = asset
    BY <1>7 DEF SetAuthorizedReleaser, registryVars
  <1> QED
    BY <1>1, <1>2, <1>3, <1>4, <1>5, <1>6, <1>7 DEF OwnerNext, RegistryOwnerNext

(* A market that is open and has lent nothing, as both the contracts' and   *)
(* the agents' initial states are.                                         *)
LEMMA InitMargin ==
    ASSUME MarketTypeOK, asset.lifecycle = "ACTIVE", debt = [u \in Users |-> 0]
    PROVE  Margin!Init
  <1>1. [u \in Users |-> ZoneOf(u)] = [u \in Users |-> "none"]
    BY ZoneCases
  <1>2. MarketStatus = "open"
    BY DEF MarketStatus, Matured
  <1> QED
    BY <1>1, <1>2 DEF Margin!Init

LEMMA MarginStep ==
    ASSUME MarketTypeOK, ActiveBeforeInitialized, [Next]_vars
    PROVE  [Margin!Next]_(Margin!zones)
  <1>0. MarketTypeOK'
    BY TypeStep
  <1>1. CASE UNCHANGED vars
    BY <1>1
    DEF vars, registryVars, lendingVars, Margin!zones, ZoneOf, WithinCapacity,
        WithinMaintenance, Capacity, Threshold, MarketStatus, Matured
  <1>2. CASE OwnerNext
    BY <1>0, <1>2, MarginOwner
    DEF Margin!Next, Margin!zones, ZoneMap, MarketTerms
  <1>3. ASSUME NEW user \in Users, UserNext(user)
        PROVE  [Margin!Next]_(Margin!zones)
    <2>1. UNCHANGED <<MarketStatus, MarketTerms>>
      BY <1>3, UserKeepsAsset DEF MarketStatus, MarketTerms, Matured
    <2> QED
      BY <1>0, <1>3, <2>1, MarginUser
      DEF MarginUserStep, Margin!Next, Margin!zones, ZoneMap, MarketTerms
  <1> QED
    BY <1>1, <1>2, <1>3 DEF Next

(***************************************************************************)
(* The market implements MarginZones: every transaction is one of the      *)
(* moves of the abstract specification or leaves its state alone.          *)
(***************************************************************************)
THEOREM MarginPromiseKept == Spec => KeepsMarginPromise
  <1>1. Init => Margin!Init
    BY InitType, InitMargin DEF Init, RegistryInit
  <1>2. MarketTypeOK /\ ActiveBeforeInitialized /\ [Next]_vars => [Margin!Next]_(Margin!zones)
    BY MarginStep
  <1>3. Init => ActiveBeforeInitialized
    BY DEF Init, RegistryInit, ActiveBeforeInitialized
  <1>4. MarketTypeOK /\ ActiveBeforeInitialized /\ [Next]_vars => ActiveBeforeInitialized'
    BY LifecycleStep
  <1> QED
    BY TypeCorrect, <1>1, <1>2, <1>3, <1>4, PTL DEF Spec, KeepsMarginPromise, Margin!Spec

=============================================================================
