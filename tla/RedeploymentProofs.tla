------------------------- MODULE RedeploymentProofs -------------------------
(***************************************************************************)
(* Theorems of the redeployment, for any set of users and owner addresses, *)
(* any amounts, parameters, precision of the borrow token and word width.  *)
(*                                                                         *)
(* What one market's user does to its own books and loans is what the      *)
(* market's proofs say of it, instantiated for the old and for the new     *)
(* market; what is proved here is what the two do to each other.           *)
(***************************************************************************)
EXTENDS Redeployment, CoreTheorems

-----------------------------------------------------------------------------
(* What a user's transaction on the old market does to either market.      *)
OldMarket == INSTANCE LendingMarketProofs
    WITH LendingAdapter <- OldAdapter, PoolSupply <- OldPoolSupply,
         debt <- oldDebt, releasers <- oldReleasers

OldBook == DOWN_SCALE * borrowToken[OldAdapter] + UP_SCALE * Total(oldDebt)

LEMMA OldAssumptions ==
    /\ OldMarket!EngineAssumption
    /\ OldMarket!RegistryAssumption
    /\ OldMarket!MarketAssumption
  BY EngineAssumption, RegistryAssumption, RedeploymentAssumption
  DEF OldMarket!EngineAssumption, OldMarket!RegistryAssumption, OldMarket!MarketAssumption,
      OldMarket!IsFiniteSet, IsFiniteSet, OldMarket!Word, Word

LEMMA OldTotal ==
    ASSUME NEW f
    PROVE  Old!Total(f) = Total(f) /\ OldMarket!Total(f) = Total(f)
  BY DEF
      Old!Total, OldMarket!Total, Total, Old!SumFunction,
      OldMarket!SumFunction, SumFunction, Old!SumFunctionOnSet,
      OldMarket!SumFunctionOnSet, SumFunctionOnSet,
      Old!FoldFunctionOnSet, OldMarket!FoldFunctionOnSet,
      FoldFunctionOnSet, Old!MapThenFoldSet, OldMarket!MapThenFoldSet,
      MapThenFoldSet

(* Old and OldMarket are instances over the same variables.                *)
LEMMA OldCalls ==
    ASSUME NEW user \in Users, Old!UserNext(user)
    PROVE  OldMarket!UserNext(user)
  BY DEF
      Old!UserNext, OldMarket!UserNext, Old!Deposit, OldMarket!Deposit,
      Old!Borrow, OldMarket!Borrow, Old!Repay, OldMarket!Repay,
      Old!Withdraw, OldMarket!Withdraw, Old!Transfer,
      OldMarket!Transfer, Old!Liquidate, OldMarket!Liquidate,
      Old!WalletTransfer, OldMarket!WalletTransfer,
      Old!ReleaseCollateral, OldMarket!ReleaseCollateral,
      Old!TransferPosition, OldMarket!TransferPosition,
      Old!SettleLiquidation, OldMarket!SettleLiquidation,
      Old!CanDeposit, OldMarket!CanDeposit, Old!CanBorrow,
      OldMarket!CanBorrow, Old!CanWithdraw, OldMarket!CanWithdraw,
      Old!CanTransfer, OldMarket!CanTransfer, Old!CanLiquidate,
      OldMarket!CanLiquidate, Old!CanRelease, OldMarket!CanRelease,
      Old!CanTransferPosition, OldMarket!CanTransferPosition,
      Old!CanSettleLiquidation, OldMarket!CanSettleLiquidation,
      Old!CanSetPosition, OldMarket!CanSetPosition,
      Old!SetPositions, OldMarket!SetPositions, Old!RemainderCoversDebt,
      OldMarket!RemainderCoversDebt, Old!Permits, OldMarket!Permits,
      Old!PolicyAnswer, OldMarket!PolicyAnswer, Old!ToTokenAmount,
      OldMarket!ToTokenAmount, Old!ToTokenAmountRoundUp,
      OldMarket!ToTokenAmountRoundUp, Old!ToTokenAmountFits,
      OldMarket!ToTokenAmountFits, Old!ToTokenAmountRoundUpFits,
      OldMarket!ToTokenAmountRoundUpFits, Old!Recipients,
      OldMarket!Recipients, Old!registryVars, OldMarket!registryVars,
      Old!CanMove, OldMarket!CanMove, Old!Move, OldMarket!Move,
      Old!CanExecute, OldMarket!CanExecute, Old!CanExecuteFits,
      OldMarket!CanExecuteFits, Old!Blocked, OldMarket!Blocked,
      Old!LiquidateAnswer, OldMarket!LiquidateAnswer,
      Old!CapacityAnswer, OldMarket!CapacityAnswer, Old!Answer,
      OldMarket!Answer, Old!CapacityOfFits, OldMarket!CapacityOfFits,
      Old!ThresholdOfFits, OldMarket!ThresholdOfFits, Old!CapacityOf,
      OldMarket!CapacityOf, Old!ThresholdOf, OldMarket!ThresholdOf,
      Old!ValueOf, OldMarket!ValueOf, Old!IsLiquidatable,
      OldMarket!IsLiquidatable, Old!BorrowingCapacityFits,
      OldMarket!BorrowingCapacityFits, Old!BorrowingCapacity,
      OldMarket!BorrowingCapacity, Old!LiquidationThresholdFits,
      OldMarket!LiquidationThresholdFits, Old!LiquidationThreshold,
      OldMarket!LiquidationThreshold, Old!PositionValueFits,
      OldMarket!PositionValueFits, Old!PositionValue,
      OldMarket!PositionValue, Old!ScaledValue, OldMarket!ScaledValue,
      Old!Fits, OldMarket!Fits

LEMMA OldTypes ==
    /\ TypeOK => OldMarket!MarketTypeOK
    /\ OldMarket!MarketTypeOK' /\ UNCHANGED newVars /\ TypeOK => TypeOK'
  BY DEF TypeOK, RegistryTypeOK, AssetState, LifecycleState, Word, Bps, newVars,
         Old!Releasers, OldMarket!MarketTypeOK, OldMarket!RegistryTypeOK, OldMarket!AssetState,
         OldMarket!LifecycleState, OldMarket!Word, OldMarket!Bps, OldMarket!Releasers, OldMarket!Holders

LEMMA OldUser ==
    ASSUME TypeOK, NEW user \in Users, Old!UserNext(user), UNCHANGED newVars
    PROVE  /\ TypeOK'
           /\ collateral'[NewAdapter] = collateral[NewAdapter]
           /\ borrowToken'[NewAdapter] = borrowToken[NewAdapter]
           /\ Total(position') + collateral[OldAdapter] + selfCredited
                 <= Total(position) + collateral'[OldAdapter] + selfCredited'
           /\ OldBook' >= OldBook
           /\ positionWriter # OldAdapter =>
                 /\ collateral'[OldAdapter] >= collateral[OldAdapter]
                 /\ \A u \in Users :
                       oldDebt'[u] < oldDebt[u] => borrowToken'[u] < borrowToken[u]
  <1>1. OldMarket!MarketTypeOK /\ OldMarket!UserNext(user)
    BY OldTypes, OldCalls
  <1>2. TypeOK'
    <2>1. OldMarket!MarketTypeOK'
      BY <1>1, OldAssumptions, OldMarket!UserType
    <2> QED
      BY <2>1, OldTypes
  <1>3. /\ collateral'[NewAdapter] = collateral[NewAdapter]
        /\ borrowToken'[NewAdapter] = borrowToken[NewAdapter]
    <2>1. /\ NewAdapter \in OldMarket!Holders
          /\ NewAdapter \notin Users /\ NewAdapter # OldAdapter
      BY RedeploymentAssumption DEF OldMarket!Holders
    <2> QED
      BY <1>1, <2>1, OldAssumptions, OldMarket!ElsewhereUser
  <1>4. Total(position') + collateral[OldAdapter] + selfCredited
            <= Total(position) + collateral'[OldAdapter] + selfCredited'
    BY <1>1, OldAssumptions, OldTotal, OldMarket!BooksUser
  <1>5. OldBook' >= OldBook
    <2>1. OldMarket!LoanBook' >= OldMarket!LoanBook
      BY <1>1, OldAssumptions, OldMarket!LoanBookUser
    <2> QED
      BY <2>1, OldTotal DEF OldBook, OldMarket!LoanBook
  <1>6. ASSUME positionWriter # OldAdapter
        PROVE  /\ collateral'[OldAdapter] >= collateral[OldAdapter]
               /\ \A u \in Users :
                     oldDebt'[u] < oldDebt[u] => borrowToken'[u] < borrowToken[u]
    BY <1>1, <1>6, OldAssumptions, OldMarket!RetiredUser
  <1> QED
    BY <1>2, <1>3, <1>4, <1>5, <1>6

-----------------------------------------------------------------------------
(* What a user's transaction on the new market does to either market.      *)
NewMarket == INSTANCE LendingMarketProofs
    WITH LendingAdapter <- NewAdapter, PoolSupply <- NewPoolSupply,
         debt <- newDebt, releasers <- newReleasers

NewBook == DOWN_SCALE * borrowToken[NewAdapter] + UP_SCALE * Total(newDebt)

LEMMA NewAssumptions ==
    /\ NewMarket!EngineAssumption
    /\ NewMarket!RegistryAssumption
    /\ NewMarket!MarketAssumption
  BY EngineAssumption, RegistryAssumption, RedeploymentAssumption
  DEF NewMarket!EngineAssumption, NewMarket!RegistryAssumption, NewMarket!MarketAssumption,
      NewMarket!IsFiniteSet, IsFiniteSet, NewMarket!Word, Word

LEMMA NewTotal ==
    ASSUME NEW f
    PROVE  New!Total(f) = Total(f) /\ NewMarket!Total(f) = Total(f)
  BY DEF
      New!Total, NewMarket!Total, Total, New!SumFunction,
      NewMarket!SumFunction, SumFunction, New!SumFunctionOnSet,
      NewMarket!SumFunctionOnSet, SumFunctionOnSet,
      New!FoldFunctionOnSet, NewMarket!FoldFunctionOnSet,
      FoldFunctionOnSet, New!MapThenFoldSet, NewMarket!MapThenFoldSet,
      MapThenFoldSet

(* New and NewMarket are instances over the same variables.                *)
LEMMA NewCalls ==
    ASSUME NEW user \in Users, New!UserNext(user)
    PROVE  NewMarket!UserNext(user)
  BY DEF
      New!UserNext, NewMarket!UserNext, New!Deposit, NewMarket!Deposit,
      New!Borrow, NewMarket!Borrow, New!Repay, NewMarket!Repay,
      New!Withdraw, NewMarket!Withdraw, New!Transfer,
      NewMarket!Transfer, New!Liquidate, NewMarket!Liquidate,
      New!WalletTransfer, NewMarket!WalletTransfer,
      New!ReleaseCollateral, NewMarket!ReleaseCollateral,
      New!TransferPosition, NewMarket!TransferPosition,
      New!SettleLiquidation, NewMarket!SettleLiquidation,
      New!CanDeposit, NewMarket!CanDeposit, New!CanBorrow,
      NewMarket!CanBorrow, New!CanWithdraw, NewMarket!CanWithdraw,
      New!CanTransfer, NewMarket!CanTransfer, New!CanLiquidate,
      NewMarket!CanLiquidate, New!CanRelease, NewMarket!CanRelease,
      New!CanTransferPosition, NewMarket!CanTransferPosition,
      New!CanSettleLiquidation, NewMarket!CanSettleLiquidation,
      New!CanSetPosition, NewMarket!CanSetPosition,
      New!SetPositions, NewMarket!SetPositions, New!RemainderCoversDebt,
      NewMarket!RemainderCoversDebt, New!Permits, NewMarket!Permits,
      New!PolicyAnswer, NewMarket!PolicyAnswer, New!ToTokenAmount,
      NewMarket!ToTokenAmount, New!ToTokenAmountRoundUp,
      NewMarket!ToTokenAmountRoundUp, New!ToTokenAmountFits,
      NewMarket!ToTokenAmountFits, New!ToTokenAmountRoundUpFits,
      NewMarket!ToTokenAmountRoundUpFits, New!Recipients,
      NewMarket!Recipients, New!registryVars, NewMarket!registryVars,
      New!CanMove, NewMarket!CanMove, New!Move, NewMarket!Move,
      New!CanExecute, NewMarket!CanExecute, New!CanExecuteFits,
      NewMarket!CanExecuteFits, New!Blocked, NewMarket!Blocked,
      New!LiquidateAnswer, NewMarket!LiquidateAnswer,
      New!CapacityAnswer, NewMarket!CapacityAnswer, New!Answer,
      NewMarket!Answer, New!CapacityOfFits, NewMarket!CapacityOfFits,
      New!ThresholdOfFits, NewMarket!ThresholdOfFits, New!CapacityOf,
      NewMarket!CapacityOf, New!ThresholdOf, NewMarket!ThresholdOf,
      New!ValueOf, NewMarket!ValueOf, New!IsLiquidatable,
      NewMarket!IsLiquidatable, New!BorrowingCapacityFits,
      NewMarket!BorrowingCapacityFits, New!BorrowingCapacity,
      NewMarket!BorrowingCapacity, New!LiquidationThresholdFits,
      NewMarket!LiquidationThresholdFits, New!LiquidationThreshold,
      NewMarket!LiquidationThreshold, New!PositionValueFits,
      NewMarket!PositionValueFits, New!PositionValue,
      NewMarket!PositionValue, New!ScaledValue, NewMarket!ScaledValue,
      New!Fits, NewMarket!Fits

LEMMA NewTypes ==
    /\ TypeOK => NewMarket!MarketTypeOK
    /\ NewMarket!MarketTypeOK' /\ UNCHANGED oldVars /\ TypeOK => TypeOK'
  BY DEF TypeOK, RegistryTypeOK, AssetState, LifecycleState, Word, Bps, oldVars,
         New!Releasers, NewMarket!MarketTypeOK, NewMarket!RegistryTypeOK, NewMarket!AssetState,
         NewMarket!LifecycleState, NewMarket!Word, NewMarket!Bps, NewMarket!Releasers, NewMarket!Holders

LEMMA NewUser ==
    ASSUME TypeOK, NEW user \in Users, New!UserNext(user), UNCHANGED oldVars
    PROVE  /\ TypeOK'
           /\ collateral'[OldAdapter] = collateral[OldAdapter]
           /\ borrowToken'[OldAdapter] = borrowToken[OldAdapter]
           /\ Total(position') + collateral[NewAdapter] + selfCredited
                 <= Total(position) + collateral'[NewAdapter] + selfCredited'
           /\ NewBook' >= NewBook
           /\ positionWriter # NewAdapter =>
                 /\ collateral'[NewAdapter] >= collateral[NewAdapter]
                 /\ \A u \in Users :
                       newDebt'[u] < newDebt[u] => borrowToken'[u] < borrowToken[u]
  <1>1. NewMarket!MarketTypeOK /\ NewMarket!UserNext(user)
    BY NewTypes, NewCalls
  <1>2. TypeOK'
    <2>1. NewMarket!MarketTypeOK'
      BY <1>1, NewAssumptions, NewMarket!UserType
    <2> QED
      BY <2>1, NewTypes
  <1>3. /\ collateral'[OldAdapter] = collateral[OldAdapter]
        /\ borrowToken'[OldAdapter] = borrowToken[OldAdapter]
    <2>1. /\ OldAdapter \in NewMarket!Holders
          /\ OldAdapter \notin Users /\ OldAdapter # NewAdapter
      BY RedeploymentAssumption DEF NewMarket!Holders
    <2> QED
      BY <1>1, <2>1, NewAssumptions, NewMarket!ElsewhereUser
  <1>4. Total(position') + collateral[NewAdapter] + selfCredited
            <= Total(position) + collateral'[NewAdapter] + selfCredited'
    BY <1>1, NewAssumptions, NewTotal, NewMarket!BooksUser
  <1>5. NewBook' >= NewBook
    <2>1. NewMarket!LoanBook' >= NewMarket!LoanBook
      BY <1>1, NewAssumptions, NewMarket!LoanBookUser
    <2> QED
      BY <2>1, NewTotal DEF NewBook, NewMarket!LoanBook
  <1>6. ASSUME positionWriter # NewAdapter
        PROVE  /\ collateral'[NewAdapter] >= collateral[NewAdapter]
               /\ \A u \in Users :
                     newDebt'[u] < newDebt[u] => borrowToken'[u] < borrowToken[u]
    BY <1>1, <1>6, NewAssumptions, NewMarket!RetiredUser
  <1> QED
    BY <1>2, <1>3, <1>4, <1>5, <1>6

-----------------------------------------------------------------------------
(* The steps of the whole system.                                          *)
Custody == collateral[OldAdapter] + collateral[NewAdapter]

LEMMA OwnerStep ==
    ASSUME TypeOK, OwnerNext
    PROVE  /\ TypeOK'
           /\ UNCHANGED <<position, oldDebt, newDebt, tokenVars>>
  <1>1. CASE RegistryOwnerNext /\ UNCHANGED <<oldVars, newVars, tokenVars>>
    <2>1. RegistryTypeOK'
      BY <1>1, RegistryOwnerType DEF TypeOK
    <2>2. position' = position
      BY <1>1 DEF RegistryOwnerNext, SetPositionWriter, InitializeAsset,
                  UpdateAssetParameters, TransitionLifecycle
    <2> QED
      BY <1>1, <2>1, <2>2 DEF TypeOK, oldVars, newVars, tokenVars
  <1>2. ASSUME NEW r \in New!Releasers, New!SetAuthorizedReleaser(r, TRUE),
               UNCHANGED oldVars
        PROVE  TypeOK' /\ UNCHANGED <<position, oldDebt, newDebt, tokenVars>>
    BY <1>2 DEF TypeOK, RegistryTypeOK, New!SetAuthorizedReleaser, New!registryVars,
                oldVars, tokenVars
  <1>3. ASSUME NEW r \in Old!Releasers, Old!SetAuthorizedReleaser(r, FALSE),
               UNCHANGED newVars
        PROVE  TypeOK' /\ UNCHANGED <<position, oldDebt, newDebt, tokenVars>>
    BY <1>3 DEF TypeOK, RegistryTypeOK, Old!SetAuthorizedReleaser, Old!registryVars,
                newVars, tokenVars
  <1> QED
    BY <1>1, <1>2, <1>3 DEF OwnerNext

LEMMA Figures ==
    ASSUME TypeOK
    PROVE  /\ Total(position) \in Nat /\ selfCredited \in Nat
           /\ collateral[OldAdapter] \in Nat /\ collateral[NewAdapter] \in Nat
           /\ borrowToken[OldAdapter] \in Nat /\ borrowToken[NewAdapter] \in Nat
           /\ OldBook \in Nat /\ NewBook \in Nat
  <1>1. /\ position \in [Users -> Nat] /\ oldDebt \in [Users -> Nat]
        /\ newDebt \in [Users -> Nat] /\ selfCredited \in Nat
    BY EngineAssumption, RedeploymentAssumption DEF TypeOK, RegistryTypeOK, Word
  <1>2. /\ collateral[OldAdapter] \in Nat /\ collateral[NewAdapter] \in Nat
        /\ borrowToken[OldAdapter] \in Nat /\ borrowToken[NewAdapter] \in Nat
    BY RedeploymentAssumption DEF TypeOK
  <1>3. Total(position) \in Nat /\ Total(oldDebt) \in Nat /\ Total(newDebt) \in Nat
    BY <1>1, TotalNat, RegistryAssumption
  <1>4. DOWN_SCALE \in Nat /\ UP_SCALE \in Nat
    BY RedeploymentAssumption
  <1>5. /\ DOWN_SCALE * borrowToken[OldAdapter] \in Nat
        /\ DOWN_SCALE * borrowToken[NewAdapter] \in Nat
        /\ UP_SCALE * Total(oldDebt) \in Nat /\ UP_SCALE * Total(newDebt) \in Nat
    BY <1>2, <1>3, <1>4
  <1> QED
    BY <1>1, <1>2, <1>3, <1>5 DEF OldBook, NewBook

LEMMA FiguresNext ==
    ASSUME TypeOK'
    PROVE  /\ Total(position') \in Nat /\ selfCredited' \in Nat
           /\ collateral'[OldAdapter] \in Nat /\ collateral'[NewAdapter] \in Nat
           /\ OldBook' \in Nat /\ NewBook' \in Nat
  <1>1. /\ position' \in [Users -> Nat] /\ oldDebt' \in [Users -> Nat]
        /\ newDebt' \in [Users -> Nat] /\ selfCredited' \in Nat
    BY EngineAssumption, RedeploymentAssumption DEF TypeOK, RegistryTypeOK, Word
  <1>2. /\ collateral'[OldAdapter] \in Nat /\ collateral'[NewAdapter] \in Nat
        /\ borrowToken'[OldAdapter] \in Nat /\ borrowToken'[NewAdapter] \in Nat
    BY RedeploymentAssumption DEF TypeOK
  <1>3. Total(position') \in Nat /\ Total(oldDebt') \in Nat /\ Total(newDebt') \in Nat
    BY <1>1, TotalNat, RegistryAssumption
  <1>4. DOWN_SCALE \in Nat /\ UP_SCALE \in Nat
    BY RedeploymentAssumption
  <1>5. /\ DOWN_SCALE * borrowToken'[OldAdapter] \in Nat
        /\ DOWN_SCALE * borrowToken'[NewAdapter] \in Nat
        /\ UP_SCALE * Total(oldDebt') \in Nat /\ UP_SCALE * Total(newDebt') \in Nat
    BY <1>2, <1>3, <1>4
  <1> QED
    BY <1>1, <1>2, <1>3, <1>5 DEF OldBook, NewBook

(* What any step does: types hold, the books grow by no more than the two  *)
(* custodies do, and neither loan book is worth less.                      *)
LEMMA Step ==
    ASSUME TypeOK, [Next]_vars
    PROVE  /\ TypeOK'
           /\ Total(position') + Custody + selfCredited
                 <= Total(position) + Custody' + selfCredited'
           /\ OldBook' >= OldBook /\ NewBook' >= NewBook
  <1>1. ASSUME UNCHANGED <<position, oldDebt, newDebt, tokenVars>>
        PROVE  /\ Total(position') + Custody + selfCredited
                     <= Total(position) + Custody' + selfCredited'
               /\ OldBook' >= OldBook /\ NewBook' >= NewBook
    <2>1. /\ Total(position') = Total(position) /\ selfCredited' = selfCredited
          /\ Custody' = Custody /\ OldBook' = OldBook /\ NewBook' = NewBook
      BY <1>1 DEF Custody, OldBook, NewBook, tokenVars
    <2> QED
      BY <2>1, Figures DEF Custody
  <1>2. CASE UNCHANGED vars
    <2>1. TypeOK'
      BY <1>2 DEF TypeOK, RegistryTypeOK, vars, registryVars, oldVars, newVars, tokenVars
    <2> QED
      BY <1>1, <1>2, <2>1 DEF vars, registryVars, oldVars, newVars
  <1>3. CASE OwnerNext
    BY <1>1, <1>3, OwnerStep
  <1>4. ASSUME NEW user \in Users, Old!UserNext(user), UNCHANGED newVars
        PROVE  /\ TypeOK'
               /\ Total(position') + Custody + selfCredited
                     <= Total(position) + Custody' + selfCredited'
               /\ OldBook' >= OldBook /\ NewBook' >= NewBook
    <2>1. NewBook' = NewBook
      BY <1>4, OldUser DEF NewBook, newVars
    <2> QED
      BY <1>4, <2>1, OldUser, Figures, FiguresNext DEF Custody
  <1>5. ASSUME NEW user \in Users, New!UserNext(user), UNCHANGED oldVars
        PROVE  /\ TypeOK'
               /\ Total(position') + Custody + selfCredited
                     <= Total(position) + Custody' + selfCredited'
               /\ OldBook' >= OldBook /\ NewBook' >= NewBook
    <2>1. OldBook' = OldBook
      BY <1>5, NewUser DEF OldBook, oldVars
    <2> QED
      BY <1>5, <2>1, NewUser, Figures, FiguresNext DEF Custody
  <1> QED
    BY <1>2, <1>3, <1>4, <1>5 DEF Next, UserNext

LEMMA InitState ==
    ASSUME Init
    PROVE  /\ TypeOK
           /\ Total(position) = 0
           /\ OldBook = DOWN_SCALE * OldPoolSupply
           /\ NewBook = DOWN_SCALE * NewPoolSupply
  <1>1. TypeOK
    <2>1. RegistryTypeOK
      <3>1. asset \in AssetState
        BY ParametersType DEF Init, LifecycleState
      <3>2. position \in [Users -> Word]
        BY EngineAssumption DEF Init, Word
      <3> QED
        BY <3>1, <3>2, RedeploymentAssumption DEF Init, RegistryTypeOK
    <2>2. oldDebt \in [Users -> Word] /\ newDebt \in [Users -> Word]
      BY EngineAssumption DEF Init, Word
    <2>3. collateral \in [Users \cup Writers -> Nat]
      BY RedeploymentAssumption DEF Init, Old!CollateralAtStart, Old!Holders
    <2>4. borrowToken \in [Users \cup Writers -> Nat]
      BY RedeploymentAssumption DEF Init, Old!BorrowTokenAtStart, Old!Holders
    <2>5. selfCredited \in 0..SelfCreditBound
      BY RedeploymentAssumption DEF Init
    <2> QED
      BY <2>1, <2>2, <2>3, <2>4, <2>5 DEF TypeOK, Init
  <1>2. Total(position) = 0 /\ Total(oldDebt) = 0 /\ Total(newDebt) = 0
    BY TotalZero, RegistryAssumption DEF Init
  <1>3. borrowToken[OldAdapter] = OldPoolSupply /\ borrowToken[NewAdapter] = NewPoolSupply
    BY RedeploymentAssumption DEF Init, Old!BorrowTokenAtStart, Old!Holders
  <1>4. /\ UP_SCALE * 0 = 0
        /\ DOWN_SCALE * OldPoolSupply \in Nat /\ DOWN_SCALE * NewPoolSupply \in Nat
    BY RedeploymentAssumption
  <1> QED
    BY <1>1, <1>2, <1>3, <1>4 DEF OldBook, NewBook

-----------------------------------------------------------------------------
(***************************************************************************)
(* Type correctness, throughout the switch.                                *)
(***************************************************************************)
THEOREM TypeCorrect == Spec => []TypeOK
  BY InitState, Step, PTL DEF Spec

(***************************************************************************)
(* However often the owner turns the position writer back and forth, and   *)
(* whatever the users of both markets do meanwhile, the two custodies      *)
(* together hold every claim on the shared books.  Either custody alone    *)
(* may hold less than what its market wrote there: the sum is what is      *)
(* inductive.                                                              *)
(***************************************************************************)
THEOREM CustodiesCover == Spec => []CustodiesCoverBooks
  <1>1. Init => CustodiesCoverBooks
    <2> SUFFICES ASSUME Init PROVE CustodiesCoverBooks
      OBVIOUS
    <2> QED
      BY InitState, Figures DEF CustodiesCoverBooks
  <1>2. TypeOK /\ CustodiesCoverBooks /\ [Next]_vars => CustodiesCoverBooks'
    <2> SUFFICES ASSUME TypeOK, CustodiesCoverBooks, [Next]_vars
                 PROVE  CustodiesCoverBooks'
      OBVIOUS
    <2>1. /\ TypeOK'
          /\ Total(position') + Custody + selfCredited
                <= Total(position) + Custody' + selfCredited'
      BY Step
    <2>2. /\ Total(position') \in Nat /\ selfCredited' \in Nat
          /\ collateral'[OldAdapter] \in Nat /\ collateral'[NewAdapter] \in Nat
      BY <2>1, FiguresNext
    <2> QED
      BY <2>1, <2>2, Figures DEF CustodiesCoverBooks, Custody
  <1> QED
    BY TypeCorrect, <1>1, <1>2, PTL DEF Spec

(***************************************************************************)
(* Neither pool loses to rounding, and neither pays for the other's loans. *)
(***************************************************************************)
THEOREM BothSolvent == Spec => []BothLoanBooksSolvent
  <1> DEFINE Solvent == /\ OldBook >= DOWN_SCALE * OldPoolSupply
                        /\ NewBook >= DOWN_SCALE * NewPoolSupply
  <1>0. DOWN_SCALE * OldPoolSupply \in Nat /\ DOWN_SCALE * NewPoolSupply \in Nat
    BY RedeploymentAssumption
  <1>1. Init => Solvent
    BY <1>0, InitState
  <1>2. TypeOK /\ Solvent /\ [Next]_vars => Solvent'
    <2> SUFFICES ASSUME TypeOK, Solvent, [Next]_vars PROVE Solvent'
      OBVIOUS
    <2>1. /\ OldBook' >= OldBook /\ NewBook' >= NewBook
          /\ OldBook' \in Nat /\ NewBook' \in Nat
      BY Step, FiguresNext
    <2> QED
      BY <1>0, <2>1, Figures
  <1>3. Solvent => BothLoanBooksSolvent
    BY OldTotal, NewTotal
    DEF OldBook, NewBook, BothLoanBooksSolvent, Old!LoanBookSolvent, New!LoanBookSolvent
  <1> HIDE DEF Solvent
  <1> QED
    BY TypeCorrect, <1>1, <1>2, <1>3, PTL DEF Spec

(***************************************************************************)
(* An adapter that is not the position writer only collects: its custody   *)
(* does not shrink, and a debt there falls only when its owner pays.       *)
(***************************************************************************)
THEOREM RetiredOnlyCollects == Spec => RetiredAdapterOnlyCollects
  <1> DEFINE OldCollects == positionWriter # OldAdapter =>
                 /\ collateral'[OldAdapter] >= collateral[OldAdapter]
                 /\ \A u \in Users : oldDebt'[u] < oldDebt[u] => borrowToken'[u] < borrowToken[u]
             NewCollects == positionWriter # NewAdapter =>
                 /\ collateral'[NewAdapter] >= collateral[NewAdapter]
                 /\ \A u \in Users : newDebt'[u] < newDebt[u] => borrowToken'[u] < borrowToken[u]
  <1>1. ASSUME TypeOK, Next
        PROVE  OldCollects /\ NewCollects
    <2>0. /\ collateral[OldAdapter] \in Nat /\ collateral[NewAdapter] \in Nat
          /\ oldDebt \in [Users -> Nat] /\ newDebt \in [Users -> Nat]
      BY <1>1, Figures, EngineAssumption DEF TypeOK, Word
    <2>1. CASE OwnerNext
      BY <1>1, <2>0, <2>1, OwnerStep DEF tokenVars
    <2>2. ASSUME NEW user \in Users, Old!UserNext(user), UNCHANGED newVars
          PROVE  OldCollects /\ NewCollects
      <3>1. OldCollects
        BY <1>1, <2>2, OldUser
      <3>2. collateral'[NewAdapter] = collateral[NewAdapter] /\ newDebt' = newDebt
        BY <1>1, <2>2, OldUser DEF newVars
      <3> QED
        BY <2>0, <3>1, <3>2
    <2>3. ASSUME NEW user \in Users, New!UserNext(user), UNCHANGED oldVars
          PROVE  OldCollects /\ NewCollects
      <3>1. NewCollects
        BY <1>1, <2>3, NewUser
      <3>2. collateral'[OldAdapter] = collateral[OldAdapter] /\ oldDebt' = oldDebt
        BY <1>1, <2>3, NewUser DEF oldVars
      <3> QED
        BY <2>0, <3>1, <3>2
    <2> QED
      BY <1>1, <2>1, <2>2, <2>3 DEF Next, UserNext
  <1>2. TypeOK /\ [Next]_vars => [OldCollects /\ NewCollects]_vars
    BY <1>1
  <1> QED
    BY TypeCorrect, <1>2, PTL DEF Spec, RetiredAdapterOnlyCollects

=============================================================================
