---------------------------- MODULE MarketPages ----------------------------
(***************************************************************************)
(* What the frontend tells of the market: the figures of its pages, which  *)
(* PolicyViews defines, and the activity log (frontend/lib/activity.ts):   *)
(* the contracts' events it follows, and the row it makes of each.  An     *)
(* event is emitted by the transaction that succeeds, so an event is a     *)
(* relation on the market's steps.                                         *)
(*                                                                         *)
(* Not followed: Repaid, ReleaserUpdated, PositionWriterUpdated,           *)
(* AssetInitialized and the tokens' own events.                            *)
(***************************************************************************)
EXTENDS LendingMarket, PolicyViews

(* The events, with the arguments the contracts give them. *)
AmountEvents ==
    [eventName: {"Deposited", "Borrowed", "Withdrawn"}, user: Users, amount: Amounts]
TransferEvents ==
    [eventName: {"Transferred"}, from: Users, to: Users, amount: Amounts]
LiquidationEvents ==
    [eventName: {"Liquidated"}, borrower: Users, liquidator: Users,
     repayAmount: Amounts, seizeAmount: Amounts]
LifecycleEvents ==
    [eventName: {"LifecycleTransitioned"}, from: LifecycleState, to: LifecycleState]
ParameterEvents ==
    [eventName: {"AssetParametersUpdated"}, parameters: Parameters]

Emits(e) ==
    CASE e.eventName = "Deposited"    -> Deposit(e.user, e.amount)
      [] e.eventName = "Borrowed"     -> Borrow(e.user, e.amount)
      [] e.eventName = "Withdrawn"    -> Withdraw(e.user, e.amount)
      [] e.eventName = "Transferred"  -> Transfer(e.from, e.to, e.amount)
      [] e.eventName = "Liquidated"   ->
            Liquidate(e.liquidator, e.borrower, e.repayAmount, e.seizeAmount)
      [] e.eventName = "LifecycleTransitioned" ->
            /\ e.from = asset.lifecycle
            /\ TransitionLifecycle(e.to)
            /\ UNCHANGED lendingVars
      [] e.eventName = "AssetParametersUpdated" ->
            /\ UpdateAssetParameters(e.parameters)
            /\ UNCHANGED lendingVars

-----------------------------------------------------------------------------
(* toActivityRow: the fields a row keeps (and debtAtLiquidation, which no   *)
(* page shows).                                                            *)
M_AmountsSwapped(e) ==
    [kind |-> "liquidate", user |-> e.borrower, liquidator |-> e.liquidator,
     amount |-> e.seizeAmount, seizeAmount |-> e.repayAmount]

LiquidationRow(e) ==
    [kind |-> "liquidate", user |-> e.borrower, liquidator |-> e.liquidator,
     amount |-> e.repayAmount, seizeAmount |-> e.seizeAmount]

ToActivityRow(e) ==
    CASE e.eventName = "Deposited" ->
            [kind |-> "deposit", user |-> e.user, amount |-> e.amount]
      [] e.eventName = "Borrowed" ->
            [kind |-> "borrow", user |-> e.user, amount |-> e.amount]
      [] e.eventName = "Withdrawn" ->
            [kind |-> "withdraw", user |-> e.user, amount |-> e.amount]
      [] e.eventName = "Transferred" ->
            [kind |-> "transfer", user |-> e.from, to |-> e.to, amount |-> e.amount]
      [] e.eventName = "Liquidated" -> LiquidationRow(e)
      [] e.eventName = "LifecycleTransitioned" ->
            [kind |-> "lifecycle", lifecycleFrom |-> e.from, lifecycleTo |-> e.to]
      [] e.eventName = "AssetParametersUpdated" ->
            [kind |-> "parameters", price |-> e.parameters.price,
             collateralFactorBps |-> e.parameters.collateralFactorBps,
             riskAdjustmentBps |-> e.parameters.riskAdjustmentBps]

(* describeRow: how a reader books a row, amounts of stock and of dollars  *)
(* kept apart.                                                             *)
Stock(row) ==
    CASE row.kind = "deposit"   -> [position EXCEPT ![row.user] = @ + row.amount]
      [] row.kind = "withdraw"  -> [position EXCEPT ![row.user] = @ - row.amount]
      [] row.kind = "transfer"  -> [position EXCEPT ![row.user] = @ - row.amount,
                                                    ![row.to]   = @ + row.amount]
      [] row.kind = "liquidate" -> [position EXCEPT ![row.user] = @ - row.seizeAmount]
      [] row.kind = "borrow"    -> position

Dollars(row) ==
    CASE row.kind = "borrow"    -> [debt EXCEPT ![row.user] = @ + row.amount]
      [] row.kind = "liquidate" -> [debt EXCEPT ![row.user] = @ - row.amount]
      [] row.kind \in {"deposit", "withdraw", "transfer"} -> debt

(* The rows show no multiplier. *)
Terms(row) ==
    CASE row.kind = "lifecycle"  -> [asset EXCEPT !.lifecycle = row.lifecycleTo]
      [] row.kind = "parameters" -> [asset EXCEPT !.price = row.price,
                                        !.multiplier = asset'.multiplier,
                                        !.collateralFactorBps = row.collateralFactorBps,
                                        !.riskAdjustmentBps = row.riskAdjustmentBps]

-----------------------------------------------------------------------------
BooksEntered ==
    \E e \in AmountEvents \cup TransferEvents \cup LiquidationEvents :
        /\ Stock(ToActivityRow(e)) = position'
        /\ Dollars(ToActivityRow(e)) = debt'
        /\ Emits(e)

TermsEntered ==
    \E e \in LifecycleEvents \cup ParameterEvents :
        /\ Terms(ToActivityRow(e)) = asset'
        /\ Emits(e)

(***************************************************************************)
(* The log alone tells how every position came to be: each transaction     *)
(* that changes a position, raises a debt, or lowers somebody's debt       *)
(* together with the position, has a row, and booking the row gives the    *)
(* new books; each change of an asset's terms after its initialization has *)
(* one as well.  What has none is a repayment, and what is booked wrongly  *)
(* is the transfer to oneself.                                             *)
(***************************************************************************)
RowsExplainBooks ==
    [][/\ /\ \/ position' # position
             \/ \E u \in Users : debt'[u] > debt[u]
          /\ selfCredited' = selfCredited
          => BooksEntered
       /\ initialized /\ asset' # asset => TermsEntered]_vars

(***************************************************************************)
(* The figures of the pages are those the contracts decide by, and the     *)
(* landing page's demo answers as the Policy, for every user's position    *)
(* and every debt or request.                                              *)
(***************************************************************************)
PagesAgree ==
    \A u \in Users : \A amount \in Amounts \cup {debt[u]} :
        /\ FiguresAgree(asset, position[u], amount)
        /\ DemoMirrorsPolicy(asset, position[u], amount)

=============================================================================
