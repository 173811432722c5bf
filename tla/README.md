# LedgerLine in TLA+

LedgerLine lends a stable token against tokenized stock. A *Registry* contract
keeps the state of each asset and of each position; a *Policy* contract answers,
for every protocol that asks, whether an action on a position is allowed; four
*adapters* (Lending, Vault, Transfer, Liquidation) ask it and act. An SDK, an
AgentKit provider for autonomous agents, an oracle command and a web frontend
stand around the contracts.

This directory models that system, checks the models with TLC and proves theorems
about them with TLAPS. `PROJECT.json` is the machine-readable index (runs, the
source lines behind every definition, hazards, findings, theorems). Paths below
are relative to the repository.

## 1. Inventory

### Contracts (`contracts/src`, `stylus`)

| Component | State | Operations |
|---|---|---|
| `LedgerLineRegistry` | asset state (price, multiplier, lifecycle, two bps), initialized flag, positions, position writer | owner: `setPositionWriter`, `initializeAsset`, `updateAssetParameters`, `transitionLifecycle`; writer: `setPosition` |
| `LedgerLinePolicy` | none (a view) | `canExecute(asset, position, action, amount)` |
| position engine, risk engine (Rust, Stylus) | none | value, capacity, threshold, `is_liquidatable`, all truncating and overflow-checked |
| `LedgerLineLendingAdapter` | debts, releaser allowlist, custody of both tokens | `deposit`, `borrow`, `repay`; for releasers `releaseCollateral`, `transferPosition`, `liquidate`; owner `setAuthorizedReleaser` |
| `LedgerLineVaultAdapter` | none | `withdraw` |
| `LedgerLineTransferAdapter` | none | `transfer` |
| `LedgerLineLiquidationAdapter` | none | `liquidate` |
| `RobinhoodStockTokenAdapter` | addresses, periods, bps | eight setters, `getAssetState` over external feeds |
| redeployment scripts | (the two deployments) | deploy a second LendingAdapter beside the first, switch the writer, authorize its adapters |

How they interact: every user call enters one adapter, which reads the Registry,
calls the Policy (which reads the Registry and calls the engines), and ends in
the LendingAdapter, which writes its debts, moves tokens and, being the position
writer, calls `Registry.setPosition`. All of this is one atomic transaction. What
interleaves is transactions: of users, of liquidators, and of the owner, who may
reprice, freeze, mature and rewire between any two of them.

What makes it right: claims on the books are covered by custody; lenders never
lose to rounding; a user's position is never pushed beyond its capacity by
anything but a price; a healthy position is never seized; a frozen asset only
sheds risk. What is hard: three roundings in different directions, an allowed
set that depends on four contracts, debts kept where the Policy cannot see them,
and a position writer that can be replaced under the positions it wrote.

### Off-chain (`sdk`, `frontend`)

| Component | State | Operations |
|---|---|---|
| SDK client and AgentKit provider | a call in progress, transactions on their way | check, decide the amount, submit; deposit, repay and liquidate are plain calls |
| `oracle-sync` command | what a run has read and proposes | read, decide, re-check, prompt, send, wait |
| operator page (`app/admin`) | the owner's address and the asset as read | transition, update of all four parameters from two fields |
| activity log (`useActivityRows`, `activity`) | rows, status | backfill, watchers, merging of live batches; an event becomes a row |
| agent demo (`AgentDemo`, `agentIntent`) | amount, result, evaluating, a transaction | edit, evaluate, retry at the permitted amount, borrow |
| transaction forms (five) | inputs over cached reads | which transactions they let through |
| `useTransactionFlow` | per button: a transaction and its receipt; the page's cached reads | prompt, inclusion, receipt, invalidation |
| pages and landing demo | none | the figures and verdicts they compute themselves |
| deployment scripts, ABIs, addresses, layout, backtest | – | straight-line or presentation |

How they interact with the chain: reads are answered by a node from its latest
block, writes are transactions that land later, are reverted or are dropped.
Between a read and the write it led to lies an `await`, a person, or both. What
makes these parts right is that a stale read does no harm on chain, that answers
which come back in the wrong order do not corrupt what is shown, that figures and
checks repeated off-chain agree with the ones that count, and that what is
promised to the reader of a document or a page is what happens.

The complete list of hazards, each at its line with the properties that cover it
or the reason why none does, is in `PROJECT.json`.

## 2. Modules

```
LedgerLineTypes   Engines
          \        /
           Policy ------------- StockTokenAdapter      PolicyViews (over Policy)
             |                                              |
          Registry ---- OracleSync ---- OperatorTools       |
             |     \                                        |
           (Token)  AgentConsole                            |
             |                                              |
        LendingMarket ---- AgentClient                      |
         |   |     \                                        |
         | Redeployment  MarginZones (abstract)             |
         |                                                  |
         +------------ MarketPages -------------------------+
                            |
                        FormChecks          ActivityFeed    TransactionFlow
```

| Module | Models | State | Actions |
|---|---|---|---|
| `LedgerLineTypes` | `LedgerLineTypes.sol` | – | enumerations, reasons |
| `Engines` | both Rust engines | – | each function, and a `...Fits` operator that says it does not overflow |
| `Policy` | `LedgerLinePolicy.sol` | – | `CanExecute`, `CanExecuteFits` (the call does not revert) |
| `Registry` | `LedgerLineRegistry.sol`, one asset id | `asset`, `initialized`, `position`, `positionWriter` | the four owner calls; `setPosition` as the operator `SetPositions` inside the caller's transaction |
| `Token` | the two ERC-20 tokens (external) | – | `CanMove`, `Move` |
| `LendingMarket` | the four adapters over one Registry | `debt`, `releasers`, `collateral`, `borrowToken` | `Deposit`, `Borrow`, `Repay`, `Withdraw`, `Transfer`, `Liquidate`, `SetAuthorizedReleaser`, `WalletTransfer`, the Registry's owner calls |
| `MarginZones` | abstract specification of a lending market's risk | `zone`, `status`, `terms` | `TakeRiskOff`, `TakeLoan`, `Reprice`, `ChangeStatus` |
| `Redeployment` | two LendingAdapters over one Registry | two sets of debts and releasers | both markets' calls, the owner's runbook |
| `AgentClient` | SDK and AgentKit provider | `call`, `inFlight` | evaluate, send, fail, include, revert, drop, and the whole market underneath |
| `OracleSync` | `oracle-sync.ts`, `decide.ts` | `run` | `Decide`, `Recheck`, `Confirm`, `Land` for each run, and the owner |
| `OperatorTools` | `app/admin/page.tsx`, over `OracleSync` | `isOwner`, `priceRead`, `writes` | the page's reads and clicks, its transactions landing late or never, and everything of `OracleSync` |
| `ActivityFeed` | `useActivityRows.ts` | `backfill`, `watched`, `arriving`, `rows`, `view` | queries, finish, fail, rendering, watch, poll, failing poll, append, lose, change of chain |
| `MarketPages` | `activity.ts`: events and rows, over `LendingMarket` | – | an event is a relation on the market's steps (`Emits`), `ToActivityRow` and how a row reads (`Stock`, `Dollars`, `Terms`) |
| `PolicyViews` | the arithmetic in `PolicyConsole`, `PolicyEquation`, `PolicyVerdict`, `LiquidateForm`, `LandingPolicyDemo` | – | – |
| `FormChecks` | the five forms, the SDK's `checkLiquidatable`, over `MarketPages` | – | one operator per form: what it lets through on which reads |
| `TransactionFlow` | `useTransactionFlow.ts` with the wallet, wagmi and TanStack Query | `height`, `txs`, `flow`, `network`, `copy`, `request` | click, prompt, land, revert, receipt found or not, invalidate, ask, answer, change of network, leaving the page |
| `AgentConsole` | `AgentDemo.tsx`, `agentIntent.ts` | `amount`, `result`, `evaluating`, `evaluations`, ... | edit, submit, retry, execute, answer, settle, reject, change of account |
| `StockTokenAdapter` | `RobinhoodStockTokenAdapter.sol` | its eight variables and the world it reads | setters, clock, feeds, sequencer, pause |

`MC*` modules and `.cfg` files instantiate them. `CoreTheorems` and the seven
`*Proofs` modules hold the theorems. Definitions called `M_...` are deliberately
wrong variants of the definition after them; nothing refers to them. Each run's
properties have been confronted with the variant that should break them.

Conventions:

- A call that reverts changes nothing, so a `require`, a custom error, a missing
  allowance or an overflow anywhere on its way is a guard. Solidity's checked
  arithmetic is the operator `Fits`: no number exceeds `MaxWord`.
- The checks of a call that clients have to foresee are an operator of their own
  (`CanWithdraw` of `Withdraw`). What a form or an agent expects of the contracts is
  said with these operators and never with `ENABLED`, which the prover does not
  know; a call's checks include those of the calls it makes.
- 10^18 is `FIXED_POINT_SCALE`, 10 000 is `BPS_DENOMINATOR`; both are parameters,
  so that a run can use small numbers that truncate as often as large ones do.
- Scaling between the 18-decimal internal unit and the token's own unit is
  `DOWN_SCALE` (fewer decimals) or `UP_SCALE` (more).
- The reentrancy guard needs no state: the tokens are external and plain, and
  within one transaction there is no second call.
- Bytes32 reasons, events and views that only return a stored value are not
  modelled. Users have approved the adapters: an allowance that is missing is a
  balance that is missing.

Abstractions a reader should know of: assets are independent copies of the
Registry's entries, and the model follows one; users are not contracts;
`selfCredited` is a history variable that records the one way in which the books
grow without custody (see finding 1), so that the conservation law can be stated
exactly and self-transfers need not be excluded; `lostSight` and `overtaken` of
`TransactionFlow` are history too, the transactions the page stopped watching and
the reads whose first request was on its way when a confirmation came.

Libraries appear in `TransactionFlow` by what the code relies on: the wallet shows
a prompt that is confirmed or refused at any time; `useWriteContract` forgets the
last hash when a new write begins; `useWaitForTransactionReceipt` reports an error
for a reverted transaction and for a receipt it cannot fetch, pauses offline and
tries again on focus; an invalidation asks again for every read that has an answer
and leaves a first request that is on its way alone. An answer is the state of
some block since its request, never before it.

## 3. Runs

"Violation" runs check a sentence of the repository that the code does not keep;
section 4 says what they end in.

| Run | Shows | Bounds |
|---|---|---|
| `market_safety` | `BooksBacked`, `LoanBookSolvent`, `RoundingFavoursPool`, `OnlyRepricingExceedsCapacity`, `HealthyCollateralLeavesSafely`, `FrozenOnlyDerisks`, `MaturedCollateralIsLocked`, `StrandedDebtOnlyOwnerRepays`, `KeepsMarginPromise`, the pages' `PagesAgree` and `RowsExplainBooks`, the forms' `RefusedIsHopeless` and `OfferedIsAccepted`, types | 2 users with 1 unit of stock each, a pool of 1 token unit = 2 internal, amounts 0–2, two prices and a refused parameter set, both ends of releaser authorization, two possible position writers, direct token transfers, self-transfers up to 1 |
| `market_reassignment` | violation | 2 users with 2 units each, three prices |
| `redeployment` | `CustodiesCoverBooks`, `BothLoanBooksSolvent`, `RetiredAdapterOnlyCollects`, types | 2 users with 1 unit, pools of 2, a token with more decimals (`UP_SCALE` 2), self-transfers up to 1, any order of switches |
| `liquidation_reach` | violation | 2 users with 2 units each, three prices |
| `agents` | `AgentsGetNoMoreThanAsked`, `PermittedIsAccepted`, types | an agent with 2 transactions on their way, another user, the owner |
| `operator_tools` | `LandsOnlyProtectively`, `SuspendsOnlyOutsideBand`, `OperatorKeepsPrice`, types | 2 runs of the command; feed prices on, inside and outside both ends of the band of two reference prices; ages at, inside and outside both limits; one transaction of the page on its way, with a bps value the Registry must refuse |
| `oracle_sync_prompt` | violation | the command's part of it |
| `activity_feed` | `HistoryComplete`, `OnlyLoadingDropsRows`, `LoadingEnds` (liveness), types | 2 sources, 2 logs, opened on either chain, 1 change of chain, a rendering at any time, any request may fail, polls included |
| `agent_console` | `OnlyAllowedAmountsAreSent`, `EvaluatingEnds`, `RetryIsAllowed`, types | 2 accounts, 2 evaluations, 2 amounts, 2 parameter sets and a refused one |
| `agent_console_stale` | violation | 1 account, up to 4 evaluations |
| `stock_adapter` | `OutagePricesAreNotServed`, types | time 1–3, periods 1 and 2, a coarse and a fine feed, three kinds of token |
| `transaction_flow` | `AtMostOneOnTheWay`, `ConfirmedIsReflected` (liveness), types | 2 buttons, one of them drawn on the wrong network too, 1 read first asked for when something is typed, 2 sends, 1 foreign block, 2 changes of network or of page |

Why these bounds are enough to be of use: the interesting cases of the market
need two parties (borrower and liquidator, sender and recipient), amounts on
both sides of each unit boundary, and a price that takes a loan under water.
With scale 2 and bps of 4, half of all products truncate, which is far more
often than 10^18 and 10 000 do. The largest word is 16, and three units at the
high price are worth more than that in the engines' intermediate products, so
reverts by overflow happen; they leave a position that can be neither withdrawn
against a debt nor liquidated, which the model shows and no property forbids.
The capacity of one unit at the high price is not a multiple of the token's
unit, so pulling in and paying out round differently. One market run serves
wiring, refinement, pages and forms at once, so that each of these meets every
state the others bring about (an unwired releaser, a stranded debt, a
self-transfer). The owner is unrestricted: any lifecycle edge, any price, at any
moment. Two runs of the command, two accounts, two evaluations, two sends of a
button and two sources are the smallest numbers at which the races in question
exist. Symmetry is declared on users, accounts and runs, only in runs without
liveness, where no definition singles one out.

Deadlock is checked where a step must always be possible (the owner can always
act, a page can always render); the stock adapter does stop at its bounds, and its
configuration says so.

### Fairness

Nothing on chain is fair: no user has to call and no owner has to act, so the
contract modules have no fairness and claim no liveness. The browser's requests
are the exception.

`LoadingEnds` needs `WF_feedVars(Settles(b))` for each backfill: its next request
is answered or rejected in the end, by the transport's time limit if by nothing
else. Nothing is assumed of the watchers, whose polls may fail for ever, nor of the
person, whose renderings may come without end; the changes of chain are bounded,
as a wallet that moves on for ever keeps the page loading rightly.

`ConfirmedIsReflected` needs `WF_vars(Answer(k))` for each read: a request that is
on its way is answered in the end, the library's retries included. Receipts, the
wallet, the person and the chain are not assumed to do anything: the property
starts from a transaction that is shown as confirmed.

`EvaluatingEnds`
states the absence of a lock-up of the agent demo as a safety property: as long
as the button is disabled, something is still to come back.

## 4. What the checks show

Holds, and is not obvious from any single function:

- *Custody.* Claims never exceed collateral in custody (`BooksBacked`), except by
  what self-transfers credit; also through rewiring. Through a redeployment the same
  holds for the two custodies taken together (`CustodiesCoverBooks`), again but for
  what self-transfers on either adapter credit.
- *Lenders.* The pool and the debts together never lose value, in total
  (`LoanBookSolvent`) and in every step (`RoundingFavoursPool`), for tokens with
  fewer and with more than 18 decimals, with partial repayments and liquidations.
- *Borrowers.* Only a change of parameters takes a position beyond its capacity
  (`OnlyRepricingExceedsCapacity`), liquidations of other users included; a
  position within its maintenance margin loses collateral only by its owner's
  hand, and then stays within capacity (`HealthyCollateralLeavesSafely`).
- *Lifecycle.* Off ACTIVE nothing adds risk, whichever adapter is used
  (`FrozenOnlyDerisks`); from MATURING on collateral never leaves, also in
  REDEEMABLE and REDEEMED (`MaturedCollateralIsLocked`), which is what the code
  does, though hardly what one would wish.
- *Refinement.* `KeepsMarginPromise`: every transaction is one of four moves
  between four zones of risk; as long as the terms stay, a user gets worse only by
  taking a loan, and then no further than its capacity.
- *Stale reads.* An agent gets no more than it asked for however late its
  transaction lands, and an answer that still stands is honoured
  (`PermittedIsAccepted`) on a market as it was deployed (`Wired`: listed, every
  adapter authorized, nothing credited to itself); an oracle
  transaction that lands late changes nothing but the lifecycle, to the confirmed
  state, and never that of a maturing asset.
- *Operator page.* It writes all four parameters from two fields; what it thereby
  undoes is exactly a repricing since its read, or everything if the price had not
  arrived when the button was clicked. Otherwise price and lifecycle stay
  (`OperatorKeepsPrice`). Both exceptions are reachable.
- *Figures.* For the neutral multiplier, the page's own capacity is the Policy's
  or one above it, the banner never contradicts the decision below it, and a debt
  is liquidatable exactly when it exceeds the threshold shown; the landing page's
  demo answers as the Policy where the collateral factor takes whole units
  (`PagesAgree`). With another multiplier the page's figures leave it out and say
  something else; the admin page writes the neutral one.
- *Forms.* On current reads and without a lifecycle preview, no form stands in
  the way of a transaction that would succeed (`RefusedIsHopeless`), and what a
  form lets through for an account without debt succeeds on a wired market, the
  tokens it needs being there; a liquidation also on a debt that was read earlier,
  if it has only grown since (`OfferedIsAccepted`). A form that asks the Policy
  shows nothing while that read fails, so an offer implies that the engines do not
  overflow; an amount within one token unit of the largest word cannot be rounded
  up, which the forms do not look at and the property excepts.
- *Transactions of the page.* A button has at most one transaction on its way
  unless the page lost sight of the first (`AtMostOneOnTheWay`): its receipt could
  not be fetched, fetching paused, the page was left, or the second was sent from
  the wrong network, where only the deposit form has buttons. What a button shows
  confirmed is in the end in every read the page shows, but for a read whose
  first request the confirmation overtook (`ConfirmedIsReflected`).
- *Rows.* The activity log explains the books: booking its rows gives the new
  positions, and the debts but for repayments, which have no row
  (`RowsExplainBooks`).
- *Pages' state.* A loaded activity log holds the history up to its backfill
  (`HistoryComplete`); a row goes only when a backfill finishes, and at home only one
  that is younger than it (`OnlyLoadingDropsRows`); loading ends, in rows or an error
  (`LoadingEnds`). The demo sends only amounts that were allowed, and a retry at the permitted
  amount is allowed.
- *Feeds.* With a grace period no shorter than the staleness threshold no price
  from before an outage of the sequencer is served after it.

Does not hold (each is a finding with the sentence it contradicts):

1. `market_reassignment`: a transfer of a position to its own owner increases it.
2. `liquidation_reach`: a liquidation may repay nothing and seize everything; the
   debt that is left can be liquidated by nobody, as the adapter reverts with
   `NoPosition` before it asks the Policy, although scripts and comments say that
   anyone can liquidate any undercollateralized borrower.
   `StrandedDebtOnlyOwnerRepays` states what does hold of such a debt.
3. `oracle_sync_prompt`: the re-check precedes the prompt, so the state against
   which the transaction is sent need not be the state that was read.
4. `agent_console_stale`: an older evaluation of the same amount that returns last
   replaces the newer one's answer, and Execute Borrow is offered on it.

Visible in the models too, without a run of their own:

- `borrow` writes no position, so that a LendingAdapter that is not, or not yet, the
  position writer lends beside the one that is, each against the same position. The
  repository says how an adapter treats its own debts and nothing about two of them,
  so this is no finding.
- After a redeployment the new position writer vouches for balances that lie in
  the old adapter's custody; `CustodiesCoverBooks` holds for the sum only, and
  `RetiredAdapterOnlyCollects` says that the old custody cannot be drawn on.
- The permitted amount of a LIMIT answer ignores debts, which the LendingAdapter
  counts. `PermittedIsAccepted` therefore has the premise `debt[a] = 0`; the
  AgentKit provider's advice that this amount "would be accepted" has not.
- The four exceptions of `AtMostOneOnTheWay` and the one of `ConfirmedIsReflected`
  are ways in which the page does send twice, or stays on the state of before.
- The lifecycle previewed in the operator panel of the console is handed to the
  forms and stays when the panel is closed (`ShownLifecycle`).
- Every rendering hands the watchers a new closure, which takes them down and
  installs them from the then latest block. A log mined before that and not yet
  polled, or mined between a backfill's query and the first watcher, is in nobody's
  answer and missing until the page loads again; one that a watcher brings in while
  the backfill is still loading is replaced by it. So no property says that live
  logs appear, though `docs/DEMO.md` says of its own deposit that its event "appears
  immediately in the Activity log".
- A stock token address without code stops every price of the stock adapter:
  `try` does not catch that (`AdvisoryPasses`).

## 5. Theorems

All are checked by TLAPS to the last leaf, for every value of the constants that
satisfies the named assumptions (`EngineAssumption`: scale and denominator
positive, the largest word a natural number; `RegistryAssumption`,
`MarketAssumption`, `RedeploymentAssumption`, `AgentAssumption`, `FeedAssumption`,
`FormsAssumption`, `FlowAssumption` and the like: arguments are words, adapters are
none of the users, one of the two scales is 1, users and position writers are
finitely many, as 160-bit addresses are; and for the clients `SuppliesFit`: all
there is of a token fits a word, which is where ERC-20 keeps its `totalSupply`).
TLC evaluates the same assumptions.

`CoreTheorems` is what several of the other modules rest on.

- Engines, on lemmas about truncating division: `CapacityAtMostThreshold`
  (borrowing to the limit is never liquidatable, truncations included),
  `CapacityMonotone` (more collateral never lowers either bound).
- Policy: `PolicyPermits` (what a non-BLOCK answer implies), `LimitRetryIsAllowed`
  (asking again at the permitted amount is ALLOW).
- Registry: the parameter checks and every owner call keep it typed; an answer to
  BORROW is a typed answer.
- Sums: `TotalUpdate`, the total of a record over a finite set moves by what its
  one changed entry moves; `MoveConserves`, a token transfer leaves the total of all
  holders alone, one to oneself included; no entry exceeds the total, nor do two
  (`TwoEntriesWithinTotal`). A total is a fold, which the community modules define by
  recursion on sets. That such a function exists (`SumsExist`) and what it says of
  two records that differ in one entry are inductions on the size of the set. The
  library's induction rules have an operator parameter, so the rule is stated here
  with sets in the place of predicates (`NaturalsFrom`, `SubsetsFrom`) and follows
  from the order on the naturals being well-founded.

`LendingMarketProofs`:

- `TypeCorrect`: `Spec => []MarketTypeOK`. The type invariant is inductive as it
  stands; one lemma for the owner, one with a step for each action of a user. It
  contains what `Fits` is there for: no stored word overflows and no balance goes
  below zero. The step properties below are proved by action under it.
- `BooksAreBacked`: `BooksBacked`, and `LoanBookIsSolvent`: `LoanBookSolvent`. With
  the types, each is inductive. One lemma for each action says by how much it moves
  the total of positions or debts (by `TotalUpdate`, with a transfer to oneself as a
  case of its own) and what it moves in custody or pool, conversions included.
- `OnlyRepricing`: `OnlyRepricingExceedsCapacity`. A deposit or an incoming
  transfer raises capacity (`CapacityMonotone`); a borrow ends within the capacity
  it has just been judged by; a withdrawal leaves a remainder that covers the
  debt, or there is no debt; a transfer out needs no debt; and a liquidation needs
  a position beyond its threshold, so beyond its capacity
  (`CapacityAtMostThreshold`), hence one the property says nothing about.
- `FrozenDerisks`: `FrozenOnlyDerisks`. Off ACTIVE the Policy blocks every
  question (`PermitsOnlyActive`), so of the users' transactions only deposits,
  repayments and wallet transfers are left (`FrozenUserStep`).
- `MaturedIsLocked`: `MaturedCollateralIsLocked`. The same lemma, and
  `LifecycleStep`: the graph has no edge back. It needs the strengthening
  `ActiveBeforeInitialized`: `initializeAsset` sets ACTIVE past the graph, once.
- `PoolIsFavoured`: `RoundingFavoursPool`, from lemmas about the two conversions:
  what is paid out is worth no more than what is recorded, what is pulled in no
  less, for any pair of scales.
- `StrandedDebt`: `StrandedDebtOnlyOwnerRepays`. A liquidation seizes something,
  so without a position a debt shrinks by `Repay` only.
- `HealthyCollateral`: `HealthyCollateralLeavesSafely`. A liquidation excludes a
  position within its threshold; a withdrawal is judged on what remains.
- `MarginPromiseKept`: `Spec => KeepsMarginPromise`, the refinement of
  `MarginZones`. Initial states map to initial states. A user's transaction
  changes debt or position of the users it names and nobody else's zone; for each
  action the zone of who it names ends in `NoWorse` of the zone before, or, for a
  loan, in `within`. The owner's repricing is `Reprice`, and leaves who owes
  nothing in `none`; a transition is `ChangeStatus`.

`RedeploymentProofs` takes `LendingMarketProofs` as an instance for either adapter,
so that the market's lemmas about one adapter's transaction are used twice.

- `TypeCorrect`: `TypeOK`, inductive as it stands.
- `CustodiesCover`: `CustodiesCoverBooks`. Neither custody covers anything by
  itself, as a position deposited in one may be withdrawn or seized through the
  other; the sum is inductive.
- `BothSolvent`: `BothLoanBooksSolvent`. A transaction of one adapter leaves debts
  and pool of the other alone, and treats its own as in `LendingMarketProofs`.
- `RetiredOnlyCollects`: `RetiredAdapterOnlyCollects`, by action: every call that
  releases or seizes collateral writes positions, which only the writer can.

`MarketClientsProofs`, about what stands on top of a market:

- `AgentTypeCorrect`, `AgentsGetWhatTheyAsked` (`AgentsGetNoMoreThanAsked`). The
  client takes the amount it sends from an answer, so that the type of what is on
  its way already needs an invariant, `AgentInv`: a LIMIT that was answered lies
  below the request it answers (`Checked`), and what is sent is no more than was
  asked (`Sent`).
- `OfferedIsTaken` (`OfferedIsAccepted`) and `RefusedIsReverted`
  (`RefusedIsHopeless`). That a refusal is right follows from the types and the
  Policy's answer. That an offer is right needs more, since the contracts make
  checks no client makes: checked additions, and the custody's balance. The
  invariant `MarketInv` says why these never bite: the books are backed, and of
  each token there is what there was at the start (`TokensConserved`). So any one
  position, and any two, lie within the custody (`CustodyCovers`), any one or two
  holdings within a word (`HoldingsFit`), and a conversion that rounds up fits
  because the tokens it asks for exist (`PulledInFits`). Per call one lemma puts
  the contracts' checks together (`WithdrawAccepted` and so on), and one shows that
  the form's checks imply its premises (`WithdrawOffered` and so on).
- `PermittedIsTaken` (`PermittedIsAccepted`), from the same lemmas. The invariant
  adds `AllMeant`: what an agent has in hand or on its way is an intent of its own
  that the Policy did not block, so that the answer, if it still stands, says that
  the asset is ACTIVE and how much it carries.
- The market's properties with agents on it: `AgentsKeepBooksBacked`,
  `AgentsKeepLoanBookSolvent`, `AgentsKeepMarketSafe` (the six step properties),
  `AgentsKeepMarginPromise`, `PagesHoldBesideAgents`. An agent sends amounts that
  are none of `Amounts`, as they come out of an answer. So the market's proofs are
  instantiated once more with every word as an amount (`AnyAmount`); each step of
  `AgentSpec` is one of that market (`AgentsStepTheMarket`), and the two agree on
  every figure the properties speak of.
- `ShownFiguresAgree`, `DemoAnswersAsPolicy`, and `PagesAlwaysAgree`
  (`PagesAgree`), which puts them on the market's reachable states. One division by
  a product is at most one above two divisions in a row.
- `RowsExplain`: `RowsExplainBooks`. One lemma for each action names the event it
  emits and what booking that event's row changes.

`FrontendHooksProofs`, the two hooks that wait for answers:

- `FlowTypeCorrect`, `OneOnTheWay` (`AtMostOneOnTheWay`). The invariant `FlowInv`
  adds to the types `Latest` (a button holds its latest transaction, or none),
  `ConfirmedLanded`, and `Watched`: a transaction on its way that the page has not
  lost sight of is the one its button holds, with the receipt still loading. Such
  a button is busy, so it does not send.
- `FeedTypeCorrect`, `HistoryIsComplete` (`HistoryComplete`), `RowsStay`
  (`OnlyLoadingDropsRows`). The invariant `FeedInv` adds `FollowsWallet` (the backfill
  that counts is for the chain the wallet is on), `FoundHistory` (what it has been
  answered contains all that was on chain when it began, for every source that has
  answered), and `SettledIsOver`: a view that is not loading belongs to a backfill
  that is done, so no answer replaces its rows any more. Backfills of earlier chains go on
  answering; that they are cancelled is what keeps their rows out.

Others:

- `AgentConsoleProofs`: `ConsoleTypeCorrect`, `ConsoleSafe`
  (`OnlyAllowedAmountsAreSent`), `ButtonComesBack` (`EvaluatingEnds`). The
  strengthening is `ResultIsSettled`: what the page shows is an evaluation that
  has come back, and such an evaluation never changes again; without it the amount
  that was sent and the answer that allowed it could come apart. `RetryAllowed`
  (`RetryIsAllowed`) adds `RetryInv`: an answer is the Policy's of what was seen
  when it was given, and a retry was made from a settled LIMIT at its permitted
  amount. `LimitRetryIsAllowed` does the rest.
- `OperatorToolsProofs`: `ToolsTypeCorrect`, `UpdatesKeepPrice`
  (`OperatorKeepsPrice`), `LandingIsProtective` (`LandsOnlyProtectively`),
  `SuspensionIsOutsideBand` (`SuspendsOnlyOutsideBand`). The invariant `ToolsInv`
  adds `Prepared`: a pending update carries what `ParametersToWrite` made of the
  read recorded with it. A run's target is one the command may propose, by type;
  the lifecycle graph then leaves only protective edges into it.
- `StockTokenAdapterProofs`: `AdapterTypeCorrect`, `NoOutagePrices`
  (`OutagePricesAreNotServed`). The state is typed (`AdapterInv`); the property
  then is arithmetic about the two clocks.

Only model-checked:

- Liveness under fairness: `LoadingEnds`, `ConfirmedIsReflected`.
- The scaling of a feed by a power of ten: `^` has no backend. The theorems of the
  stock adapter therefore rest on the explicit check that a served price fits.

Every other property of a passing run is a theorem; all its safety invariants are.
No module uses RECURSIVE operators or `ENABLED`.

## 6. Not modelled, and why

- *Layout and wording*, the activity page's filters, the landing page but for its
  demo: presentation without state of its own.
- *First deployment scripts, ABIs, addresses*: run once before there are users, or
  generated.
- *Mock tokens, tests*: test code. *`analysis/`*: floating-point study of past
  prices. *Shell scripts*: wrote the frontend's first version.
- In what is modelled: amounts in the forms beyond a double's range (the form
  fails to render), allowances (a missing one is a missing balance), the several
  accounts and assets a page could switch between, except for `AgentConsole`'s.
- Gas, the EVM's reentrancy, malicious or fee-taking tokens, the security of keys.

## 7. Plan

Written in this order, the most important first: types, engines, Policy, Registry,
LendingMarket with `MarginZones`; Redeployment; AgentClient; OracleSync;
ActivityFeed; AgentConsole; StockTokenAdapter; PolicyViews, MarketPages, FormChecks;
TransactionFlow; OperatorTools; then the theorems of section 5.

Left, in order of weight: the rows of the activity log with agents' calls among
them (`RowsExplainBooks` quantifies over `Amounts`, which theirs are not in); what
the forms let through for an account with debts, which they do not look at; a run
of the market with overflow as its subject.
