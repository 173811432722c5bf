------------------------- MODULE StockTokenAdapter --------------------------
(***************************************************************************)
(* RobinhoodStockTokenAdapter: reads a Chainlink price feed, the uptime    *)
(* feed of the chain's sequencer and the stock token's advisory pause      *)
(* flag, and serves an AssetState or reverts.  Time passes, feeds publish, *)
(* the sequencer fails and recovers, the token pauses, and the owner       *)
(* changes any part of the configuration at any moment.                    *)
(*                                                                         *)
(* getAssetState is a view, so it is an operator here: Served says that a  *)
(* call at this moment does not revert (its errors are not told apart),    *)
(* and ServedState is what it returns.                                     *)
(***************************************************************************)
EXTENDS Policy, Integers

CONSTANTS
    Tokens,             \* what the stock token may be: see TokenKind
    PriceFeeds, SequencerFeeds,
    NoContract,         \* the zero address, which has no code
    Decimals,           \* decimals() of each price feed
    Answers,            \* what the feeds may report, negative numbers included
    Periods,            \* grace periods and staleness thresholds, in seconds
    BpsValues,          \* what the owner passes for bps
    PRICE_DECIMALS,     \* 18 in the code
    MaxTime             \* bound on block.timestamp

(* How a token answers oraclePaused(): with its flag, by reverting, or not *)
(* at all because there is no contract at that address.                    *)
TokenKind == {"flagged", "reverting", "codeless"}

ASSUME AdapterAssumption ==
    /\ Tokens \subseteq TokenKind
    /\ NoContract \notin PriceFeeds \cup SequencerFeeds
    /\ Decimals \in [PriceFeeds -> Nat]
    /\ Answers \subseteq Int
    /\ Periods \subseteq Nat
    /\ BpsValues \subseteq Word
    /\ PRICE_DECIMALS \in Nat
    /\ MaxTime \in Nat \ {0}

VARIABLES
    now,                        \* block.timestamp
    rounds,                     \* external: the latest round of each price feed
    uptime,                     \* external: and of each sequencer feed
    paused,                     \* external: the flag of a token that has one
    stockToken, priceFeed, sequencerUptimeFeed,
    sequencerCheckEnabled, gracePeriodSeconds, stalenessThresholdSeconds,
    collateralFactorBps, riskAdjustmentBps

world == <<now, rounds, uptime, paused>>
addresses == <<stockToken, priceFeed, sequencerUptimeFeed>>
times == <<sequencerCheckEnabled, gracePeriodSeconds, stalenessThresholdSeconds>>
bps == <<collateralFactorBps, riskAdjustmentBps>>
vars == <<world, addresses, times, bps>>

(* Deployed at time 1, before or after the feeds' first rounds. *)
Init ==
    /\ now = 1
    /\ rounds \in [PriceFeeds -> [answer: Answers, updatedAt: {0}]]
    /\ uptime = [f \in SequencerFeeds |-> [up |-> TRUE, startedAt |-> 0]]
    /\ paused = FALSE
    /\ stockToken \in Tokens
    /\ priceFeed \in PriceFeeds
    /\ sequencerUptimeFeed \in SequencerFeeds \cup {NoContract}
    /\ sequencerCheckEnabled = FALSE
    /\ gracePeriodSeconds \in Periods
    /\ stalenessThresholdSeconds \in Periods
    /\ collateralFactorBps \in BpsValues
    /\ riskAdjustmentBps \in BpsValues

-----------------------------------------------------------------------------
(* External: the clock, the feeds, the sequencer, the issuer. *)
Tick ==
    /\ now < MaxTime
    /\ now' = now + 1
    /\ UNCHANGED <<rounds, uptime, paused, addresses, times, bps>>

Publish(feed, answer) ==
    /\ rounds' = [rounds EXCEPT ![feed] = [answer |-> answer, updatedAt |-> now]]
    /\ UNCHANGED <<now, uptime, paused, addresses, times, bps>>

SequencerChanges(feed) ==
    /\ uptime' = [uptime EXCEPT ![feed] = [up |-> ~@.up, startedAt |-> now]]
    /\ UNCHANGED <<now, rounds, paused, addresses, times, bps>>

PauseChanges ==
    /\ paused' = ~paused
    /\ UNCHANGED <<now, rounds, uptime, addresses, times, bps>>

-----------------------------------------------------------------------------
(* The owner's setters; only the two for bps look at what they are given.  *)
SetAddresses ==
    /\ \/ /\ stockToken' \in Tokens
          /\ UNCHANGED <<priceFeed, sequencerUptimeFeed>>
       \/ /\ priceFeed' \in PriceFeeds
          /\ UNCHANGED <<stockToken, sequencerUptimeFeed>>
       \/ /\ sequencerUptimeFeed' \in SequencerFeeds \cup {NoContract}
          /\ UNCHANGED <<stockToken, priceFeed>>
    /\ UNCHANGED <<world, times, bps>>

SetTimes ==
    /\ \/ /\ sequencerCheckEnabled' \in BOOLEAN
          /\ UNCHANGED <<gracePeriodSeconds, stalenessThresholdSeconds>>
       \/ /\ gracePeriodSeconds' \in Periods
          /\ UNCHANGED <<sequencerCheckEnabled, stalenessThresholdSeconds>>
       \/ /\ stalenessThresholdSeconds' \in Periods
          /\ UNCHANGED <<sequencerCheckEnabled, gracePeriodSeconds>>
    /\ UNCHANGED <<world, addresses, bps>>

SetBps ==
    /\ \/ /\ collateralFactorBps' \in BpsValues \cap Bps
          /\ UNCHANGED riskAdjustmentBps
       \/ /\ riskAdjustmentBps' \in BpsValues \cap Bps
          /\ UNCHANGED collateralFactorBps
    /\ UNCHANGED <<world, addresses, times>>

Next ==
    \/ Tick
    \/ \E feed \in PriceFeeds, answer \in Answers : Publish(feed, answer)
    \/ \E feed \in SequencerFeeds : SequencerChanges(feed)
    \/ PauseChanges
    \/ SetAddresses
    \/ SetTimes
    \/ SetBps

Spec == Init /\ [][Next]_vars

-----------------------------------------------------------------------------
(* getAssetState's checks, in its order. *)
M_UpIsEnough ==
    /\ sequencerUptimeFeed # NoContract
    /\ uptime[sequencerUptimeFeed].up

SequencerUp ==
    /\ sequencerUptimeFeed # NoContract
    /\ uptime[sequencerUptimeFeed].up
    /\ now - uptime[sequencerUptimeFeed].startedAt > gracePeriodSeconds

(* try/catch takes a reverting token as not paused; an address without     *)
(* code fails in the caller, before there is a call to catch.              *)
ReportsPaused == stockToken = "flagged" /\ paused

AdvisoryPasses == stockToken # "codeless" /\ ~ReportsPaused

ScaleTo18(amount, decimals) ==
    IF decimals <= PRICE_DECIMALS THEN amount * 10 ^ (PRICE_DECIMALS - decimals)
                                  ELSE amount \div 10 ^ (decimals - PRICE_DECIMALS)

Round == rounds[priceFeed]

M_ScalesUnchecked ==
    /\ Round.answer > 0
    /\ Round.updatedAt # 0
    /\ now - Round.updatedAt <= stalenessThresholdSeconds

PriceUsable ==
    /\ Round.answer > 0
    /\ Round.updatedAt # 0
    /\ now - Round.updatedAt <= stalenessThresholdSeconds
    /\ Fits(ScaleTo18(Round.answer, Decimals[priceFeed]))

Served ==
    /\ sequencerCheckEnabled => SequencerUp
    /\ AdvisoryPasses
    /\ PriceUsable

ServedState ==
    [price |-> ScaleTo18(Round.answer, Decimals[priceFeed]),
     multiplier |-> FIXED_POINT_SCALE, lifecycle |-> "ACTIVE",
     collateralFactorBps |-> collateralFactorBps,
     riskAdjustmentBps |-> riskAdjustmentBps]

-----------------------------------------------------------------------------
AdapterTypeOK ==
    /\ now \in 1..MaxTime
    /\ rounds \in [PriceFeeds -> [answer: Answers, updatedAt: 0..now]]
    /\ uptime \in [SequencerFeeds -> [up: BOOLEAN, startedAt: 0..now]]
    /\ {paused, sequencerCheckEnabled} \subseteq BOOLEAN
    /\ stockToken \in Tokens
    /\ priceFeed \in PriceFeeds
    /\ sequencerUptimeFeed \in SequencerFeeds \cup {NoContract}
    /\ {gracePeriodSeconds, stalenessThresholdSeconds} \subseteq Periods
    /\ {collateralFactorBps, riskAdjustmentBps} \subseteq BpsValues
    /\ Served => Fits(ServedState.price)

(***************************************************************************)
(* The two clocks work together: with a grace period no shorter than the   *)
(* staleness threshold, no price from before an outage of the sequencer    *)
(* (or from within it) is served after it, whatever the owner reconfigures *)
(* and whenever the feed resumes.                                          *)
(***************************************************************************)
OutagePricesAreNotServed ==
    Served /\ sequencerCheckEnabled /\ gracePeriodSeconds >= stalenessThresholdSeconds
        => Round.updatedAt > uptime[sequencerUptimeFeed].startedAt

=============================================================================
