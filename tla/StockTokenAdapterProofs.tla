---------------------- MODULE StockTokenAdapterProofs ----------------------
(***************************************************************************)
(* Theorems of the stock token adapter, for every set of feeds, every      *)
(* answer, threshold and grace period, and any length of time.             *)
(*                                                                         *)
(* That an outage's prices are not served is an argument about times: it   *)
(* follows from the two comparisons a served call has passed, given what   *)
(* the invariant says of the times, that no round and no change of the     *)
(* sequencer is stamped in the future.                                     *)
(***************************************************************************)
EXTENDS StockTokenAdapter, TLAPS

WorldTypes ==
    /\ now \in 1..MaxTime
    /\ rounds \in [PriceFeeds -> [answer: Answers, updatedAt: 0..now]]
    /\ uptime \in [SequencerFeeds -> [up: BOOLEAN, startedAt: 0..now]]
    /\ paused \in BOOLEAN

ConfigurationTypes ==
    /\ stockToken \in Tokens
    /\ priceFeed \in PriceFeeds
    /\ sequencerUptimeFeed \in SequencerFeeds \cup {NoContract}
    /\ sequencerCheckEnabled \in BOOLEAN
    /\ gracePeriodSeconds \in Periods
    /\ stalenessThresholdSeconds \in Periods
    /\ collateralFactorBps \in BpsValues
    /\ riskAdjustmentBps \in BpsValues

AdapterInv == WorldTypes /\ ConfigurationTypes

LEMMA AdapterInvGivesType == AdapterInv => AdapterTypeOK
  <1> SUFFICES ASSUME AdapterInv PROVE AdapterTypeOK
    OBVIOUS
  <1>1. Served => Fits(ServedState.price)
    BY DEF Served, PriceUsable, ServedState
  <1> QED
    BY <1>1 DEF AdapterInv, WorldTypes, ConfigurationTypes, AdapterTypeOK

LEMMA InitAdapter == Init => AdapterInv
  <1> SUFFICES ASSUME Init PROVE AdapterInv
    OBVIOUS
  <1>1. now = 1 /\ 1 \in 1..MaxTime /\ {0} \subseteq 0..now /\ 0 \in 0..now
    BY AdapterAssumption DEF Init
  <1>2. rounds \in [PriceFeeds -> [answer: Answers, updatedAt: 0..now]]
    BY <1>1 DEF Init
  <1>3. uptime \in [SequencerFeeds -> [up: BOOLEAN, startedAt: 0..now]]
    BY <1>1 DEF Init
  <1> QED
    BY <1>1, <1>2, <1>3 DEF Init, AdapterInv, WorldTypes, ConfigurationTypes

(* The clock, the feeds, the sequencer and the issuer. *)
LEMMA WorldAdapter ==
    ASSUME AdapterInv,
           \/ Tick
           \/ \E feed \in PriceFeeds, answer \in Answers : Publish(feed, answer)
           \/ \E feed \in SequencerFeeds : SequencerChanges(feed)
           \/ PauseChanges
    PROVE  AdapterInv'
  <1>1. ConfigurationTypes'
    BY DEF Tick, Publish, SequencerChanges, PauseChanges, addresses, times, bps,
        AdapterInv, ConfigurationTypes
  <1>2. now \in Nat /\ now \in 0..now
    BY DEF AdapterInv, WorldTypes
  <1>3. CASE Tick
    <2>1. now' \in 1..MaxTime /\ 0..now \subseteq 0..now'
      BY <1>2, <1>3, AdapterAssumption DEF Tick
    <2>2. rounds' \in [PriceFeeds -> [answer: Answers, updatedAt: 0..now']]
      BY <1>3, <2>1 DEF Tick, AdapterInv, WorldTypes
    <2>3. uptime' \in [SequencerFeeds -> [up: BOOLEAN, startedAt: 0..now']]
      BY <1>3, <2>1 DEF Tick, AdapterInv, WorldTypes
    <2>4. paused' \in BOOLEAN
      BY <1>3 DEF Tick, AdapterInv, WorldTypes
    <2> QED
      BY <1>1, <2>1, <2>2, <2>3, <2>4 DEF AdapterInv, WorldTypes
  <1>4. ASSUME NEW feed \in PriceFeeds, NEW answer \in Answers, Publish(feed, answer)
        PROVE  AdapterInv'
    BY <1>1, <1>2, <1>4 DEF Publish, AdapterInv, WorldTypes
  <1>5. ASSUME NEW feed \in SequencerFeeds, SequencerChanges(feed)
        PROVE  AdapterInv'
    <2>1. [up |-> ~uptime[feed].up, startedAt |-> now] \in [up: BOOLEAN, startedAt: 0..now]
      BY <1>2
    <2>2. /\ uptime' = [uptime EXCEPT ![feed] = [up |-> ~uptime[feed].up, startedAt |-> now]]
          /\ UNCHANGED <<now, rounds, paused>>
      BY <1>5 DEF SequencerChanges
    <2>3. uptime' \in [SequencerFeeds -> [up: BOOLEAN, startedAt: 0..now]]
      BY <2>1, <2>2 DEF AdapterInv, WorldTypes
    <2> QED
      BY <1>1, <2>2, <2>3 DEF AdapterInv, WorldTypes
  <1>6. CASE PauseChanges
    <2>1. paused' \in BOOLEAN /\ UNCHANGED <<now, rounds, uptime>>
      BY <1>6 DEF PauseChanges
    <2> QED
      BY <1>1, <2>1 DEF AdapterInv, WorldTypes
  <1> QED
    BY <1>3, <1>4, <1>5, <1>6

LEMMA OwnerAdapter ==
    ASSUME AdapterInv, SetAddresses \/ SetTimes \/ SetBps
    PROVE  AdapterInv'
  <1>1. WorldTypes'
    BY DEF SetAddresses, SetTimes, SetBps, world, AdapterInv, WorldTypes
  <1>2. ConfigurationTypes'
    BY DEF SetAddresses, SetTimes, SetBps, addresses, times, bps,
        AdapterInv, ConfigurationTypes
  <1> QED
    BY <1>1, <1>2 DEF AdapterInv

LEMMA AdapterInvariant == Spec => []AdapterInv
  <1>1. AdapterInv /\ [Next]_vars => AdapterInv'
    <2> SUFFICES ASSUME AdapterInv, [Next]_vars PROVE AdapterInv'
      OBVIOUS
    <2>1. CASE UNCHANGED vars
      BY <2>1 DEF vars, world, addresses, times, bps, AdapterInv, WorldTypes,
          ConfigurationTypes
    <2> QED
      BY <2>1, WorldAdapter, OwnerAdapter DEF Next
  <1> QED
    BY <1>1, InitAdapter, PTL DEF Spec

(***************************************************************************)
(* The adapter's state is well formed, no feed is ahead of the clock, and  *)
(* a served price fits a word.                                             *)
(***************************************************************************)
THEOREM AdapterTypeCorrect == Spec => []AdapterTypeOK
  BY AdapterInvariant, AdapterInvGivesType, PTL

(***************************************************************************)
(* With a grace period no shorter than the staleness threshold, no price   *)
(* from before or within an outage is served after it.                     *)
(***************************************************************************)
THEOREM NoOutagePrices == Spec => []OutagePricesAreNotServed
  <1>1. AdapterInv => OutagePricesAreNotServed
    <2> SUFFICES ASSUME AdapterInv, Served, sequencerCheckEnabled,
                        gracePeriodSeconds >= stalenessThresholdSeconds
                 PROVE  Round.updatedAt > uptime[sequencerUptimeFeed].startedAt
      BY DEF OutagePricesAreNotServed
    <2>1. /\ now \in Nat /\ gracePeriodSeconds \in Nat /\ stalenessThresholdSeconds \in Nat
          /\ rounds[priceFeed].updatedAt \in Nat
      BY AdapterAssumption DEF AdapterInv, WorldTypes, ConfigurationTypes
    <2>2. /\ sequencerUptimeFeed \in SequencerFeeds
          /\ now - uptime[sequencerUptimeFeed].startedAt > gracePeriodSeconds
      BY DEF Served, SequencerUp, AdapterInv, ConfigurationTypes
    <2>3. uptime[sequencerUptimeFeed].startedAt \in Nat
      BY <2>1, <2>2 DEF AdapterInv, WorldTypes
    <2>4. now - rounds[priceFeed].updatedAt <= stalenessThresholdSeconds
      BY DEF Served, PriceUsable, Round
    <2> QED
      BY <2>1, <2>2, <2>3, <2>4 DEF Round
  <1> QED
    BY <1>1, AdapterInvariant, PTL

=============================================================================
