----------------------------- MODULE OracleSync -----------------------------
(***************************************************************************)
(* The oracle-sync command (sdk/scripts/oracle-sync.ts): read a price feed *)
(* and the Registry, decide whether the asset should be suspended or       *)
(* restricted, re-check, wait for a person to type the target state, send  *)
(* one transitionLifecycle.  Every await is a point where the owner may    *)
(* act on the Registry, and the transaction lands later still.             *)
(*                                                                         *)
(* Several runs may be open at once (two terminals, or a run left at its   *)
(* prompt).  Each reads the feed once, at its start, so the feed is an     *)
(* input here: a price, its age when read (negative: stamped in the        *)
(* future), and the compliance flag.                                       *)
(***************************************************************************)
EXTENDS Registry, Integers

CONSTANTS
    Runs,               \* executions of the command
    FeedPrices,         \* the prices the feed may show
    FeedAges,           \* its ages in seconds
    MAX_DEVIATION_BPS,  \* 1000 in the code
    MAX_STALENESS_SEC,  \* 3600 in the code
    MAX_FUTURE_SKEW_SEC \* 60 in the code

ASSUME OracleAssumption ==
    /\ FeedPrices \subseteq Int
    /\ FeedAges \subseteq Int
    /\ {MAX_DEVIATION_BPS, MAX_STALENESS_SEC, MAX_FUTURE_SKEW_SEC} \subseteq Nat

VARIABLE run    \* where each run is, and what it remembers

vars == <<registryVars, run>>

Feed == [price: FeedPrices, age: FeedAges, complianceFlag: BOOLEAN]

Idle == [stage |-> "idle"]

(* A run that has something to propose: what it read, what it proposes.    *)
Open == [stage: {"decided", "prompting", "sent"},
         read: AssetState, to: {"RESTRICTED", "SUSPENDED"}]

SyncTypeOK ==
    /\ RegistryTypeOK
    /\ run \in [Runs -> Open \cup {Idle}]

Init ==
    /\ RegistryInit
    /\ run = [r \in Runs |-> Idle]

-----------------------------------------------------------------------------
(* oracle-sync/decide.ts, the pure part. *)
Distance(a, b) == IF a > b THEN a - b ELSE b - a

M_DeviationOfFeed(referencePrice, feedPrice) ==
    Distance(feedPrice, referencePrice) * BPS_DENOMINATOR > MAX_DEVIATION_BPS * feedPrice

ExceedsDeviation(referencePrice, feedPrice) ==
    Distance(feedPrice, referencePrice) * BPS_DENOMINATOR > MAX_DEVIATION_BPS * referencePrice

(* Data the script may act on at all; a stale flag is as stale as a price. *)
Usable(referencePrice, feed) ==
    /\ referencePrice > 0
    /\ feed.price > 0
    /\ -feed.age <= MAX_FUTURE_SKEW_SEC
    /\ feed.age <= MAX_STALENESS_SEC

Breach(referencePrice, feed) ==
    feed.complianceFlag \/ ExceedsDeviation(referencePrice, feed.price)

(* The compliance state takes precedence over the market-data state. *)
Target(feed) == IF feed.complianceFlag THEN "RESTRICTED" ELSE "SUSPENDED"

(* The SDK's own copy of the Registry's graph. *)
SdkTransitions ==
    [ACTIVE           |-> {"RESTRICTED", "CORPORATE_ACTION", "SUSPENDED", "MATURING"},
     RESTRICTED       |-> {"ACTIVE", "SUSPENDED"},
     CORPORATE_ACTION |-> {"ACTIVE", "RESTRICTED"},
     SUSPENDED        |-> {"ACTIVE", "RESTRICTED"},
     MATURING         |-> {"REDEEMABLE"},
     REDEEMABLE       |-> {"REDEEMED"},
     REDEEMED         |-> {}]

ProposesTransition(state, feed) ==
    /\ Usable(state.price, feed)
    /\ Breach(state.price, feed)
    /\ state.lifecycle # Target(feed)
    /\ Target(feed) \in SdkTransitions[state.lifecycle]

-----------------------------------------------------------------------------
(* A run started without --execute, a key or a terminal ends here too: it  *)
(* prints its decision and is Idle again.                                  *)
Decide(r, feed) ==
    /\ run[r] = Idle
    /\ ProposesTransition(asset, feed)
    /\ run' = [run EXCEPT ![r] =
                  [stage |-> "decided", read |-> asset, to |-> Target(feed)]]
    /\ UNCHANGED registryVars

Refused(r) ==
    /\ run' = [run EXCEPT ![r] = Idle]
    /\ UNCHANGED registryVars

(* The execute path's second look at the Registry. *)
StillValid(r) ==
    /\ asset.lifecycle = run[r].read.lifecycle
    /\ IsValidTransition(run[r].read.lifecycle, run[r].to)

Recheck(r) ==
    /\ run[r].stage = "decided"
    /\ \/ /\ StillValid(r)
          /\ run' = [run EXCEPT ![r].stage = "prompting"]
          /\ UNCHANGED registryVars
       \/ ~StillValid(r) /\ Refused(r)

(* The person types the target, or something else.  The wallet estimates   *)
(* the transaction before sending it, which fails if it would revert now.  *)
Confirm(r) ==
    /\ run[r].stage = "prompting"
    /\ \/ /\ IsValidTransition(asset.lifecycle, run[r].to)
          /\ run' = [run EXCEPT ![r].stage = "sent"]
          /\ UNCHANGED registryVars
       \/ Refused(r)

(* The transaction is included, and succeeds or reverts; or never is, and  *)
(* waiting for its receipt fails.                                          *)
Land(r) ==
    /\ run[r].stage = "sent"
    /\ \/ TransitionLifecycle(run[r].to) /\ run' = [run EXCEPT ![r] = Idle]
       \/ Refused(r)

RunNext(r) ==
    \/ \E feed \in Feed : Decide(r, feed)
    \/ Recheck(r)
    \/ Confirm(r)
    \/ Land(r)

OwnerNext == RegistryOwnerNext /\ UNCHANGED run

Next == OwnerNext \/ \E r \in Runs : RunNext(r)

Spec == Init /\ [][Next]_vars

-----------------------------------------------------------------------------
(***************************************************************************)
(* However late a confirmed transaction lands, and whatever the owner and  *)
(* other runs did to the asset meanwhile, it changes nothing but the       *)
(* lifecycle, to the state that was confirmed, and never that of an asset  *)
(* on its way to redemption.                                               *)
(***************************************************************************)
Landed(r) == run[r].stage = "sent" /\ run'[r] = Idle /\ asset' # asset

LandsOnlyProtectively ==
    [][\A r \in Runs : Landed(r) =>
          /\ asset' = [asset EXCEPT !.lifecycle = run[r].to]
          /\ asset.lifecycle \in {"ACTIVE", "CORPORATE_ACTION", "RESTRICTED", "SUSPENDED"}]_vars

(***************************************************************************)
(* A suspension is proposed only for prices outside the band of            *)
(* MAX_DEVIATION_BPS around the Registry's own price, both of its ends     *)
(* belonging to the band.                                                  *)
(***************************************************************************)
InBand(price, reference) ==
    /\ price * BPS_DENOMINATOR <= reference * (BPS_DENOMINATOR + MAX_DEVIATION_BPS)
    /\ price * BPS_DENOMINATOR >= reference * (BPS_DENOMINATOR - MAX_DEVIATION_BPS)

SuspendsOnlyOutsideBand ==
    [][\A r \in Runs, feed \in Feed :
          /\ Decide(r, feed)
          /\ run'[r].to = "SUSPENDED"
          => ~InBand(feed.price, asset.price)]_vars

(***************************************************************************)
(* The command's header: it sends nothing unless "the transition is still  *)
(* valid onchain against unchanged state, and you type the target state    *)
(* name".                                                                  *)
(***************************************************************************)
SendsOnlyAgainstUnchangedState ==
    [][\A r \in Runs :
          run[r].stage = "prompting" /\ run'[r].stage = "sent" => asset = run[r].read]_vars

=============================================================================
