------------------------ MODULE OperatorToolsProofs ------------------------
(***************************************************************************)
(* Theorems of the operator's tools, for any number of runs of the         *)
(* oracle-sync command, any feed and any settings of its limits, with the  *)
(* operator page and the owner's other calls at any moment between.        *)
(*                                                                         *)
(* What a run or the page sends is prepared from a copy and lands on       *)
(* whatever the asset is by then.  The invariant keeps what was sent in    *)
(* the form it was prepared in: a run's target is one of two states, and   *)
(* the page's parameters are made of the price it had read (Prepared).     *)
(***************************************************************************)
EXTENDS OperatorTools, CoreTheorems

Transition(write) ==
    write.kind = "transition" /\ write.target \in LifecycleState

Update(write) ==
    /\ write.kind = "update"
    /\ write.read \in Word \cup {NoRead}
    /\ \E collateralBps, riskBps \in BpsInputs :
            write.parameters = ParametersToWrite(write.read, collateralBps, riskBps)

Prepared == \A write \in writes : Transition(write) \/ Update(write)

ToolsInv ==
    /\ SyncTypeOK
    /\ isOwner \in BOOLEAN
    /\ priceRead \in Word \cup {NoRead}
    /\ IsFiniteSet(writes)
    /\ Cardinality(writes) <= MaxWrites
    /\ Prepared

LEMMA ToolsInvGivesType == ToolsInv => ToolsTypeOK
  BY DEF ToolsInv, ToolsTypeOK, Prepared, Transition, Update

LEMMA InitTools == ToolsInit => ToolsInv
  <1> SUFFICES ASSUME ToolsInit PROVE ToolsInv
    OBVIOUS
  <1>1. 0 \in Word /\ 0 \in Bps
    BY EngineAssumption DEF Word, Bps
  <1>2. asset \in AssetState
    BY <1>1 DEF ToolsInit, Init, RegistryInit, AssetState, LifecycleState
  <1>3. SyncTypeOK
    BY <1>1, <1>2 DEF ToolsInit, Init, RegistryInit, RegistryTypeOK, SyncTypeOK
  <1>4. IsFiniteSet(writes) /\ Cardinality(writes) <= MaxWrites
    <2>1. IsFiniteSet(writes) /\ Cardinality(writes) = 0
      BY FS_EmptySet DEF ToolsInit
    <2>2. MaxWrites \in Nat
      BY OperatorAssumption
    <2> QED
      BY <2>1, <2>2
  <1>5. Prepared
    BY DEF ToolsInit, Prepared
  <1> QED
    BY <1>3, <1>4, <1>5 DEF ToolsInit, ToolsInv

-----------------------------------------------------------------------------
(* A transition or a parameter write, the owner's or sent for the owner,   *)
(* keeps the Registry typed.                                               *)
LEMMA TransitionType ==
    ASSUME RegistryTypeOK, NEW s \in LifecycleState, TransitionLifecycle(s)
    PROVE  RegistryTypeOK'
  BY DEF TransitionLifecycle, RegistryTypeOK, AssetState

LEMMA WriteType ==
    ASSUME RegistryTypeOK, NEW write, Transition(write) \/ Update(write), Execute(write)
    PROVE  RegistryTypeOK'
  <1>1. CASE Transition(write)
    <2>1. TransitionLifecycle(write.target)
      BY <1>1 DEF Execute, Transition
    <2> QED
      BY <1>1, <2>1, TransitionType DEF Transition
  <1>2. CASE Update(write)
    <2>1. PICK collateralBps \in BpsInputs, riskBps \in BpsInputs :
              write.parameters = ParametersToWrite(write.read, collateralBps, riskBps)
      BY <1>2 DEF Update
    <2> DEFINE p == ParametersToWrite(write.read, collateralBps, riskBps)
    <2>2. UpdateAssetParameters(p)
      BY <1>2, <2>1 DEF Execute, Update
    <2>3. /\ p.price \in Word /\ p.multiplier \in Word
          /\ p.collateralFactorBps \in Nat /\ p.riskAdjustmentBps \in Nat
      <3>1. p.price = IF write.read = NoRead THEN 0 ELSE write.read
        BY DEF ParametersToWrite
      <3>2. p.price \in Word
        BY <1>2, <3>1, EngineAssumption DEF Update, Word
      <3>3. /\ p.multiplier = FIXED_POINT_SCALE
            /\ p.collateralFactorBps = collateralBps /\ p.riskAdjustmentBps = riskBps
        BY DEF ParametersToWrite
      <3>4. BpsInputs \subseteq Nat /\ FIXED_POINT_SCALE \in Word
        BY OperatorAssumption
      <3> QED
        BY <3>2, <3>3, <3>4
    <2> HIDE DEF p
    <2>4. ValidBps(p) /\ asset' = WithParameters(asset.lifecycle, p)
      BY <2>2 DEF UpdateAssetParameters
    <2>5. p.collateralFactorBps \in Bps /\ p.riskAdjustmentBps \in Bps
      BY <2>3, <2>4, EngineAssumption DEF ValidBps, Bps
    <2>6. asset.lifecycle \in LifecycleState
      BY DEF RegistryTypeOK, AssetState
    <2>7. asset' \in AssetState
      BY <2>3, <2>4, <2>5, <2>6 DEF WithParameters, AssetState
    <2> QED
      BY <2>2, <2>7 DEF UpdateAssetParameters, RegistryTypeOK
  <1> QED
    BY <1>1, <1>2

(* A run that is under way has read an asset and has one of two targets. *)
LEMMA OpenRun ==
    ASSUME SyncTypeOK, NEW r \in Runs, run[r].stage # "idle"
    PROVE  run[r] \in Open
  <1>1. run[r] \in Open \cup {Idle} /\ Idle.stage = "idle"
    BY DEF SyncTypeOK, Idle
  <1> QED
    BY <1>1

LEMMA RunType ==
    ASSUME SyncTypeOK, NEW r \in Runs, RunNext(r)
    PROVE  SyncTypeOK'
  <1>1. ASSUME NEW feed \in Feed, Decide(r, feed)
        PROVE  SyncTypeOK'
    <2>1. [stage |-> "decided", read |-> asset, to |-> Target(feed)] \in Open
      BY DEF SyncTypeOK, RegistryTypeOK, Open, Target
    <2>2. /\ run' = [run EXCEPT ![r] = [stage |-> "decided", read |-> asset, to |-> Target(feed)]]
          /\ UNCHANGED registryVars
      BY <1>1 DEF Decide
    <2> QED
      BY <2>1, <2>2 DEF SyncTypeOK, registryVars, RegistryTypeOK
  <1>2. ASSUME Refused(r)
        PROVE  SyncTypeOK'
    BY <1>2 DEF Refused, SyncTypeOK, registryVars, RegistryTypeOK
  <1>3. ASSUME NEW stage \in {"prompting", "sent"}, run[r].stage # "idle",
               run' = [run EXCEPT ![r].stage = stage], UNCHANGED registryVars
        PROVE  SyncTypeOK'
    <2>1. [run[r] EXCEPT !.stage = stage] \in Open
      BY <1>3, OpenRun DEF Open
    <2> QED
      BY <1>3, <2>1 DEF SyncTypeOK, registryVars, RegistryTypeOK
  <1>4. CASE Recheck(r)
    BY <1>2, <1>3, <1>4 DEF Recheck
  <1>5. CASE Confirm(r)
    BY <1>2, <1>3, <1>5 DEF Confirm
  <1>6. CASE Land(r)
    <2>1. CASE TransitionLifecycle(run[r].to) /\ run' = [run EXCEPT ![r] = Idle]
      <3>1. run[r].to \in LifecycleState
        BY <1>6, OpenRun DEF Land, Open, LifecycleState
      <3> QED
        BY <2>1, <3>1, TransitionType DEF SyncTypeOK
    <2> QED
      BY <1>2, <1>6, <2>1 DEF Land
  <1> QED
    BY <1>1, <1>4, <1>5, <1>6 DEF RunNext

(* One more write on its way, or one less. *)
LEMMA SendType ==
    ASSUME ToolsInv, NEW write, Transition(write) \/ Update(write), Send(write)
    PROVE  ToolsInv'
  <1>1. /\ writes' = writes \cup {write} /\ Cardinality(writes) < MaxWrites
        /\ UNCHANGED <<vars, isOwner, priceRead>>
    BY DEF Send
  <1>2. IsFiniteSet(writes') /\ Cardinality(writes') <= MaxWrites
    <2>1. IsFiniteSet(writes) /\ Cardinality(writes) \in Nat /\ MaxWrites \in Nat
      BY FS_CardinalityType, OperatorAssumption DEF ToolsInv
    <2>2. /\ IsFiniteSet(writes \cup {write})
          /\ \/ Cardinality(writes \cup {write}) = Cardinality(writes)
             \/ Cardinality(writes \cup {write}) = Cardinality(writes) + 1
      BY <2>1, FS_AddElement
    <2> QED
      BY <1>1, <2>1, <2>2
  <1>3. Prepared'
    BY <1>1 DEF ToolsInv, Prepared, Transition, Update
  <1> QED
    BY <1>1, <1>2, <1>3
    DEF ToolsInv, vars, registryVars, SyncTypeOK, RegistryTypeOK

LEMMA SettledType ==
    ASSUME ToolsInv, NEW write \in writes, writes' = writes \ {write},
           SyncTypeOK', UNCHANGED <<isOwner, priceRead>>
    PROVE  ToolsInv'
  <1>1. IsFiniteSet(writes') /\ Cardinality(writes') <= MaxWrites
    <2>1. /\ IsFiniteSet(writes) /\ Cardinality(writes) \in Nat /\ MaxWrites \in Nat
          /\ Cardinality(writes) <= MaxWrites
      BY FS_CardinalityType, OperatorAssumption DEF ToolsInv
    <2>2. /\ IsFiniteSet(writes \ {write})
          /\ Cardinality(writes \ {write}) = Cardinality(writes) - 1
      BY <2>1, FS_RemoveElement
    <2> QED
      BY <2>1, <2>2
  <1>2. Prepared'
    BY DEF ToolsInv, Prepared, Transition, Update
  <1> QED
    BY <1>1, <1>2 DEF ToolsInv

LEMMA ToolsStep ==
    ASSUME ToolsInv, [ToolsNext]_toolVars
    PROVE  ToolsInv'
  <1>1. ASSUME UNCHANGED pageVars, SyncTypeOK'
        PROVE  ToolsInv'
    BY <1>1 DEF pageVars, ToolsInv, Prepared, Transition, Update
  <1>2. ASSUME UNCHANGED vars
        PROVE  SyncTypeOK'
    BY <1>2 DEF vars, registryVars, ToolsInv, SyncTypeOK, RegistryTypeOK
  <1>3. CASE UNCHANGED toolVars
    BY <1>1, <1>2, <1>3 DEF toolVars
  <1>4. CASE Next /\ UNCHANGED pageVars
    <2>1. CASE OwnerNext
      BY <1>1, <1>4, <2>1, RegistryOwnerType DEF OwnerNext, ToolsInv, SyncTypeOK
    <2>2. CASE \E r \in Runs : RunNext(r)
      BY <1>1, <1>4, <2>2, RunType DEF ToolsInv
    <2> QED
      BY <1>4, <2>1, <2>2 DEF Next
  <1>5. CASE ReadOwner \/ ReadPrice
    <2>1. UNCHANGED <<vars, writes>> /\ isOwner' \in BOOLEAN /\ priceRead' \in Word \cup {NoRead}
      BY <1>5 DEF ReadOwner, ReadPrice, ToolsInv, SyncTypeOK, RegistryTypeOK, AssetState
    <2> QED
      BY <1>2, <2>1 DEF ToolsInv, Prepared, Transition, Update
  <1>6. ASSUME NEW target \in LifecycleState, ClickTransition(target)
        PROVE  ToolsInv'
    <2>1. Transition([kind |-> "transition", target |-> target])
      BY DEF Transition
    <2> QED
      BY <1>6, <2>1, SendType DEF ClickTransition
  <1>7. ASSUME NEW collateralBps \in BpsInputs, NEW riskBps \in BpsInputs,
               ClickUpdate(collateralBps, riskBps)
        PROVE  ToolsInv'
    <2> DEFINE write == [kind |-> "update", read |-> priceRead,
                         parameters |-> ParametersToWrite(priceRead, collateralBps, riskBps)]
    <2>1. Update(write)
      BY DEF Update, ToolsInv
    <2>2. Send(write)
      BY <1>7 DEF ClickUpdate
    <2> HIDE DEF write
    <2> QED
      BY <2>1, <2>2, SendType
  <1>8. ASSUME NEW write \in writes, LandWrite(write)
        PROVE  ToolsInv'
    <2>1. Transition(write) \/ Update(write)
      BY DEF ToolsInv, Prepared
    <2>2. RegistryTypeOK'
      BY <1>8, <2>1, WriteType DEF LandWrite, ToolsInv, SyncTypeOK
    <2>3. SyncTypeOK'
      BY <1>8, <2>2 DEF LandWrite, ToolsInv, SyncTypeOK
    <2> QED
      BY <1>8, <2>3, SettledType DEF LandWrite
  <1>9. ASSUME NEW write \in writes, LoseWrite(write)
        PROVE  ToolsInv'
    BY <1>2, <1>9, SettledType DEF LoseWrite
  <1> QED
    BY <1>3, <1>4, <1>5, <1>6, <1>7, <1>8, <1>9 DEF ToolsNext, PageNext

LEMMA ToolsInvariant == ToolsSpec => []ToolsInv
  BY InitTools, ToolsStep, PTL DEF ToolsSpec

(***************************************************************************)
(* The Registry, the runs and the page are well formed, also after what    *)
(* the page writes back from its copy.                                     *)
(***************************************************************************)
THEOREM ToolsTypeCorrect == ToolsSpec => []ToolsTypeOK
  BY ToolsInvariant, ToolsInvGivesType, PTL

-----------------------------------------------------------------------------
(* What removes a write: its landing, or its loss. *)
LEMMA WriteEnds ==
    ASSUME [ToolsNext]_toolVars, NEW write \in writes \ writes'
    PROVE  LandWrite(write) \/ LoseWrite(write)
  <1>1. writes' # writes
    OBVIOUS
  <1>2. ~UNCHANGED toolVars /\ ~UNCHANGED pageVars
    BY <1>1 DEF toolVars, pageVars
  <1>3. PageNext
    BY <1>2 DEF ToolsNext
  <1>4. ASSUME NEW w, Send(w) PROVE FALSE
    BY <1>4 DEF Send
  <1>5. ~ReadOwner /\ ~ReadPrice
    BY <1>1 DEF ReadOwner, ReadPrice
  <1>6. PICK w \in writes : LandWrite(w) \/ LoseWrite(w)
    BY <1>3, <1>4, <1>5 DEF PageNext, ClickTransition, ClickUpdate
  <1>7. w = write
    BY <1>6 DEF LandWrite, LoseWrite
  <1> QED
    BY <1>6, <1>7

(***************************************************************************)
(* An update of the risk parameters keeps the price and the lifecycle of   *)
(* an asset that was not repriced since the page read it.                  *)
(***************************************************************************)
THEOREM UpdatesKeepPrice == ToolsSpec => OperatorKeepsPrice
  <1>1. ASSUME ToolsInv, [ToolsNext]_toolVars, NEW write \in writes \ writes',
               write.kind = "update", asset' # asset, write.read = asset.price
        PROVE  asset'.price = asset.price /\ asset'.lifecycle = asset.lifecycle
    <2>1. asset \in AssetState
      BY <1>1 DEF ToolsInv, SyncTypeOK, RegistryTypeOK
    <2>2. LandWrite(write)
      <3>1. ~LoseWrite(write)
        BY <1>1 DEF LoseWrite, vars, registryVars
      <3> QED
        BY <1>1, <3>1, WriteEnds
    <2>3. PICK collateralBps \in BpsInputs, riskBps \in BpsInputs :
              write.parameters = ParametersToWrite(write.read, collateralBps, riskBps)
      BY <1>1 DEF ToolsInv, Prepared, Transition, Update
    <2>4. asset' = WithParameters(asset.lifecycle, write.parameters)
      BY <1>1, <2>2 DEF LandWrite, Execute, UpdateAssetParameters
    <2>5. write.read # NoRead
      BY <1>1, <2>1, OperatorAssumption DEF AssetState
    <2>6. write.parameters.price = asset.price
      BY <1>1, <2>3, <2>5 DEF ParametersToWrite
    <2> QED
      BY <2>4, <2>6 DEF WithParameters
  <1>2. ToolsInv /\ [ToolsNext]_toolVars =>
          [\A write \in writes \ writes' :
              /\ write.kind = "update"
              /\ asset' # asset
              /\ write.read = asset.price
              => /\ asset'.price = asset.price
                 /\ asset'.lifecycle = asset.lifecycle]_toolVars
    BY <1>1
  <1> QED
    BY <1>2, ToolsInvariant, PTL DEF ToolsSpec, OperatorKeepsPrice

(***************************************************************************)
(* A transaction of the command changes nothing but the lifecycle, to the  *)
(* state that was confirmed, of an asset that is not being redeemed.       *)
(***************************************************************************)
THEOREM LandingIsProtective == ToolsSpec => LandsOnlyProtectively
  <1>1. ASSUME ToolsInv, [ToolsNext]_toolVars, NEW r \in Runs, Landed(r)
        PROVE  /\ asset' = [asset EXCEPT !.lifecycle = run[r].to]
               /\ asset.lifecycle \in {"ACTIVE", "CORPORATE_ACTION", "RESTRICTED", "SUSPENDED"}
    <2>1. /\ run[r].stage = "sent" /\ run'[r].stage = "idle" /\ run' # run
          /\ asset' # asset
      BY <1>1 DEF Landed, Idle
    <2>2. ~PageNext /\ ~OwnerNext /\ ~UNCHANGED toolVars
      BY <2>1
      DEF PageNext, ReadOwner, ReadPrice, ClickTransition, ClickUpdate, Send, LandWrite,
          LoseWrite, OwnerNext, toolVars, vars
    <2>3. PICK s \in Runs : RunNext(s)
      BY <1>1, <2>2 DEF ToolsNext, Next
    <2>4. ASSUME UNCHANGED registryVars PROVE FALSE
      BY <2>1, <2>4 DEF registryVars
    <2>5. Land(s) /\ TransitionLifecycle(run[s].to) /\ run' = [run EXCEPT ![s] = Idle]
      BY <2>3, <2>4 DEF RunNext, Decide, Recheck, Confirm, Land, Refused
    <2>6. s = r
      BY <2>1, <2>5
    <2>7. run[r].to \in {"RESTRICTED", "SUSPENDED"}
      BY <1>1, <2>1, OpenRun DEF ToolsInv, Open
    <2>8. /\ asset' = [asset EXCEPT !.lifecycle = run[r].to]
          /\ run[r].to \in ValidTransitions[asset.lifecycle]
      BY <2>5, <2>6 DEF TransitionLifecycle, IsValidTransition
    <2>9. asset.lifecycle \in LifecycleState
      BY <1>1 DEF ToolsInv, SyncTypeOK, RegistryTypeOK, AssetState
    <2>10. asset.lifecycle \notin {"MATURING", "REDEEMABLE", "REDEEMED"}
      BY <2>7, <2>8 DEF ValidTransitions
    <2> QED
      BY <2>8, <2>9, <2>10 DEF LifecycleState
  <1>2. ToolsInv /\ [ToolsNext]_toolVars =>
          [\A r \in Runs : Landed(r) =>
              /\ asset' = [asset EXCEPT !.lifecycle = run[r].to]
              /\ asset.lifecycle \in
                    {"ACTIVE", "CORPORATE_ACTION", "RESTRICTED", "SUSPENDED"}]_vars
    BY <1>1
  <1> QED
    BY <1>2, ToolsInvariant, PTL DEF ToolsSpec, LandsOnlyProtectively

(***************************************************************************)
(* No price within the band around the Registry's, its ends included, is   *)
(* a reason to suspend.                                                    *)
(***************************************************************************)
THEOREM SuspensionIsOutsideBand == ToolsSpec => SuspendsOnlyOutsideBand
  <1>1. ASSUME ToolsInv, NEW r \in Runs, NEW feed \in Feed,
               Decide(r, feed), run'[r].to = "SUSPENDED"
        PROVE  ~InBand(feed.price, asset.price)
    <2>1. run'[r] = [stage |-> "decided", read |-> asset, to |-> Target(feed)]
      BY <1>1 DEF Decide, ToolsInv, SyncTypeOK
    <2>2. Target(feed) = "SUSPENDED" /\ ~feed.complianceFlag
      BY <1>1, <2>1 DEF Target
    <2>3. ExceedsDeviation(asset.price, feed.price)
      BY <1>1, <2>2 DEF Decide, ProposesTransition, Breach
    <2>4. /\ feed.price \in Int /\ asset.price \in Nat
          /\ BPS_DENOMINATOR \in Nat /\ MAX_DEVIATION_BPS \in Nat
      <3>1. feed.price \in FeedPrices /\ FeedPrices \subseteq Int
        BY OracleAssumption DEF Feed
      <3>2. asset.price \in Word /\ Word \subseteq Nat
        BY <1>1, EngineAssumption DEF ToolsInv, SyncTypeOK, RegistryTypeOK, AssetState, Word
      <3>3. BPS_DENOMINATOR \in Nat /\ MAX_DEVIATION_BPS \in Nat
        BY OracleAssumption, EngineAssumption
      <3> QED
        BY <3>1, <3>2, <3>3
    <2> DEFINE p == feed.price
               a == asset.price
               D == BPS_DENOMINATOR
               M == MAX_DEVIATION_BPS
    <2>5. /\ a * (D + M) = a * D + a * M /\ a * (D - M) = a * D - a * M
          /\ (p - a) * D = p * D - a * D /\ (a - p) * D = a * D - p * D
          /\ M * a = a * M
          /\ p * D \in Int /\ a * D \in Int /\ a * M \in Int
      BY <2>4, SMTT(30)
    <2>6. (IF p > a THEN p * D - a * D ELSE a * D - p * D) > a * M
      BY <2>3, <2>4, <2>5 DEF ExceedsDeviation, Distance
    <2> QED
      BY <2>4, <2>5, <2>6 DEF InBand
  <1>2. ToolsInv =>
          [\A r \in Runs, feed \in Feed :
              /\ Decide(r, feed)
              /\ run'[r].to = "SUSPENDED"
              => ~InBand(feed.price, asset.price)]_vars
    BY <1>1
  <1> QED
    BY <1>2, ToolsInvariant, PTL DEF ToolsSpec, SuspendsOnlyOutsideBand

=============================================================================
