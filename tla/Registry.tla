------------------------------ MODULE Registry ------------------------------
(***************************************************************************)
(* LedgerLineRegistry, the storage of record, for one asset id.  Every     *)
(* function of the contract reads and writes the entries of the single     *)
(* asset id it is given, so the assets are independent copies of this      *)
(* module; the one thing they share, the address allowed to write          *)
(* positions, is positionWriter.                                           *)
(*                                                                         *)
(* Every external call is one action.  A call whose require fails reverts  *)
(* and changes nothing, which is a disabled action here.                   *)
(***************************************************************************)
EXTENDS Policy, FiniteSets

CONSTANTS
    Users,        \* addresses that may own a position (positionId = address)
    Writers,      \* addresses the owner appoints as position writer
    NoWriter,     \* the zero address, the writer until one is appointed
    Parameters    \* [price, multiplier, collateralFactorBps, riskAdjustmentBps]
                  \* records the owner may call the parameter setters with

ASSUME RegistryAssumption ==
    /\ IsFiniteSet(Users)
    /\ Parameters \subseteq [price: Word, multiplier: Word,
                             collateralFactorBps: Word, riskAdjustmentBps: Word]

VARIABLES
    initialized,      \* assetInitialized[assetId]
    asset,            \* assetStates[assetId]
    position,         \* positions[assetId][user].rawBalance
    positionWriter

registryVars == <<initialized, asset, position, positionWriter>>

RegistryTypeOK ==
    /\ initialized \in BOOLEAN
    /\ asset \in AssetState
    /\ position \in [Users -> Word]
    /\ positionWriter \in Writers \cup {NoWriter}

(* Solidity's zero values: lifecycle 0 is ACTIVE, long before the asset exists. *)
RegistryInit ==
    /\ initialized = FALSE
    /\ asset = [price |-> 0, multiplier |-> 0, lifecycle |-> "ACTIVE",
                collateralFactorBps |-> 0, riskAdjustmentBps |-> 0]
    /\ position = [u \in Users |-> 0]
    /\ positionWriter = NoWriter

-----------------------------------------------------------------------------
(* The lifecycle graph. *)
M_MaturityCanBeUndone ==
    [ACTIVE           |-> {"RESTRICTED", "CORPORATE_ACTION", "SUSPENDED", "MATURING"},
     RESTRICTED       |-> {"ACTIVE", "SUSPENDED"},
     CORPORATE_ACTION |-> {"ACTIVE", "RESTRICTED"},
     SUSPENDED        |-> {"ACTIVE", "RESTRICTED"},
     MATURING         |-> {"ACTIVE", "REDEEMABLE"},
     REDEEMABLE       |-> {"REDEEMED"},
     REDEEMED         |-> {}]

ValidTransitions ==
    [ACTIVE           |-> {"RESTRICTED", "CORPORATE_ACTION", "SUSPENDED", "MATURING"},
     RESTRICTED       |-> {"ACTIVE", "SUSPENDED"},
     CORPORATE_ACTION |-> {"ACTIVE", "RESTRICTED"},
     SUSPENDED        |-> {"ACTIVE", "RESTRICTED"},
     MATURING         |-> {"REDEEMABLE"},
     REDEEMABLE       |-> {"REDEEMED"},
     REDEEMED         |-> {}]

M_AnyTransition(from, to) == from # to

IsValidTransition(from, to) == to \in ValidTransitions[from]

M_BpsUnchecked(p) == TRUE

ValidBps(p) ==
    /\ p.collateralFactorBps <= BPS_DENOMINATOR
    /\ p.riskAdjustmentBps <= BPS_DENOMINATOR

(* The stored state after a parameter write: everything but the lifecycle. *)
WithParameters(lifecycle, p) ==
    [price |-> p.price, multiplier |-> p.multiplier, lifecycle |-> lifecycle,
     collateralFactorBps |-> p.collateralFactorBps,
     riskAdjustmentBps |-> p.riskAdjustmentBps]

(* Owner calls. *)
SetPositionWriter(writer) ==
    /\ positionWriter' = writer
    /\ UNCHANGED <<initialized, asset, position>>

InitializeAsset(p) ==
    /\ ~initialized
    /\ ValidBps(p)
    /\ initialized' = TRUE
    /\ asset' = WithParameters("ACTIVE", p)
    /\ UNCHANGED <<position, positionWriter>>

UpdateAssetParameters(p) ==
    /\ initialized
    /\ ValidBps(p)
    /\ asset' = WithParameters(asset.lifecycle, p)
    /\ UNCHANGED <<initialized, position, positionWriter>>

TransitionLifecycle(newState) ==
    /\ initialized
    /\ IsValidTransition(asset.lifecycle, newState)
    /\ asset' = [asset EXCEPT !.lifecycle = newState]
    /\ UNCHANGED <<initialized, position, positionWriter>>

RegistryOwnerNext ==
    \/ \E w \in Writers : SetPositionWriter(w)
    \/ \E p \in Parameters : InitializeAsset(p)
    \/ \E p \in Parameters : UpdateAssetParameters(p)
    \/ \E s \in LifecycleState : TransitionLifecycle(s)

M_AnyoneSetsPositions(caller) == TRUE

CanSetPosition(caller) == positionWriter = caller

(***************************************************************************)
(* setPosition, the one call contracts make.  A caller writes one or more  *)
(* positions inside its own transaction, so the write is an operator of    *)
(* the caller's action rather than an action.                              *)
(***************************************************************************)
SetPositions(caller, newPosition) ==
    /\ CanSetPosition(caller)
    /\ position' = newPosition
    /\ UNCHANGED <<initialized, asset, positionWriter>>

=============================================================================
