---------------------------- MODULE OperatorTools ----------------------------
(***************************************************************************)
(* The operator page of the frontend (app/admin/page.tsx) beside the       *)
(* oracle-sync command and the owner's other tools, all over the same      *)
(* Registry.                                                               *)
(*                                                                         *)
(* The page reads the owner and the asset when it opens and on the         *)
(* window's focus.  Its form asks for the two bps only, but the Registry   *)
(* takes all four parameters at once: the price is written back as the     *)
(* page has it, or zero before its read has arrived, and the multiplier as *)
(* one.  What a button sends is not followed up, and lands later.          *)
(***************************************************************************)
EXTENDS OracleSync, FiniteSets

CONSTANTS
    BpsInputs,      \* what is typed into the two fields
    NoRead,         \* the price has not been read yet
    MaxWrites       \* bound on the page's transactions on their way

ASSUME OperatorAssumption ==
    /\ BpsInputs \subseteq Nat
    /\ FIXED_POINT_SCALE \in Word
    /\ NoRead \notin Word
    /\ MaxWrites \in Nat

VARIABLES
    isOwner,    \* the owner's address has arrived and is the connected one
    priceRead,  \* the price in the page's copy of the asset
    writes      \* its transactions on their way, with the copy clicked on

pageVars == <<isOwner, priceRead, writes>>
toolVars == <<vars, pageVars>>

ToolsInit ==
    /\ Init
    /\ isOwner = FALSE
    /\ priceRead = NoRead
    /\ writes = {}

-----------------------------------------------------------------------------
ReadOwner ==
    /\ ~isOwner
    /\ isOwner' = TRUE
    /\ UNCHANGED <<vars, priceRead, writes>>

ReadPrice ==
    /\ priceRead' = asset.price
    /\ UNCHANGED <<vars, isOwner, writes>>

M_PriceLeftOut(read, collateralBps, riskBps) ==
    [price |-> 0, multiplier |-> FIXED_POINT_SCALE,
     collateralFactorBps |-> collateralBps, riskAdjustmentBps |-> riskBps]

(* assetState?.price ?? 0n, 10n ** 18n and the two fields. *)
ParametersToWrite(read, collateralBps, riskBps) ==
    [price |-> IF read = NoRead THEN 0 ELSE read,
     multiplier |-> FIXED_POINT_SCALE,
     collateralFactorBps |-> collateralBps, riskAdjustmentBps |-> riskBps]

Send(write) ==
    /\ isOwner
    /\ Cardinality(writes) < MaxWrites
    /\ writes' = writes \cup {write}
    /\ UNCHANGED <<vars, isOwner, priceRead>>

ClickTransition(target) == Send([kind |-> "transition", target |-> target])

ClickUpdate(collateralBps, riskBps) ==
    Send([kind |-> "update", read |-> priceRead,
          parameters |-> ParametersToWrite(priceRead, collateralBps, riskBps)])

Execute(write) ==
    \/ write.kind = "transition" /\ TransitionLifecycle(write.target)
    \/ write.kind = "update" /\ UpdateAssetParameters(write.parameters)

(* It lands, in any order; or is rejected, dropped or reverted.            *)
LandWrite(write) ==
    /\ Execute(write)
    /\ writes' = writes \ {write}
    /\ UNCHANGED <<run, isOwner, priceRead>>

LoseWrite(write) ==
    /\ writes' = writes \ {write}
    /\ UNCHANGED <<vars, isOwner, priceRead>>

PageNext ==
    \/ ReadOwner
    \/ ReadPrice
    \/ \E target \in LifecycleState : ClickTransition(target)
    \/ \E collateralBps, riskBps \in BpsInputs : ClickUpdate(collateralBps, riskBps)
    \/ \E write \in writes : LandWrite(write) \/ LoseWrite(write)

ToolsNext == PageNext \/ (Next /\ UNCHANGED pageVars)

ToolsSpec == ToolsInit /\ [][ToolsNext]_toolVars

-----------------------------------------------------------------------------
ToolsTypeOK ==
    /\ SyncTypeOK
    /\ isOwner \in BOOLEAN
    /\ priceRead \in Word \cup {NoRead}
    /\ Cardinality(writes) <= MaxWrites
    /\ \A write \in writes :
          \/ write.kind = "transition" /\ write.target \in LifecycleState
          \/ write.kind = "update" /\ write.read \in Word \cup {NoRead}

(***************************************************************************)
(* "Update Risk Params" leaves the price and the lifecycle as they are,    *)
(* unless the page had not read the asset yet when the button was clicked, *)
(* or the asset was repriced since that read.                              *)
(***************************************************************************)
OperatorKeepsPrice ==
    [][\A write \in writes \ writes' :
          /\ write.kind = "update"
          /\ asset' # asset
          /\ write.read = asset.price
          => /\ asset'.price = asset.price
             /\ asset'.lifecycle = asset.lifecycle]_toolVars

=============================================================================
