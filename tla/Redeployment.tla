---------------------------- MODULE Redeployment ----------------------------
(***************************************************************************)
(* Replacing the LendingAdapter of a running market (REDEPLOY_LIQUIDATE.md *)
(* and the RedeployLendingAdapter scripts).  Registry, Policy, engines and *)
(* tokens stay; a new LendingAdapter with its own debts, custody, pool and *)
(* Vault/Transfer/Liquidation adapters is deployed next to the old one,    *)
(* and the owner points the Registry's positionWriter at it and authorizes *)
(* its adapters, one transaction at a time, while users go on calling      *)
(* either of the two.                                                      *)
(*                                                                         *)
(* The two markets are two instances of LendingMarket over one Registry    *)
(* and the same two tokens.                                                *)
(***************************************************************************)
EXTENDS Registry, Token

CONSTANTS
    OldAdapter, NewAdapter,
    VaultAdapter, TransferAdapter, LiquidationAdapter,
    Amounts, WalletAmounts, Authorizations,
    DOWN_SCALE, UP_SCALE,
    CollateralSupply, BorrowSupply,
    OldPoolSupply, NewPoolSupply,
    SelfCreditBound

ASSUME RedeploymentAssumption ==
    /\ {OldAdapter, NewAdapter} \subseteq Writers
    /\ OldAdapter # NewAdapter
    /\ Users \cap {OldAdapter, NewAdapter} = {}
    /\ Amounts \subseteq Word
    /\ WalletAmounts \subseteq Nat
    /\ Authorizations \subseteq BOOLEAN
    /\ {DOWN_SCALE, UP_SCALE} \subseteq Nat \ {0}
    /\ 1 \in {DOWN_SCALE, UP_SCALE}
    /\ {CollateralSupply, BorrowSupply, OldPoolSupply, NewPoolSupply} \subseteq Nat
    /\ SelfCreditBound \in Nat

VARIABLES
    oldDebt, oldReleasers, newDebt, newReleasers,
    collateral, borrowToken, selfCredited

oldVars == <<oldDebt, oldReleasers>>
newVars == <<newDebt, newReleasers>>
tokenVars == <<collateral, borrowToken, selfCredited>>
vars == <<registryVars, oldVars, newVars, tokenVars>>

Old == INSTANCE LendingMarket
    WITH LendingAdapter <- OldAdapter, PoolSupply <- OldPoolSupply,
         debt <- oldDebt, releasers <- oldReleasers

New == INSTANCE LendingMarket
    WITH LendingAdapter <- NewAdapter, PoolSupply <- NewPoolSupply,
         debt <- newDebt, releasers <- newReleasers

(***************************************************************************)
(* The old market is live and wired; the new contracts are deployed and    *)
(* its pool funded, nothing is authorized yet.                             *)
(***************************************************************************)
Init ==
    /\ initialized = TRUE
    /\ \E p \in Parameters : ValidBps(p) /\ asset = WithParameters("ACTIVE", p)
    /\ position = [u \in Users |-> 0]
    /\ positionWriter = OldAdapter
    /\ oldDebt = [u \in Users |-> 0]
    /\ newDebt = [u \in Users |-> 0]
    /\ oldReleasers = Old!Releasers
    /\ newReleasers = {}
    /\ collateral = Old!CollateralAtStart
    /\ borrowToken = [Old!BorrowTokenAtStart EXCEPT ![NewAdapter] = NewPoolSupply]
    /\ selfCredited = 0

(* The owner's part of the runbook, one transaction each, and repricing.   *)
OwnerNext ==
    \/ RegistryOwnerNext /\ UNCHANGED <<oldVars, newVars, tokenVars>>
    \/ \E r \in New!Releasers :
            New!SetAuthorizedReleaser(r, TRUE) /\ UNCHANGED oldVars
    \/ \E r \in Old!Releasers :
            Old!SetAuthorizedReleaser(r, FALSE) /\ UNCHANGED newVars

UserNext(user) ==
    \/ Old!UserNext(user) /\ UNCHANGED newVars
    \/ New!UserNext(user) /\ UNCHANGED oldVars

Next == OwnerNext \/ \E user \in Users : UserNext(user)

Spec == Init /\ [][Next]_vars

-----------------------------------------------------------------------------
TypeOK ==
    /\ RegistryTypeOK
    /\ {oldDebt, newDebt} \subseteq [Users -> Word]
    /\ oldReleasers \subseteq Old!Releasers /\ newReleasers \subseteq New!Releasers
    /\ {collateral, borrowToken} \subseteq [Users \cup Writers -> Nat]
    /\ selfCredited \in 0..SelfCreditBound

(***************************************************************************)
(* However the switch interleaves with the users' transactions, back and   *)
(* forth, the two custodies together hold every claim on the books, but    *)
(* for what a user's transfers to itself credited.                         *)
(***************************************************************************)
CustodiesCoverBooks ==
    Total(position) <= collateral[OldAdapter] + collateral[NewAdapter] + selfCredited

(* Neither pool loses to rounding, nor pays for the other's loans. *)
BothLoanBooksSolvent == Old!LoanBookSolvent /\ New!LoanBookSolvent

(***************************************************************************)
(* An adapter that is not the writer can let no collateral go, by any      *)
(* path, and can seize for none of its debts: a debt there falls only when *)
(* its owner pays.  This is the cost the runbook names ("remains only      *)
(* repayable through that OLD contract") and the one it does not, the      *)
(* collateral left behind.                                                 *)
(***************************************************************************)
RetiredAdapterOnlyCollects ==
    [][/\ positionWriter # OldAdapter =>
             /\ collateral'[OldAdapter] >= collateral[OldAdapter]
             /\ \A u \in Users : oldDebt'[u] < oldDebt[u] => borrowToken'[u] < borrowToken[u]
       /\ positionWriter # NewAdapter =>
             /\ collateral'[NewAdapter] >= collateral[NewAdapter]
             /\ \A u \in Users : newDebt'[u] < newDebt[u] => borrowToken'[u] < borrowToken[u]]_vars

=============================================================================
