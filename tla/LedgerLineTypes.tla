-------------------------- MODULE LedgerLineTypes --------------------------
(***************************************************************************)
(* The enumerations every LedgerLine contract shares                       *)
(* (contracts/src/interfaces/LedgerLineTypes.sol).  Enum members keep      *)
(* their Solidity names; a member is a string, so two enumerations never   *)
(* share a value by accident of numbering.                                 *)
(***************************************************************************)

LifecycleState ==
    {"ACTIVE", "RESTRICTED", "CORPORATE_ACTION", "SUSPENDED",
     "MATURING", "REDEEMABLE", "REDEEMED"}

Action == {"BORROW", "WITHDRAW", "TRANSFER", "INCREASE_LEVERAGE", "LIQUIDATE"}

Decision == {"ALLOW", "LIMIT", "REVIEW", "BLOCK"}

(***************************************************************************)
(* The reason of an answer.  For a frozen asset the contract names the     *)
(* lifecycle state itself (REASON_RESTRICTED ... REASON_REDEEMED).         *)
(***************************************************************************)
Reason ==
    {"OK", "NO_CAPACITY", "EXCEEDS_CAPACITY", "ABOVE_MAINTENANCE"}
        \cup (LifecycleState \ {"ACTIVE"})

=============================================================================
