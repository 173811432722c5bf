------------------------------- MODULE Token --------------------------------
(***************************************************************************)
(* The ERC-20 tokens the market moves, external to it: a balance per       *)
(* holder, and transfers that either move the whole amount or revert.      *)
(* SafeERC20 turns a token's FALSE result into a revert, so there is no    *)
(* third outcome.  Allowances are not kept: a transferFrom whose allowance *)
(* is missing reverts like one whose balance is, and a caller is free to   *)
(* approve first or never to make the call.                                *)
(***************************************************************************)
EXTENDS Naturals, Functions

CanMove(balances, from, amount) == amount <= balances[from]

Move(balances, from, to, amount) ==
    LET debited == [balances EXCEPT ![from] = @ - amount]
    IN  [debited EXCEPT ![to] = @ + amount]

(* What all the balances, positions or debts of a record add up to. *)
Total(f) == SumFunction(f)

=============================================================================
