----------------------------- MODULE AgentClient -----------------------------
(***************************************************************************)
(* Autonomous agents on the market, through the SDK (sdk/src/agent.ts,     *)
(* client.ts) and its AgentKit action provider (integrations/agentkit.ts). *)
(*                                                                         *)
(* borrow, withdraw and transfer of the provider each do three things with *)
(* time passing in between: read the Policy's answer from the chain, decide *)
(* what amount to send (the permitted one on LIMIT, the requested one on   *)
(* ALLOW, nothing otherwise), hand the transaction to the network and      *)
(* return its hash.  Nobody waits for it: the agent may start its next     *)
(* call at once, the network includes an account's transactions in order   *)
(* and may drop them, and the market moves on meanwhile.                   *)
(***************************************************************************)
EXTENDS LendingMarket, Sequences

CONSTANTS
    Agents,         \* the users that act through the provider
    Requests,       \* the amounts agents ask for
    MaxInFlight     \* bound on an agent's transactions on their way

ASSUME AgentAssumption ==
    /\ Agents \subseteq Users
    /\ Requests \subseteq Word
    /\ MaxInFlight \in Nat
    /\ IsFiniteSet(Writers)
    /\ SuppliesFit

VARIABLES
    call,       \* the provider call each agent is in
    inFlight    \* the transactions of each agent that are not yet included

agentVars == <<call, inFlight>>
allVars == <<vars, agentVars>>

NoCall == [stage |-> "none"]

(* The actions the provider executes, with the recipient of a transfer.    *)
(* (What a transfer to oneself does is the subject of LendingMarket.)      *)
Intents(a) ==
    [action: {"BORROW", "WITHDRAW"}, amount: Requests]
        \cup [action: {"TRANSFER"}, amount: Requests, to: Users \ {a}]

(* The deployed market, wired and priced, before its first deposit. *)
AgentInit ==
    /\ initialized = TRUE
    /\ \E p \in Parameters : ValidBps(p) /\ asset = WithParameters("ACTIVE", p)
    /\ position = [u \in Users |-> 0]
    /\ positionWriter = LendingAdapter
    /\ debt = [u \in Users |-> 0]
    /\ releasers = Releasers
    /\ collateral = CollateralAtStart
    /\ borrowToken = BorrowTokenAtStart
    /\ selfCredited = 0
    /\ call = [a \in Agents |-> NoCall]
    /\ inFlight = [a \in Agents |-> <<>>]

-----------------------------------------------------------------------------
IsExecutable(answer) == answer.decision \in {"ALLOW", "LIMIT"}

M_AlwaysSubmitPermitted(intent, answer) == answer.permittedAmount

AmountToSubmit(intent, answer) ==
    IF answer.decision = "LIMIT" THEN answer.permittedAmount ELSE intent.amount

(* evaluateAgentIntent: one read of the Policy, at the chain's latest block. *)
EvaluateAgentIntent(a, intent) ==
    LET answer == PolicyAnswer(a, intent.action, intent.amount) IN
    /\ call[a].stage = "none"
    /\ CanExecuteFits(asset, position[a], intent.action)
    /\ IsExecutable(answer)
    /\ call' = [call EXCEPT ![a] =
                    [stage |-> "checked", intent |-> intent, answer |-> answer]]
    /\ UNCHANGED <<vars, inFlight>>

(* sendTransaction with the amount decided on; the call returns the hash. *)
SendTransaction(a) ==
    LET amount == AmountToSubmit(call[a].intent, call[a].answer) IN
    /\ call[a].stage = "checked"
    /\ Len(inFlight[a]) < MaxInFlight
    /\ inFlight' = [inFlight EXCEPT ![a] = Append(@,
                        [intent |-> call[a].intent, answer |-> call[a].answer,
                         amount |-> amount])]
    /\ call' = [call EXCEPT ![a] = NoCall]
    /\ UNCHANGED vars

(* sendTransaction fails: the call returns an error and nothing was sent. *)
SendFails(a) ==
    /\ call[a].stage = "checked"
    /\ call' = [call EXCEPT ![a] = NoCall]
    /\ UNCHANGED <<vars, inFlight>>

(* Whether a transaction does not revert, and what it then does on chain. *)
Accepted(a, tx) ==
    \/ tx.intent.action = "BORROW"   /\ CanBorrow(a, tx.amount)
    \/ tx.intent.action = "WITHDRAW" /\ CanWithdraw(a, tx.amount)
    \/ tx.intent.action = "TRANSFER" /\ CanTransfer(a, tx.intent.to, tx.amount)

Execute(a, tx) ==
    \/ tx.intent.action = "BORROW"   /\ Borrow(a, tx.amount)
    \/ tx.intent.action = "WITHDRAW" /\ Withdraw(a, tx.amount)
    \/ tx.intent.action = "TRANSFER" /\ Transfer(a, tx.intent.to, tx.amount)

Included(a) == inFlight' = [inFlight EXCEPT ![a] = Tail(@)]

IncludeSuccessfully(a) ==
    /\ inFlight[a] # <<>>
    /\ Execute(a, Head(inFlight[a]))
    /\ Included(a)
    /\ UNCHANGED call

IncludeReverted(a) ==
    /\ inFlight[a] # <<>>
    /\ ~Accepted(a, Head(inFlight[a]))
    /\ Included(a)
    /\ UNCHANGED <<vars, call>>

(* The network forgets an account's transactions from some nonce on. *)
Drop(a) ==
    /\ \E n \in 0..(Len(inFlight[a]) - 1) :
            inFlight' = [inFlight EXCEPT ![a] = SubSeq(@, 1, n)]
    /\ UNCHANGED <<vars, call>>

AgentNext(a) ==
    \/ \E intent \in Intents(a) : EvaluateAgentIntent(a, intent)
    \/ SendTransaction(a)
    \/ SendFails(a)
    \/ IncludeSuccessfully(a)
    \/ IncludeReverted(a)
    \/ Drop(a)

(* The wallets, the agents' own included, and the owner act directly. *)
WalletsNext ==
    (OwnerNext \/ \E user \in Users : UserNext(user)) /\ UNCHANGED agentVars

NextWithAgents == WalletsNext \/ \E a \in Agents : AgentNext(a)

AgentSpec == AgentInit /\ [][NextWithAgents]_allVars

-----------------------------------------------------------------------------
AgentTypeOK ==
    /\ MarketTypeOK
    /\ \A a \in Agents :
          /\ call[a] = NoCall \/ call[a].answer \in PolicyResponse
          /\ Len(inFlight[a]) <= MaxInFlight
          /\ \A i \in 1..Len(inFlight[a]) : inFlight[a][i].amount \in Word

(***************************************************************************)
(* However old the check is when a transaction lands, and whatever was     *)
(* decided on the way, the transaction takes no more than the agent asked  *)
(* for: no more debt than the borrow, no more collateral than the          *)
(* withdrawal or transfer.                                                 *)
(***************************************************************************)
Asked(a, action) ==
    IF Head(inFlight[a]).intent.action = action THEN Head(inFlight[a]).intent.amount ELSE 0

AgentsGetNoMoreThanAsked ==
    [][\A a \in Agents : Len(inFlight'[a]) < Len(inFlight[a]) =>
          /\ debt'[a] <= debt[a] + Asked(a, "BORROW")
          /\ position[a] <= position'[a] + Asked(a, "WITHDRAW") + Asked(a, "TRANSFER")]_allVars

(***************************************************************************)
(* The Policy and the adapters agree where they should: a transaction      *)
(* whose answer still stands, for an amount within it, on a position       *)
(* without debt, does not revert (the market wired, the pool permitting).  *)
(***************************************************************************)
AnswerStands(a, tx) ==
    /\ CanExecuteFits(asset, position[a], tx.intent.action)
    /\ tx.answer = PolicyAnswer(a, tx.intent.action, tx.intent.amount)
    /\ tx.amount <= tx.answer.permittedAmount

PoolCovers(tx) ==
    tx.intent.action = "BORROW" => ToTokenAmount(tx.amount) <= borrowToken[LendingAdapter]

PermittedIsAccepted ==
    \A a \in Agents :
        /\ inFlight[a] # <<>>
        /\ AnswerStands(a, Head(inFlight[a]))
        /\ PoolCovers(Head(inFlight[a]))
        /\ Wired
        /\ debt[a] = 0
        /\ position[a] # 0
        => Accepted(a, Head(inFlight[a]))

=============================================================================
