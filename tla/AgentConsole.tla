---------------------------- MODULE AgentConsole ----------------------------
(***************************************************************************)
(* The agent demo of the frontend (frontend/components/AgentDemo.tsx with  *)
(* lib/agentIntent.ts): an amount in a field, a button that evaluates it,  *)
(* one that retries with the permitted amount after a LIMIT, and one that  *)
(* sends the borrow, shown while the last result is an ALLOW for the       *)
(* amount in the field.                                                    *)
(*                                                                         *)
(* An evaluation is a promise: the node answers it from its latest block   *)
(* some time after it was asked, the page takes the answer some time after *)
(* that.  Nothing cancels an evaluation and nothing keeps two of them in   *)
(* order, while the amount is edited, the wallet changes account and the   *)
(* chain moves on.                                                         *)
(***************************************************************************)
EXTENDS Registry, Sequences

CONSTANTS
    Amounts,        \* what is typed into the field
    Balances,       \* the positions the wallets may have
    MaxEvaluations  \* bound on the evaluations of one visit

ASSUME ConsoleAssumption ==
    /\ Amounts \subseteq Word
    /\ Balances \subseteq Word
    /\ MaxEvaluations \in Nat

VARIABLES
    wallet,         \* the connected account
    amount,         \* the field, and so the intent
    result,         \* the evaluation whose answer is the result; 0 is undefined
    evaluating,     \* what disables Submit Intent
    submitting,     \* a transaction is in the wallet or being confirmed
    evaluations,    \* history: every handleEvaluate of this visit
    sent            \* history: the borrows handed to the wallet

pageVars == <<wallet, amount, result, evaluating, submitting, evaluations, sent>>
vars == <<registryVars, pageVars>>

(* An evaluation: for whom, of how much, after which LIMIT (0: none), how  *)
(* far it is, and the answer with the state of the chain it was given in.  *)
NoAnswer == [decision |-> "none"]

Asked(user, requested, retryOf) ==
    [user |-> user, requestedAmount |-> requested, retryOf |-> retryOf,
     stage |-> "asked", answer |-> NoAnswer, seen |-> NoAnswer]

Evaluation ==
    [user: Users, requestedAmount: Word, retryOf: Nat,
     stage: {"asked", "answered", "settled", "rejected"},
     answer: PolicyResponse \cup {NoAnswer},
     seen: [asset: AssetState, rawBalance: Word] \cup {NoAnswer}]

Evaluated == DOMAIN evaluations

ConsoleTypeOK ==
    /\ RegistryTypeOK
    /\ wallet \in Users
    /\ amount \in Word
    /\ result \in {0} \cup Evaluated
    /\ {evaluating, submitting} \subseteq BOOLEAN
    /\ evaluations \in Seq(Evaluation)
    /\ Len(evaluations) <= MaxEvaluations
    /\ sent \subseteq [user: Users, amount: Word]

Init ==
    /\ initialized = TRUE
    /\ \E p \in Parameters : ValidBps(p) /\ asset = WithParameters("ACTIVE", p)
    /\ position \in [Users -> Balances]
    /\ positionWriter \in Writers
    /\ wallet \in Users
    /\ amount \in Amounts
    /\ result = 0
    /\ evaluating = FALSE
    /\ submitting = FALSE
    /\ evaluations = <<>>
    /\ sent = {}

-----------------------------------------------------------------------------
(* What the person does. *)
EditAmount(typed) ==
    /\ amount' = typed
    /\ result' = 0
    /\ UNCHANGED <<registryVars, wallet, evaluating, submitting, evaluations, sent>>

(* Another account in the wallet: the page does not look at what it shows. *)
SwitchAccount(user) ==
    /\ wallet' = user
    /\ UNCHANGED <<registryVars, amount, result, evaluating, submitting, evaluations, sent>>

HandleEvaluate(requested, retryOf) ==
    /\ Len(evaluations) < MaxEvaluations
    /\ evaluating' = TRUE
    /\ evaluations' = Append(evaluations, Asked(wallet, requested, retryOf))

SubmitIntent ==
    /\ ~evaluating
    /\ HandleEvaluate(amount, 0)
    /\ UNCHANGED <<registryVars, wallet, amount, result, submitting, sent>>

(* The result panel is there only for the amount in the field. *)
Shown == result # 0 /\ evaluations[result].requestedAmount = amount

(* suggestRetryIntent, behind a button that evaluating does not disable. *)
RetryWithPermittedAmount ==
    /\ Shown
    /\ evaluations[result].answer.decision = "LIMIT"
    /\ amount' = evaluations[result].answer.permittedAmount
    /\ HandleEvaluate(evaluations[result].answer.permittedAmount, result)
    /\ UNCHANGED <<registryVars, wallet, result, submitting, sent>>

M_GateOnDecisionOnly == result # 0 /\ evaluations[result].answer.decision = "ALLOW"

CanExecuteNow == Shown /\ evaluations[result].answer.decision = "ALLOW"

ExecuteBorrow ==
    /\ CanExecuteNow
    /\ ~submitting
    /\ submitting' = TRUE
    /\ sent' = sent \cup {[user |-> wallet, amount |-> amount]}
    /\ UNCHANGED <<registryVars, wallet, amount, result, evaluating, evaluations>>

(* Rejected in the wallet, failed or confirmed. *)
TransactionEnds ==
    /\ submitting
    /\ submitting' = FALSE
    /\ UNCHANGED <<registryVars, wallet, amount, result, evaluating, evaluations, sent>>

-----------------------------------------------------------------------------
(* The node answers canExecute(BORROW) from the state it has by then. *)
AnswerEvaluation(e) ==
    LET user == evaluations[e].user
        requested == evaluations[e].requestedAmount
    IN
    /\ evaluations[e].stage = "asked"
    /\ CanExecuteFits(asset, position[user], "BORROW")
    /\ evaluations' = [evaluations EXCEPT
            ![e].stage = "answered",
            ![e].answer = CanExecute(asset, position[user], "BORROW", requested),
            ![e].seen = [asset |-> asset, rawBalance |-> position[user]]]
    /\ UNCHANGED <<registryVars, wallet, amount, result, evaluating, submitting, sent>>

SettleEvaluation(e) ==
    /\ evaluations[e].stage = "answered"
    /\ evaluations' = [evaluations EXCEPT ![e].stage = "settled"]
    /\ result' = e
    /\ evaluating' = FALSE
    /\ UNCHANGED <<registryVars, wallet, amount, submitting, sent>>

M_RejectionForgetsFinally(e) ==
    /\ evaluations[e].stage \in {"asked", "answered"}
    /\ evaluations' = [evaluations EXCEPT ![e].stage = "rejected"]
    /\ result' = 0
    /\ UNCHANGED <<registryVars, wallet, amount, evaluating, submitting, sent>>

(* The read reverts, or its request or its answer is lost. *)
RejectEvaluation(e) ==
    /\ evaluations[e].stage \in {"asked", "answered"}
    /\ evaluations' = [evaluations EXCEPT ![e].stage = "rejected"]
    /\ result' = 0
    /\ evaluating' = FALSE
    /\ UNCHANGED <<registryVars, wallet, amount, submitting, sent>>

(* The chain moves: the owner's calls, and adapters that write positions.  *)
ChainNext ==
    /\ \/ RegistryOwnerNext
       \/ \E newPosition \in [Users -> Balances] : SetPositions(positionWriter, newPosition)
    /\ UNCHANGED pageVars

PersonNext ==
    \/ \E typed \in Amounts : EditAmount(typed)
    \/ \E user \in Users : SwitchAccount(user)
    \/ SubmitIntent
    \/ RetryWithPermittedAmount
    \/ ExecuteBorrow

PromisesNext ==
    \/ TransactionEnds
    \/ \E e \in Evaluated : AnswerEvaluation(e)
    \/ \E e \in Evaluated : SettleEvaluation(e)
    \/ \E e \in Evaluated : RejectEvaluation(e)

Next == ChainNext \/ PersonNext \/ PromisesNext

Spec == Init /\ [][Next]_vars

-----------------------------------------------------------------------------
(***************************************************************************)
(* Whatever order answers, edits and changes of account come in, no amount *)
(* is sent that the Policy was not asked about and did not allow.          *)
(***************************************************************************)
OnlyAllowedAmountsAreSent ==
    \A tx \in sent : \E e \in Evaluated :
        /\ evaluations[e].stage = "settled"
        /\ evaluations[e].requestedAmount = tx.amount
        /\ evaluations[e].answer.decision = "ALLOW"

(***************************************************************************)
(* Submit Intent is not disabled for good: while it says "Evaluating..."   *)
(* there is an evaluation still to come back, also after failures.         *)
(***************************************************************************)
EvaluatingEnds ==
    evaluating => \E e \in Evaluated : evaluations[e].stage \in {"asked", "answered"}

(***************************************************************************)
(* The flow the page demonstrates: retrying a LIMIT at the permitted       *)
(* amount is an ALLOW, if neither the asset nor the position changed       *)
(* between the two answers.                                                *)
(***************************************************************************)
RetryIsAllowed ==
    \A e \in Evaluated :
        LET retried == evaluations[e].retryOf IN
        retried # 0 /\ evaluations[e].answer # NoAnswer
            /\ evaluations[e].seen = evaluations[retried].seen
        => evaluations[e].answer.decision = "ALLOW"

(***************************************************************************)
(* "editing the amount clears `result`, so this can never be true for a    *)
(* stale (already-superseded) evaluation": an evaluation that was asked    *)
(* later for the same account and amount has not come back before.         *)
(***************************************************************************)
Supersedes(newer, older) ==
    /\ newer > older
    /\ evaluations[newer].stage \in {"settled", "rejected"}
    /\ evaluations[newer].user = evaluations[older].user
    /\ evaluations[newer].requestedAmount = evaluations[older].requestedAmount

NeverExecutesSuperseded ==
    CanExecuteNow => ~ \E e \in Evaluated : Supersedes(e, result)

=============================================================================
