------------------------ MODULE AgentConsoleProofs -------------------------
(***************************************************************************)
(* Theorems of the agent demo, for every set of accounts, every amount,    *)
(* balance and parameter, and any number of evaluations.                   *)
(*                                                                         *)
(* The inductive invariant adds one fact to the properties: a result is an *)
(* evaluation that has settled, and so one whose answer no longer changes. *)
(* For the retry it adds what a retry was made from, and that an answer is *)
(* the Policy's of what was seen.                                          *)
(***************************************************************************)
EXTENDS AgentConsole, CoreTheorems

ResultIsSettled == result # 0 => evaluations[result].stage = "settled"

ConsoleInv ==
    /\ ConsoleTypeOK
    /\ ResultIsSettled
    /\ OnlyAllowedAmountsAreSent
    /\ EvaluatingEnds

LEMMA InitConsole == Init => ConsoleInv
  <1> SUFFICES ASSUME Init PROVE ConsoleInv
    OBVIOUS
  <1>1. asset \in AssetState
    BY ParametersType DEF Init, LifecycleState
  <1>2. RegistryTypeOK
    BY <1>1, ConsoleAssumption DEF Init, RegistryTypeOK
  <1>3. /\ evaluations = <<>> /\ result = 0 /\ sent = {}
        /\ evaluating = FALSE /\ submitting = FALSE
        /\ wallet \in Users /\ amount \in Word
    BY ConsoleAssumption DEF Init
  <1>4. ConsoleTypeOK
    <2>1. evaluations \in Seq(Evaluation) /\ Len(evaluations) <= MaxEvaluations
      BY <1>3, ConsoleAssumption
    <2>2. sent \subseteq [user: Users, amount: Word]
      BY <1>3
    <2>3. {evaluating, submitting} \subseteq BOOLEAN /\ result \in {0} \cup Evaluated
      BY <1>3
    <2> QED
      BY <1>2, <1>3, <2>1, <2>2, <2>3 DEF ConsoleTypeOK
  <1>5. ResultIsSettled /\ OnlyAllowedAmountsAreSent /\ EvaluatingEnds
    BY <1>3 DEF ResultIsSettled, OnlyAllowedAmountsAreSent, EvaluatingEnds
  <1> QED
    BY <1>4, <1>5 DEF ConsoleInv

(* The chain's steps touch nothing of the page. *)
LEMMA ChainConsole ==
    ASSUME ConsoleInv, ChainNext
    PROVE  ConsoleInv'
  <1>1. RegistryTypeOK'
    <2>1. CASE RegistryOwnerNext
      BY <2>1, RegistryOwnerType DEF ConsoleInv, ConsoleTypeOK
    <2>2. CASE \E newPosition \in [Users -> Balances] :
                    SetPositions(positionWriter, newPosition)
      BY <2>2, ConsoleAssumption
      DEF ConsoleInv, ConsoleTypeOK, SetPositions, RegistryTypeOK
    <2> QED
      BY <2>1, <2>2 DEF ChainNext
  <1> QED
    BY <1>1
    DEF ChainNext, pageVars, ConsoleInv, ConsoleTypeOK, ResultIsSettled,
        OnlyAllowedAmountsAreSent, EvaluatingEnds, Evaluated

(* A new evaluation is asked: the ones before it stay what they are. *)
LEMMA AskedConsole ==
    ASSUME ConsoleInv, NEW requested \in Word, NEW retryOf \in Nat,
           HandleEvaluate(requested, retryOf)
    PROVE  /\ evaluations' \in Seq(Evaluation)
           /\ Len(evaluations') <= MaxEvaluations
           /\ Evaluated \subseteq Evaluated'
           /\ \A e \in Evaluated : evaluations'[e] = evaluations[e]
           /\ evaluating'
           /\ \E e \in Evaluated' : evaluations'[e].stage = "asked"
  <1> DEFINE new == Asked(wallet, requested, retryOf)
  <1>1. /\ evaluations \in Seq(Evaluation) /\ wallet \in Users
        /\ Len(evaluations) \in Nat /\ DOMAIN evaluations = 1..Len(evaluations)
    BY DEF ConsoleInv, ConsoleTypeOK
  <1>2. new \in Evaluation /\ new.stage = "asked"
    BY <1>1 DEF Asked, Evaluation
  <1>3. evaluations' = Append(evaluations, new)
    BY DEF HandleEvaluate
  <1> HIDE DEF new
  <1>4. /\ evaluations' \in Seq(Evaluation)
        /\ Len(evaluations') = Len(evaluations) + 1
        /\ \A e \in 1..Len(evaluations) : evaluations'[e] = evaluations[e]
        /\ evaluations'[Len(evaluations) + 1] = new
        /\ DOMAIN evaluations' = 1..(Len(evaluations) + 1)
    BY <1>1, <1>2, <1>3
  <1>5. evaluating' /\ Len(evaluations) < MaxEvaluations
    BY DEF HandleEvaluate
  <1>6. Len(evaluations') <= MaxEvaluations
    BY <1>1, <1>4, <1>5, ConsoleAssumption
  <1>7. Len(evaluations) + 1 \in Evaluated'
    BY <1>1, <1>4 DEF Evaluated
  <1> QED
    BY <1>1, <1>2, <1>4, <1>5, <1>6, <1>7 DEF Evaluated

LEMMA PersonConsole ==
    ASSUME ConsoleInv, PersonNext
    PROVE  ConsoleInv'
  <1> USE DEF ConsoleInv, ConsoleTypeOK, ResultIsSettled,
              OnlyAllowedAmountsAreSent, EvaluatingEnds
  <1>0. RegistryTypeOK' <=> RegistryTypeOK
    BY DEF PersonNext, EditAmount, SwitchAccount, SubmitIntent,
           RetryWithPermittedAmount, ExecuteBorrow, registryVars, RegistryTypeOK
  <1>1. ASSUME NEW typed \in Amounts, EditAmount(typed)
        PROVE  ConsoleInv'
    BY <1>0, <1>1, ConsoleAssumption DEF EditAmount, Evaluated
  <1>2. ASSUME NEW user \in Users, SwitchAccount(user)
        PROVE  ConsoleInv'
    <2>1. /\ wallet' \in Users
          /\ UNCHANGED <<amount, result, evaluating, submitting, evaluations, sent>>
          /\ Evaluated' = Evaluated
      BY <1>2 DEF SwitchAccount, Evaluated
    <2>2. ConsoleTypeOK'
      BY <1>0, <2>1
    <2>3. ResultIsSettled' /\ OnlyAllowedAmountsAreSent' /\ EvaluatingEnds'
      BY <2>1
    <2> QED
      BY <2>2, <2>3
  <1>3. CASE SubmitIntent
    <2>1. /\ evaluations' \in Seq(Evaluation) /\ Len(evaluations') <= MaxEvaluations
          /\ Evaluated \subseteq Evaluated'
          /\ \A e \in Evaluated : evaluations'[e] = evaluations[e]
          /\ evaluating'
          /\ \E e \in Evaluated' : evaluations'[e].stage = "asked"
      BY <1>3, AskedConsole DEF SubmitIntent
    <2>2. UNCHANGED <<wallet, amount, result, submitting, sent>>
      BY <1>3 DEF SubmitIntent
    <2>3. evaluating' \in BOOLEAN
      BY <1>3 DEF SubmitIntent, HandleEvaluate
    <2>4. ConsoleTypeOK'
      BY <1>0, <2>1, <2>2, <2>3
    <2>5. ResultIsSettled' /\ OnlyAllowedAmountsAreSent' /\ EvaluatingEnds'
      BY <2>1, <2>2
    <2> QED
      BY <2>4, <2>5
  <1>4. CASE RetryWithPermittedAmount
    <2>1. /\ result \in Evaluated
          /\ evaluations[result].answer.decision = "LIMIT"
      BY <1>4 DEF RetryWithPermittedAmount, Shown
    <2>2. evaluations[result].answer \in PolicyResponse
      <3>1. evaluations[result].answer \in PolicyResponse \cup {NoAnswer}
        <4>1. evaluations[result] \in Evaluation
          BY <2>1 DEF Evaluated
        <4> QED
          BY <4>1 DEF Evaluation
      <3>2. NoAnswer.decision # "LIMIT"
        BY DEF NoAnswer
      <3> QED
        BY <2>1, <3>1, <3>2
    <2>3. evaluations[result].answer.permittedAmount \in Word
      BY <2>2 DEF PolicyResponse
    <2>4. result \in Nat
      BY <2>1 DEF Evaluated
    <2> DEFINE permitted == evaluations[result].answer.permittedAmount
    <2>5. /\ HandleEvaluate(permitted, result) /\ amount' = permitted
          /\ UNCHANGED <<registryVars, wallet, result, submitting, sent>>
      BY <1>4 DEF RetryWithPermittedAmount
    <2> HIDE DEF permitted
    <2>6. /\ evaluations' \in Seq(Evaluation)
          /\ Len(evaluations') <= MaxEvaluations
          /\ Evaluated \subseteq Evaluated'
          /\ \A e \in Evaluated : evaluations'[e] = evaluations[e]
          /\ evaluating'
          /\ \E e \in Evaluated' : evaluations'[e].stage = "asked"
      BY <2>3, <2>4, <2>5, AskedConsole DEF permitted
    <2>7. ConsoleTypeOK'
      <3>1. {evaluating', submitting'} \subseteq BOOLEAN
        BY <2>5 DEF HandleEvaluate
      <3>2. amount' \in Word
        BY <2>3, <2>5 DEF permitted
      <3> QED
        BY <1>0, <2>5, <2>6, <3>1, <3>2
    <2>8. ResultIsSettled'
      BY <2>1, <2>5, <2>6
    <2>9. OnlyAllowedAmountsAreSent'
      BY <2>5, <2>6
    <2>10. EvaluatingEnds'
      BY <2>6
    <2> QED
      BY <2>7, <2>8, <2>9, <2>10
  <1>5. CASE ExecuteBorrow
    <2>1. /\ result \in Evaluated
          /\ evaluations[result].stage = "settled"
          /\ evaluations[result].requestedAmount = amount
          /\ evaluations[result].answer.decision = "ALLOW"
      BY <1>5 DEF ExecuteBorrow, CanExecuteNow, Shown
    <2>2. UNCHANGED <<wallet, amount, result, evaluating, evaluations>>
      BY <1>5 DEF ExecuteBorrow
    <2>3. /\ sent' = sent \cup {[user |-> wallet, amount |-> amount]}
          /\ submitting' = TRUE
      BY <1>5 DEF ExecuteBorrow
    <2>4. OnlyAllowedAmountsAreSent'
      <3> SUFFICES ASSUME NEW tx \in sent'
                   PROVE  \E e \in Evaluated : /\ evaluations[e].stage = "settled"
                                               /\ evaluations[e].requestedAmount = tx.amount
                                               /\ evaluations[e].answer.decision = "ALLOW"
        BY <2>2 DEF Evaluated
      <3>1. CASE tx \in sent
        BY <3>1
      <3>2. CASE tx = [user |-> wallet, amount |-> amount]
        BY <2>1, <3>2
      <3> QED
        BY <2>3, <3>1, <3>2
    <2>5. ConsoleTypeOK'
      BY <1>0, <2>2, <2>3 DEF Evaluated
    <2> QED
      BY <2>2, <2>4, <2>5 DEF Evaluated
  <1> QED
    BY <1>1, <1>2, <1>3, <1>4, <1>5 DEF PersonNext

LEMMA PromisesConsole ==
    ASSUME ConsoleInv, PromisesNext
    PROVE  ConsoleInv'
  <1> USE DEF ConsoleInv, ConsoleTypeOK, ResultIsSettled,
              OnlyAllowedAmountsAreSent, EvaluatingEnds
  <1>0. RegistryTypeOK' <=> RegistryTypeOK
    BY DEF PromisesNext, TransactionEnds, AnswerEvaluation, SettleEvaluation,
           RejectEvaluation, registryVars, RegistryTypeOK
  <1>1. CASE TransactionEnds
    BY <1>0, <1>1 DEF TransactionEnds, Evaluated
  <1>2. ASSUME NEW e \in Evaluated, AnswerEvaluation(e)
        PROVE  ConsoleInv'
    <2> DEFINE ev == evaluations[e]
               answer == CanExecute(asset, position[ev.user], "BORROW", ev.requestedAmount)
               seen == [asset |-> asset, rawBalance |-> position[ev.user]]
               new == [ev EXCEPT !.stage = "answered", !.answer = answer, !.seen = seen]
    <2>1. ev \in Evaluation /\ ev.stage = "asked"
      BY <1>2 DEF AnswerEvaluation, Evaluated
    <2>2. /\ asset \in AssetState /\ position[ev.user] \in Word
          /\ position[ev.user] \in Nat /\ ev.requestedAmount \in Nat
      BY <2>1, EngineAssumption DEF RegistryTypeOK, Evaluation, Word
    <2>3. answer \in PolicyResponse
      BY <1>2, <2>2, BorrowAnswerType DEF AnswerEvaluation
    <2> HIDE DEF answer
    <2>4. new \in Evaluation
      BY <2>1, <2>2, <2>3 DEF Evaluation
    <2>5. evaluations' = [evaluations EXCEPT ![e] = new]
      BY <1>2 DEF AnswerEvaluation, answer
    <2>6. /\ evaluations' \in Seq(Evaluation) /\ Evaluated' = Evaluated
          /\ Len(evaluations') = Len(evaluations)
      BY <2>4, <2>5 DEF Evaluated
    <2>7. /\ evaluations'[e].stage = "answered"
          /\ \A f \in Evaluated \ {e} : evaluations'[f] = evaluations[f]
      BY <2>1, <2>5 DEF Evaluated, Evaluation
    <2>8. UNCHANGED <<wallet, amount, result, evaluating, submitting, sent>>
      BY <1>2 DEF AnswerEvaluation
    <2>9. ConsoleTypeOK'
      BY <1>0, <2>6, <2>8
    <2>10. result # e
      <3> SUFFICES ASSUME result = e PROVE FALSE
        OBVIOUS
      <3>1. e # 0
        BY DEF Evaluated
      <3>2. evaluations[e].stage = "settled"
        BY <3>1
      <3> QED
        BY <2>1, <3>2
    <2>11. ResultIsSettled'
      BY <2>6, <2>7, <2>8, <2>10
    <2>12. OnlyAllowedAmountsAreSent'
      BY <2>1, <2>6, <2>7, <2>8
    <2>13. EvaluatingEnds'
      BY <2>6, <2>7, <2>8
    <2> QED
      BY <2>9, <2>11, <2>12, <2>13
  <1>3. ASSUME NEW e \in Evaluated, SettleEvaluation(e)
        PROVE  ConsoleInv'
    <2>1. evaluations[e] \in Evaluation
      BY DEF Evaluated
    <2>2. /\ evaluations' = [evaluations EXCEPT ![e] = [@ EXCEPT !.stage = "settled"]]
          /\ [evaluations[e] EXCEPT !.stage = "settled"] \in Evaluation
      BY <1>3, <2>1 DEF SettleEvaluation, Evaluation
    <2>3. /\ evaluations' \in Seq(Evaluation) /\ Evaluated' = Evaluated
          /\ Len(evaluations') = Len(evaluations)
      BY <2>2 DEF Evaluated
    <2>4. /\ evaluations'[e].stage = "settled"
          /\ \A f \in Evaluated \ {e} : evaluations'[f] = evaluations[f]
      BY <2>1, <2>2 DEF Evaluated, Evaluation
    <2>5. /\ result' = e /\ evaluating' = FALSE /\ e \in Evaluated'
          /\ UNCHANGED <<wallet, amount, submitting, sent>>
      BY <1>3, <2>3 DEF SettleEvaluation
    <2>6. ConsoleTypeOK'
      BY <1>0, <2>3, <2>5
    <2>7. ResultIsSettled' /\ EvaluatingEnds'
      BY <2>4, <2>5
    <2>8. OnlyAllowedAmountsAreSent'
      <3>1. \A f \in Evaluated :
                /\ evaluations'[f].requestedAmount = evaluations[f].requestedAmount
                /\ evaluations'[f].answer = evaluations[f].answer
                /\ evaluations[f].stage = "settled" => evaluations'[f].stage = "settled"
        BY <2>1, <2>2, <2>4 DEF Evaluated, Evaluation
      <3> QED
        BY <2>3, <2>5, <3>1
    <2> QED
      BY <2>6, <2>7, <2>8
  <1>4. ASSUME NEW e \in Evaluated, RejectEvaluation(e)
        PROVE  ConsoleInv'
    <2>1. evaluations[e] \in Evaluation /\ evaluations[e].stage # "settled"
      BY <1>4 DEF Evaluated, RejectEvaluation
    <2>2. /\ evaluations' = [evaluations EXCEPT ![e] = [@ EXCEPT !.stage = "rejected"]]
          /\ [evaluations[e] EXCEPT !.stage = "rejected"] \in Evaluation
      BY <1>4, <2>1 DEF RejectEvaluation, Evaluation
    <2>3. /\ evaluations' \in Seq(Evaluation) /\ Evaluated' = Evaluated
          /\ Len(evaluations') = Len(evaluations)
      BY <2>2 DEF Evaluated
    <2>4. \A f \in Evaluated \ {e} : evaluations'[f] = evaluations[f]
      BY <2>1, <2>2 DEF Evaluated, Evaluation
    <2>5. /\ UNCHANGED <<registryVars, wallet, amount, submitting, sent>>
          /\ result' = 0 /\ evaluating' = FALSE
      BY <1>4 DEF RejectEvaluation
    <2>6. ConsoleTypeOK'
      BY <1>0, <2>3, <2>5
    <2>7. ResultIsSettled' /\ EvaluatingEnds'
      BY <2>5
    <2>8. OnlyAllowedAmountsAreSent'
      BY <2>1, <2>3, <2>4, <2>5
    <2> QED
      BY <2>6, <2>7, <2>8
  <1> QED
    BY <1>1, <1>2, <1>3, <1>4 DEF PromisesNext

LEMMA ConsoleInvariant == Spec => []ConsoleInv
  <1>1. ConsoleInv /\ [Next]_vars => ConsoleInv'
    <2> SUFFICES ASSUME ConsoleInv, [Next]_vars PROVE ConsoleInv'
      OBVIOUS
    <2>1. CASE UNCHANGED vars
      BY <2>1 DEF vars, registryVars, pageVars, ConsoleInv, ConsoleTypeOK,
          RegistryTypeOK, ResultIsSettled, OnlyAllowedAmountsAreSent,
          EvaluatingEnds, Evaluated
    <2> QED
      BY <2>1, ChainConsole, PersonConsole, PromisesConsole DEF Next
  <1> QED
    BY <1>1, InitConsole, PTL DEF Spec

(***************************************************************************)
(* Every reachable state of the page is well typed: a shown result is one  *)
(* of the visit's evaluations, and the Registry it reads stays typed.      *)
(***************************************************************************)
THEOREM ConsoleTypeCorrect == Spec => []ConsoleTypeOK
  <1>1. ConsoleInv => ConsoleTypeOK
    BY DEF ConsoleInv
  <1> QED
    BY <1>1, ConsoleInvariant, PTL

(***************************************************************************)
(* The page never hands the wallet an amount that the Policy has not       *)
(* allowed, in whatever order answers, edits and accounts change.          *)
(***************************************************************************)
THEOREM ConsoleSafe == Spec => []OnlyAllowedAmountsAreSent
  <1>1. ConsoleInv => OnlyAllowedAmountsAreSent
    BY DEF ConsoleInv
  <1> QED
    BY <1>1, ConsoleInvariant, PTL

(***************************************************************************)
(* The page never disables its button with nothing left to enable it.      *)
(***************************************************************************)
THEOREM ButtonComesBack == Spec => []EvaluatingEnds
  <1>1. ConsoleInv => EvaluatingEnds
    BY DEF ConsoleInv
  <1> QED
    BY <1>1, ConsoleInvariant, PTL

-----------------------------------------------------------------------------
(***************************************************************************)
(* The retry.                                                              *)
(***************************************************************************)
Truthful(ev) ==
    \/ ev.answer = NoAnswer
    \/ /\ ev.answer \in PolicyResponse
       /\ ev.seen \in [asset: AssetState, rawBalance: Word]
       /\ ev.answer = CanExecute(ev.seen.asset, ev.seen.rawBalance, "BORROW",
                                 ev.requestedAmount)

FollowsLimit(evs, ev) ==
    ev.retryOf # 0 =>
        /\ ev.retryOf \in DOMAIN evs
        /\ evs[ev.retryOf].stage = "settled"
        /\ evs[ev.retryOf].answer.decision = "LIMIT"
        /\ evs[ev.retryOf].answer.permittedAmount = ev.requestedAmount

RetryInv ==
    \A e \in DOMAIN evaluations :
        Truthful(evaluations[e]) /\ FollowsLimit(evaluations, evaluations[e])

(* A settled evaluation is never written again. *)
LEMMA ReplacedRetry ==
    ASSUME ConsoleInv, RetryInv, NEW e \in Evaluated, NEW new \in Evaluation,
           evaluations' = [evaluations EXCEPT ![e] = new],
           evaluations[e].stage # "settled",
           new.retryOf = evaluations[e].retryOf,
           new.requestedAmount = evaluations[e].requestedAmount,
           Truthful(new)
    PROVE  RetryInv'
  <1>1. evaluations \in Seq(Evaluation)
    BY DEF ConsoleInv, ConsoleTypeOK
  <1>2. /\ DOMAIN evaluations' = DOMAIN evaluations /\ evaluations'[e] = new
        /\ \A f \in DOMAIN evaluations \ {e} : evaluations'[f] = evaluations[f]
    BY <1>1 DEF Evaluated
  <1> SUFFICES ASSUME NEW f \in DOMAIN evaluations
               PROVE  Truthful(evaluations'[f]) /\ FollowsLimit(evaluations', evaluations'[f])
    BY <1>2 DEF RetryInv
  <1>3. Truthful(evaluations'[f])
    BY <1>2 DEF RetryInv
  <1>4. /\ evaluations'[f].retryOf = evaluations[f].retryOf
        /\ evaluations'[f].requestedAmount = evaluations[f].requestedAmount
    BY <1>2
  <1>5. ASSUME evaluations[f].retryOf # 0
        PROVE  evaluations'[evaluations[f].retryOf] = evaluations[evaluations[f].retryOf]
    BY <1>2, <1>5 DEF RetryInv, FollowsLimit, Evaluated
  <1>6. FollowsLimit(evaluations', evaluations'[f])
    BY <1>2, <1>4, <1>5 DEF RetryInv, FollowsLimit, Evaluated
  <1> QED
    BY <1>3, <1>6

LEMMA AskedRetry ==
    ASSUME ConsoleInv, RetryInv, NEW requested \in Word, NEW retryOf \in Nat,
           HandleEvaluate(requested, retryOf),
           FollowsLimit(evaluations, Asked(wallet, requested, retryOf))
    PROVE  RetryInv'
  <1> DEFINE new == Asked(wallet, requested, retryOf)
  <1>1. /\ evaluations \in Seq(Evaluation) /\ Len(evaluations) \in Nat
        /\ DOMAIN evaluations = 1..Len(evaluations) /\ wallet \in Users
    BY DEF ConsoleInv, ConsoleTypeOK
  <1>2. new \in Evaluation /\ Truthful(new) /\ FollowsLimit(evaluations, new)
    BY <1>1 DEF Asked, Evaluation, Truthful
  <1>3. evaluations' = Append(evaluations, new)
    BY DEF HandleEvaluate
  <1> HIDE DEF new
  <1>4. /\ DOMAIN evaluations' = DOMAIN evaluations \cup {Len(evaluations) + 1}
        /\ evaluations'[Len(evaluations) + 1] = new
        /\ \A f \in DOMAIN evaluations : evaluations'[f] = evaluations[f]
    BY <1>1, <1>2, <1>3
  <1> SUFFICES ASSUME NEW f \in DOMAIN evaluations'
               PROVE  Truthful(evaluations'[f]) /\ FollowsLimit(evaluations', evaluations'[f])
    BY DEF RetryInv
  <1>5. Truthful(evaluations'[f]) /\ FollowsLimit(evaluations, evaluations'[f])
    BY <1>2, <1>4 DEF RetryInv
  <1> QED
    BY <1>4, <1>5 DEF FollowsLimit

LEMMA RetryStep ==
    ASSUME ConsoleInv, RetryInv, [Next]_vars
    PROVE  RetryInv'
  <1>0. evaluations \in Seq(Evaluation) /\ \A e \in Evaluated : evaluations[e] \in Evaluation
    BY DEF ConsoleInv, ConsoleTypeOK, Evaluated
  <1>1. ASSUME UNCHANGED evaluations
        PROVE  RetryInv'
    BY <1>1 DEF RetryInv, Truthful, FollowsLimit, Evaluated
  <1>2. CASE UNCHANGED vars \/ ChainNext \/ TransactionEnds \/ ExecuteBorrow
    BY <1>1, <1>2 DEF vars, pageVars, ChainNext, TransactionEnds, ExecuteBorrow
  <1>3. ASSUME NEW typed \in Amounts, EditAmount(typed)
        PROVE  RetryInv'
    BY <1>1, <1>3 DEF EditAmount
  <1>4. ASSUME NEW user \in Users, SwitchAccount(user)
        PROVE  RetryInv'
    BY <1>1, <1>4 DEF SwitchAccount
  <1>5. CASE SubmitIntent
    <2>1. HandleEvaluate(amount, 0) /\ amount \in Word
      BY <1>5 DEF SubmitIntent, ConsoleInv, ConsoleTypeOK
    <2>2. FollowsLimit(evaluations, Asked(wallet, amount, 0))
      BY DEF FollowsLimit, Asked
    <2> QED
      BY <2>1, <2>2, AskedRetry
  <1>6. CASE RetryWithPermittedAmount
    <2> DEFINE permitted == evaluations[result].answer.permittedAmount
    <2>1. /\ result \in Evaluated /\ result # 0
          /\ evaluations[result].answer.decision = "LIMIT"
          /\ evaluations[result].stage = "settled"
          /\ HandleEvaluate(permitted, result)
      BY <1>6 DEF RetryWithPermittedAmount, Shown, ConsoleInv, ConsoleTypeOK, ResultIsSettled
    <2>2. permitted \in Word /\ result \in Nat
      <3>1. evaluations[result].answer # NoAnswer
        BY <2>1 DEF NoAnswer
      <3>2. evaluations[result].answer \in PolicyResponse
        BY <2>1, <3>1 DEF RetryInv, Truthful, Evaluated
      <3>3. result \in Nat
        BY <1>0, <2>1 DEF Evaluated
      <3> QED
        BY <3>2, <3>3 DEF PolicyResponse
    <2>3. FollowsLimit(evaluations, Asked(wallet, permitted, result))
      BY <2>1 DEF FollowsLimit, Asked, Evaluated
    <2> HIDE DEF permitted
    <2> QED
      BY <2>1, <2>2, <2>3, AskedRetry
  <1>7. ASSUME NEW e \in Evaluated, AnswerEvaluation(e)
        PROVE  RetryInv'
    <2> DEFINE ev == evaluations[e]
               answer == CanExecute(asset, position[ev.user], "BORROW", ev.requestedAmount)
               seen == [asset |-> asset, rawBalance |-> position[ev.user]]
               new == [ev EXCEPT !.stage = "answered", !.answer = answer, !.seen = seen]
    <2>1. ev \in Evaluation /\ ev.stage = "asked"
      BY <1>0, <1>7 DEF AnswerEvaluation
    <2>2. /\ asset \in AssetState /\ position[ev.user] \in Word
          /\ position[ev.user] \in Nat /\ ev.requestedAmount \in Nat
      BY <2>1, EngineAssumption
      DEF ConsoleInv, ConsoleTypeOK, RegistryTypeOK, Evaluation, Word
    <2>3. answer \in PolicyResponse
      BY <1>7, <2>2, BorrowAnswerType DEF AnswerEvaluation
    <2>4. seen \in [asset: AssetState, rawBalance: Word]
      BY <2>2
    <2>5. answer = CanExecute(seen.asset, seen.rawBalance, "BORROW", ev.requestedAmount)
      OBVIOUS
    <2>6. evaluations' = [evaluations EXCEPT ![e] = new]
      BY <1>7 DEF AnswerEvaluation
    <2> HIDE DEF answer, seen
    <2>7. /\ new \in Evaluation /\ new.answer = answer /\ new.seen = seen
          /\ new.requestedAmount = ev.requestedAmount /\ new.retryOf = ev.retryOf
      BY <2>1, <2>3, <2>4 DEF Evaluation
    <2>8. Truthful(new)
      BY <2>3, <2>4, <2>5, <2>7 DEF Truthful
    <2> HIDE DEF new
    <2> QED
      BY <2>1, <2>6, <2>7, <2>8, ReplacedRetry
  <1>8. ASSUME NEW e \in Evaluated, NEW stage \in {"settled", "rejected"},
               evaluations[e].stage # "settled",
               evaluations' = [evaluations EXCEPT ![e].stage = stage]
        PROVE  RetryInv'
    <2> DEFINE new == [evaluations[e] EXCEPT !.stage = stage]
    <2>1. /\ new \in Evaluation /\ new.retryOf = evaluations[e].retryOf
          /\ new.requestedAmount = evaluations[e].requestedAmount
          /\ new.answer = evaluations[e].answer /\ new.seen = evaluations[e].seen
      BY <1>0 DEF Evaluation
    <2>2. evaluations' = [evaluations EXCEPT ![e] = new]
      BY <1>8
    <2> HIDE DEF new
    <2>3. Truthful(new)
      BY <2>1 DEF RetryInv, Truthful, Evaluated
    <2> QED
      BY <1>8, <2>1, <2>2, <2>3, ReplacedRetry
  <1>9. ASSUME NEW e \in Evaluated, SettleEvaluation(e) \/ RejectEvaluation(e)
        PROVE  RetryInv'
    BY <1>8, <1>9 DEF SettleEvaluation, RejectEvaluation
  <1> QED
    BY <1>2, <1>3, <1>4, <1>5, <1>6, <1>7, <1>9 DEF Next, PersonNext, PromisesNext

(***************************************************************************)
(* Retrying a LIMIT at the permitted amount is an ALLOW, if asset and      *)
(* position are as they were: in the page's own sequence of steps, with    *)
(* edits, changes of account and lost answers in between.                  *)
(***************************************************************************)
THEOREM RetryAllowed == Spec => []RetryIsAllowed
  <1>1. Init => RetryInv
    BY DEF Init, RetryInv, Evaluated
  <1>2. ConsoleInv /\ RetryInv => RetryIsAllowed
    <2> SUFFICES ASSUME ConsoleInv, RetryInv, NEW e \in Evaluated,
                        evaluations[e].retryOf # 0, evaluations[e].answer # NoAnswer,
                        evaluations[e].seen = evaluations[evaluations[e].retryOf].seen
                 PROVE  evaluations[e].answer.decision = "ALLOW"
      BY DEF RetryIsAllowed
    <2> DEFINE ev == evaluations[e]
               limit == evaluations[ev.retryOf]
    <2>1. /\ ev.seen \in [asset: AssetState, rawBalance: Word]
          /\ ev.answer = CanExecute(ev.seen.asset, ev.seen.rawBalance, "BORROW",
                                    ev.requestedAmount)
      BY DEF RetryInv, Truthful, Evaluated
    <2>2. /\ ev.retryOf \in Evaluated /\ limit.answer.decision = "LIMIT"
          /\ limit.answer.permittedAmount = ev.requestedAmount
      BY DEF RetryInv, FollowsLimit, Evaluated
    <2>3. limit.answer = CanExecute(ev.seen.asset, ev.seen.rawBalance, "BORROW",
                                    limit.requestedAmount)
      <3>1. limit.answer # NoAnswer
        BY <2>2 DEF NoAnswer
      <3> QED
        BY <2>2, <3>1 DEF RetryInv, Truthful, Evaluated
    <2>4. limit \in Evaluation
      BY <2>2 DEF ConsoleInv, ConsoleTypeOK, Evaluated
    <2>5. /\ ev.seen.asset \in AssetState /\ ev.seen.rawBalance \in Nat
          /\ limit.requestedAmount \in Nat
      BY <2>1, <2>4, EngineAssumption DEF Word, Evaluation
    <2>6. ev.answer.decision = "ALLOW"
      <3> HIDE DEF ev, limit
      <3> QED
        BY <2>1, <2>2, <2>3, <2>5, LimitRetryIsAllowed
    <2> QED
      BY <2>6
  <1>3. ConsoleInv /\ RetryInv /\ [Next]_vars => RetryInv'
    BY RetryStep
  <1> QED
    BY <1>1, <1>2, <1>3, ConsoleInvariant, PTL DEF Spec

=============================================================================
